CONSTANTS
    Lines <- Ways
    Slots = 3
    MaxChildren = 4
    MaxPipes = 3
    MaxSegments = 3
    MaxCommands = 3
    Units = 2
    Capacity = 1
    Quitters = TRUE
CHECK_DEADLOCK FALSE
SPECIFICATION FairSpec
INVARIANTS TypeOK EverythingArrives PromptIsLast IntendedEnds
PROPERTY ComesBack
