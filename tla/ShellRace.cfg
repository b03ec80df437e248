CONSTANTS
    Lines <- Ways
    Slots = 1
    MaxChildren = 4
    MaxPipes = 4
    MaxSegments = 3
    MaxCommands = 3
    Units = 2
    Capacity = 1
    Quitters = TRUE
CHECK_DEADLOCK FALSE
SPECIFICATION Spec
PROPERTY GivesUpOnlyWhenFull
