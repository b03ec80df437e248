CONSTANTS
    a = a
    b = b
    Session = {a, b}
    Nobody = Nobody
    MaxUsers = 2
    MaxLines = 2
    AllLines = 3
    Outputs = {1, 2}
    Overlap = TRUE
    Arrival <- OneOrder
CHECK_DEADLOCK FALSE
SPECIFICATION FairSpec
INVARIANTS TypeOK NeverBlocksOnOpen ConsumedOnce
PROPERTIES ImplementsUserPipes EveryLineEnds
