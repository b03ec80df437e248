CONSTANTS
    Words = {"ls", "x"}
    Programs = {"pj4", "console"}
    Script <- Files
    Ports <- APortOrNone
    Outputs <- Percent
    Drops = TRUE
    BrowserLeaves = TRUE
CHECK_DEADLOCK FALSE
SPECIFICATION FairSpec
INVARIANTS TypeOK PageInOrder
PROPERTY DialogueEnds
