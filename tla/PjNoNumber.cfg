CONSTANTS
    Words = {"ls", "x"}
    Programs = {"pj4"}
    Script <- Files
    Ports <- APortOrNone
    Outputs <- Percent
    Drops = FALSE
    BrowserLeaves = FALSE
CHECK_DEADLOCK FALSE
SPECIFICATION Spec
PROPERTY OthersGoOn
