CONSTANTS
    Words = {"ls", "x"}
    Programs = {"pj4"}
    Script <- OneFile
    Ports <- TooLarge
    Outputs <- Percent
    Drops = FALSE
    BrowserLeaves = FALSE
CHECK_DEADLOCK FALSE
SPECIFICATION Spec
INVARIANT AsksForItsPort
