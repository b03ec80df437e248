CONSTANTS
    Words = {"first", "second", "x"}
    MaxSessions = 1
    Script <- Two
    Outputs <- Percent
    SendsWhole = FALSE
    Drops = FALSE
    BrowserLeaves = FALSE
CHECK_DEADLOCK FALSE
SPECIFICATION Spec
INVARIANT PageInOrder
