CONSTANTS
    Words = {"first", "second", "x"}
    MaxSessions = 1
    Script <- Two
    Outputs <- PercentSpace
    SendsWhole = TRUE
    Drops = FALSE
    BrowserLeaves = FALSE
CHECK_DEADLOCK FALSE
SPECIFICATION Spec
INVARIANT PageInOrder
