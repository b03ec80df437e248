CONSTANTS
    Words = {"first", "second", "x"}
    MaxSessions = 2
    Script <- TwoAndNone
    Outputs <- Percent
    SendsWhole = TRUE
    Drops = TRUE
    BrowserLeaves = TRUE
CHECK_DEADLOCK FALSE
SPECIFICATION FairSpec
INVARIANTS TypeOK PageFaithful
PROPERTY ResponseEnds
