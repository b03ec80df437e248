CONSTANTS
    p1 = p1
    p2 = p2
    Proc = {p1, p2}
    NoProc = NoProc
    MaxUsers = 2
    MaxMessages = 1
    MaxLines = 1
    Vanish = TRUE
    Overlap = FALSE
    noname = noname
    alice = alice
    longA = longA
    longB = longB
    DefaultName = noname
    Name <- Nicks
    StoredName <- StoredWhole
    Speakers = 2
    Arrival <- OneOrder
CHECK_DEADLOCK FALSE
SPECIFICATION FairSpec
PROPERTY EveryCommandEnds
