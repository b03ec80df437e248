CONSTANTS
    p1 = p1
    p2 = p2
    Proc = {p1, p2}
    NoProc = NoProc
    MaxUsers = 2
    MaxMessages = 1
    MaxLines = 0
    Vanish = FALSE
    Overlap = TRUE
    noname = noname
    alice = alice
    longA = longA
    longB = longB
    DefaultName = noname
    Name <- Nicks
    StoredName <- StoredWhole
    Speakers = 2
    Arrival <- OneOrder
CHECK_DEADLOCK FALSE
SPECIFICATION Spec
INVARIANT NoGhostUser
