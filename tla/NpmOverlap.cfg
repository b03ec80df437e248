CONSTANTS
    p1 = p1
    p2 = p2
    Proc = {p1, p2}
    NoProc = NoProc
    MaxUsers = 2
    MaxMessages = 2
    MaxLines = 1
    Vanish = TRUE
    Overlap = TRUE
    noname = noname
    alice = alice
    longA = longA
    longB = longB
    DefaultName = noname
    Name <- Nicks
    StoredName <- StoredWhole
    Speakers = 1
    Arrival <- AnyOrder
CHECK_DEADLOCK FALSE
SPECIFICATION Spec
SYMMETRY Symmetry
INVARIANTS TypeOK RegistrySafe InOrderOnce NoLostWakeup
