CONSTANTS
    ca = ca
    cb = cb
    Conn = {ca, cb}
    Nobody = Nobody
    MaxUsers = 2
    noname = noname
    alice = alice
    Name = {noname}
    DefaultName = noname
    MaxFd = 13
    MaxPipes = 6
    MaxSegments = 6
    MaxChildren = 6
    Outputs = {2}
    Capacity = 1
    UserPiping = FALSE
    Mistakes = FALSE
    Vanish = FALSE
    Shape <- Shell
    Arrival <- OneOrder
    MaxLines <- FirstTwoThenOne
CHECK_DEADLOCK FALSE
SPECIFICATION FairSpec
INVARIANTS TypeOK EndsInRightHands
PROPERTIES ComesBack ClosedForGood
