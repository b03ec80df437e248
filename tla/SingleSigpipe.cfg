CONSTANTS
    ca = ca
    cb = cb
    Conn = {ca, cb}
    Nobody = Nobody
    MaxUsers = 2
    noname = noname
    alice = alice
    Name = {noname}
    DefaultName = noname
    MaxFd = 8
    MaxPipes = 3
    MaxSegments = 6
    MaxChildren = 4
    Outputs = {1}
    Capacity = 1
    UserPiping = FALSE
    Mistakes = FALSE
    Vanish = TRUE
    Shape <- Simple
    Arrival <- OneOrder
    MaxLines <- TwoLines
CHECK_DEADLOCK FALSE
SPECIFICATION Spec
INVARIANTS StaysUp
