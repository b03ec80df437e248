CONSTANTS
    ca = ca
    cb = cb
    Conn = {ca, cb}
    Nobody = Nobody
    MaxUsers = 2
    noname = noname
    alice = alice
    Name = {noname}
    DefaultName = noname
    MaxFd = 11
    MaxPipes = 4
    MaxSegments = 6
    MaxChildren = 4
    Outputs = {2}
    Capacity = 1
    UserPiping = FALSE
    Mistakes = FALSE
    Vanish = FALSE
    Shape <- Delayed
    Arrival <- OneOrder
    MaxLines <- TwoLines
CHECK_DEADLOCK FALSE
SPECIFICATION FairSpec
PROPERTIES ClientLearns
