CONSTANTS
    ca = ca
    cb = cb
    cc = cc
    Conn = {ca, cb, cc}
    Nobody = Nobody
    MaxUsers = 2
    noname = noname
    alice = alice
    Name = {noname, alice}
    DefaultName = noname
    MaxFd = 12
    MaxPipes = 3
    MaxSegments = 6
    MaxChildren = 4
    Outputs = {1, 2}
    Capacity = 1
    UserPiping = TRUE
    Mistakes = TRUE
    Vanish = TRUE
    Shape <- Simple
    Arrival <- OneOrder
    MaxLines <- OneLine
CHECK_DEADLOCK FALSE
SPECIFICATION FairSpec
INVARIANT OwnDescriptors
PROPERTIES ComesBack ImplementsUserPipes ImplementsDirectory
