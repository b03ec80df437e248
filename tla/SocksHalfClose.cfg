CONSTANTS
    client = client
    Process = {client}
    Served = {client}
    Limit = 1
    MaxTime = 1
    MaxPieces <- TwoEach
CHECK_DEADLOCK FALSE
SPECIFICATION FairSpec
PROPERTY HalfClosedServed
