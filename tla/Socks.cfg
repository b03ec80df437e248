CONSTANTS
    client = client
    other = other
    Process = {client, other}
    Served = {client}
    Limit = 0
    MaxTime = 2
    MaxPieces <- TwoUpOneDown
CHECK_DEADLOCK FALSE
SPECIFICATION FairSpec
INVARIANTS TypeOK ClientServed
PROPERTY RelayCompletes
