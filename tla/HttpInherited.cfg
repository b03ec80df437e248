CONSTANTS
    b1 = b1
    b2 = b2
    Browser = {b1, b2}
    Parts = 2
    Leaves = {}
    Stuck = {b2}
CHECK_DEADLOCK FALSE
SPECIFICATION FairSpec
PROPERTY EveryRequestEnds
