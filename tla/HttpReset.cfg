CONSTANTS
    b1 = b1
    b2 = b2
    Browser = {b1, b2}
    Parts = 2
    Leaves = {"reset"}
    Stuck = {}
CHECK_DEADLOCK FALSE
SPECIFICATION Spec
INVARIANT StaysUp
