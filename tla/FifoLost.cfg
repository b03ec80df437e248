CONSTANTS
    a = a
    b = b
    Session = {a, b}
    Nobody = Nobody
    MaxUsers = 2
    MaxLines = 1
    AllLines = 3
    Outputs = {1, 2}
    Overlap = TRUE
    Arrival <- OneOrder
CHECK_DEADLOCK FALSE
SPECIFICATION Spec
INVARIANT ReceivedWhole
