CONSTANTS
    a = a
    b = b
    c = c
    Session = {a, b, c}
    Nobody = Nobody
    MaxUsers = 2
    MaxLines = 2
    AllLines = 3
    Outputs = {1, 2}
    Overlap = TRUE
    Arrival <- AnyOrder
CHECK_DEADLOCK FALSE
SPECIFICATION Spec
SYMMETRY Symmetry
INVARIANT OnlyAddresseeReads
