CONSTANTS
    a = a
    b = b
    c = c
    Session = {a, b, c}
    Nobody = Nobody
    MaxUsers = 2
    MaxLines = 1
    AllLines = 3
    Outputs = {0, 1, 2}
    Overlap = FALSE
    Arrival <- OneOrder
CHECK_DEADLOCK FALSE
SPECIFICATION FairSpec
INVARIANT CleanTransfers

