SPECIFICATION Spec
CONSTANTS
    a = a
    b = b
    c = c
    d = d
    None = None
    Proc = {a, b, c, d}
    PidOf <- OwnPid
    Leftover = {a}
    HardLinks = {TRUE}
    Operator = "none"
    Concurrent = TRUE
    MaxCharges = 1
SYMMETRY Starters
INVARIANT SingleHolder
CHECK_DEADLOCK FALSE
