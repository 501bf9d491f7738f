SPECIFICATION Spec
CONSTANTS
    a = a
    b = b
    c = c
    d = d
    None = None
    Proc = {a, b, c}
    PidOf <- OwnPid
    Leftover = {a}
    HardLinks = {TRUE, FALSE}
    Operator = "careful"
    Concurrent = TRUE
    MaxCharges = 2
INVARIANTS SingleHolder ChargesSurvive NotAllRefused
CHECK_DEADLOCK FALSE
