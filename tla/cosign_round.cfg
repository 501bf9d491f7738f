SPECIFICATION Spec
CONSTANTS
    Undefined = Undefined
    Calls = {c1, c2, c3}
    Workloads <- MCWorkloads
    Endpoints <- MCEndpoints
    MaxRequests = 1
    RateWindow = 2
    WindowCap = 2
    FeeCeiling = 1
    MaxTime = 2
    c1 = c1
    c2 = c2
    c3 = c3
INVARIANTS NonceSafe ChargedOnce RateBound
CHECK_DEADLOCK FALSE
