SPECIFICATION Spec
CONSTANTS
    Undefined = Undefined
    Unset = Unset
    Refs <- MCRefs
    Fold <- MCFold
    Hours = 2
    Skew = 0
    Policies <- GatePolicies
    MaxFee = 2
    PayeeCap = 1
    AllowConfirmable = FALSE
    MaxInputs = 2
    ActionOf <- MCActionOf
    OwnEnvelopes = {"e1", "e2"}
    Requests <- GateRequests
    ClockSteps <- NoSteps
    MaxTime = 0
    MaxRecords = 1
INVARIANTS NothingUnjudged OutflowBounded
CHECK_DEADLOCK FALSE
