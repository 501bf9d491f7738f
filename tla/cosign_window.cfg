SPECIFICATION Spec
CONSTANTS
    Undefined = Undefined
    Unset = Unset
    Refs <- MCRefs
    Fold <- MCFold
    Hours = 1
    Skew = 0
    Policies <- WindowPolicies
    MaxFee = 2
    PayeeCap = 1
    AllowConfirmable = TRUE
    MaxInputs = 2
    ActionOf <- MCActionOf
    OwnEnvelopes = {"e1", "e2"}
    Requests <- WindowRequests
    ClockSteps <- Backward
    MaxTime = 2
    MaxRecords = 3
INVARIANTS RevealNotStranded CountCap
PROPERTY ImplementsBudget
CHECK_DEADLOCK FALSE
