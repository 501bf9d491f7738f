SPECIFICATION FairFeeds
CONSTANTS
    None = None
    Subs <- TwoSubs
    Seed = 1
    Cap = 1
    RateRetries = 1
    MaxRounds = 2
    Errors = {"RATE_LIMITED", "REFUSED", "SILENT"}
    MaxRows = 3
    MaxFaults = 2
    MaxAttempts = 2
    Calls = {"connect", "disconnect", "setBase"}
    Failures = TRUE
    MaxCalls = 3
    MaxCuts = 2
    NoSocket = NoSocket
INVARIANTS
    NoSilentGap
PROPERTIES
    EveryRowArrives
    ComesBackUnlessFailing
CHECK_DEADLOCK FALSE
