SPECIFICATION FairSpend
CONSTANTS
    k1 = k1
    Undefined = Undefined
    Unset = Unset
    None = None
    Refs <- MCRefs
    Fold <- MCFold
    Hours = 1
    KeyHours = 2
    Policies <- AllPolicies
    Acts <- MCActs
    Keys = {k1}
    AllowUnkeyed = TRUE
    Outcomes = {"ok", "timeout", "prior", "silent"}
    Restarts = TRUE
    Halts = TRUE
    MaxTime = 3
    MaxSubmits = 3

    c1 = c1
    Coins = {c1}
    WalletSubmits = 3
    Encodings = {"envelope"}
    Unconfirmed = {"unset", "no"}
    MaxExplicit = 1
    MaxHydrates = 1
    Failures = {"ack", "reveal", "wait"}
    MaxFailures = 1
    Changes = {TRUE, FALSE}
INVARIANTS ResolvedNeverRespent  AtMostOncePerKey
PROPERTIES QueueDrains ImplementsBudget
CHECK_DEADLOCK FALSE
