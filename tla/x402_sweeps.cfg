SPECIFICATION FairSpec
CONSTANTS
    None = None
    k1 = k1
    k2 = k2
    alice = alice
    bob = bob
    Configs <- MCConfigs
    Nonces = {k1}
    Req = {i1, i2}
    Payers = {alice, bob}
    Resources = {r1}
    Payments <- MCPayments
    PayTo = "gate"
    DepositTo = "deposit"
    Tick402 = "TOK"
    Amount = 2
    Price = 2
    Ttl = 1
    ChallengeTtl = 2
    ConfirmWindow = 2
    Sweepers = {s1, s2}
    Latency = 1
    PruneAge = 2
    LastAsk = 0
    MaxTime = 5
    MaxFailures = 1
    MaxRestarts = 1
PROPERTY PromotionSticks
CHECK_DEADLOCK FALSE
