SPECIFICATION Spec

CONSTANTS
    Watchers = {"a1", "a2", "t"}
    WatchKey <- MCWatchKey
    WatchTypes <- MCWatchTypes
    EntityOf <- MCEntityOf
    RefusedKeys = {}
    DefaultRate = 2
    ServerRate = 1
    MaxResends = 1
    MaxIds = 3
    MaxBunches = 1
    MaxCloses = 1

    Acts = {1, 2}
    MaxPolls = 2

    Hubs = {0, 1}
    HubKind <- MCHubKind
    Services = {"explorer", "encoder", "websocket"}
    Network = "here"
    Urls = {"https", "http"}
    SecureUrls = {"https"}
    PublicUrl <- MCPublicUrl
    SdkOptions <- MCSdkOptions
    HubParams <- MCHubParams
    Fetchers = {1, 2}
    MaxHubSteps = 2
    MaxFetches = 3

    MaxRetries = 3
    MaxRateLimitRetries = 1
    PinnedFee = "pinned"

    Items <- MCItems
    Folded <- MCFolded
    IdOf <- MCIdOf
    KeptItems = {"^7"}
    LookupLimit = 2

    Offers <- MCOffers
    Ceilings <- MCCeilings
    MaxPresents = 2
    MaxFetchUrls = 3

    CodeSizes = {0, 1, 2, 3, 4, 5}
    SingleFits = 1
    MaxDeployChunks = 3
    MaxCodeSize = 4
    MaxReads = 2

    Undefined = Undefined
    v1 = v1
    v2 = v2
    v3 = v3
    alice = alice
    bob = bob
    carol = carol
    Depth = 3
    KeyOf <- MCKeyOf
    Gates <- MCGates
    ReorgBuffer = 1
    SourceOf <- MCSourceOf
    WeightOf <- MCWeightOf
    Faulty <- MCFaulty
    States <- MCStates
    TrueState <- MCTrueState
    Checkpoints <- MCCheckpoints
    Pinned <- MCPinned
    Asked = {alice, bob}
    AskedHeights <- MCAskedHeights
    Claimable = {0, 1}
    Anchors <- MCAnchors
    MinDepth = 2
    CacheMax = 1

INVARIANTS
    HeldIsSubscribed
    WaitTellsTheTruth
    HubIsMirrored
    BroadcastIsHonest
    ItemsKeepTheirMeaning
    
    VerifiedIsTrue
    FollowedIsTrue

CHECK_DEADLOCK FALSE
