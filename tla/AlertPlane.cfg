SPECIFICATION PlaneSpec
CONSTANTS
    Tier1Lanes = {i1, i2}
    Tier2Lanes = {}
    Tier1Rules = {"mem_high", "iowait_high"}
    Tier2Rules = {}
    Duration <- MCDuration
    OptionalRules = {}
    Values = {"warn"}
    SentinelTTL = 1
    MaxLatency = 1
    KVFaults = {"get", "put", "delete"}
    Reregistration = TRUE
    Window = {3}
    MaxTime = 3
    None = None
    Deliverers = {i1, i2}
    Addresses = {ip1}
    RateLimit = 1
    PageSize = 1
    LastMinute = 1
    DeliveryLimit = 3
    EventLimit = 2
    TokenLimit = 2
    LifeLimit = 1
    NoHook = NoHook
    Fleet = {h1}
    Viewers = {v1}
    Day = 3
    Windows <- MCWindows
    OfflineAfter = 3
    ViewTTL = 1
    StorageTTL = 3
    ViewLatency = 1
    LastStep = 3
    ViewLimit = 2
    FleetChangeLimit = 2
INVARIANTS DeletedHostHasNoAlerts StaleSentinelBounded WebhooksSound ViewsTruthful
PROPERTIES TriggeredAtPreserved
SYMMETRY PlaneSymmetry
CHECK_DEADLOCK FALSE
