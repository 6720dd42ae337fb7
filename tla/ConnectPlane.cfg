SPECIFICATION PlaneSpec
CONSTANTS
    Slots = {read, write, q3}
    Keys = {t1, t2}
    Intents = {a, b}
    Capacity = 2
    MaxRevision = 2
    HostDeletion = FALSE
    Managers = {m1, m2}
    Global = {m1}
    Servers = {s1}
    Stations = {w1}
    StationOwner <- OwnedByFirst
    TokenIds = {t1, t2}
    Terms = {read, write}
    TokensPerServer = 1
    TokensPerOwner = 2
    SecretLimit = 4
    EventLimit = 4
    VersionLimit = 3
    Nil = Nil
    Hosts = {a, b}
    AgentIds = {g1}
    AssetIds = {x1}
    TagIds = {t1, t2}
    Ports = {read, write}
    MaxTags = 1
    MaxPorts = 1
    None = None
    Unset = Unset
    Absent = Absent
INVARIANTS QueueHonest AtMostOnce TokensSound InventorySound
PROPERTIES IfMatchHonoured TokensOnlyForward ConnectKeepsToServer
SYMMETRY PlaneSymmetry
CHECK_DEADLOCK FALSE
