SPECIFICATION PlaneSpec
CONSTANTS
    Environments = {"production", "development"}
    HostNames = {"browser", "machine", "localhost", "unknown"}
    Requests = {r1, r2}
    CacheTTL = 2
    RevokedTTL = 2
    MaxLatency = 1
    KVFaults = {"get", "put", "delete"}
    TokenMaxTime = 7
    Lanes = {p1, p2, p3}
    Maximum = 2
    Period = 10
    Keep = 10
    CronEvery = 60
    Latency = 1
    Start = 58
    MaxTime = 61
    MaxRequests = 7
    None = None
    PlanCount = 2
    SetupLimit = 3
    EditLimit = 2
    PieceLimit = 4
    Targets = {r1, r2}
    PingLanes = 1
    TextMax = 1
    ListMax = 1
    CpuMax = 1
    BytesMax = 1
    ErrorMax = 2
    MaxSpan = 1
    Runs = {r1, r2}
    ReportIds = {i1, i2}
    Attempts = 2
    MaxRun = 1
    LockStale = 2
    Skew = 2
    LastMoment = 3
    UpsetLimit = 1
    Nobody = Nobody
INVARIANTS GateHolds RateExact InstallationSound ReportHonest ReportsFiled
PROPERTIES RevocationHolds StationOnlyForward
SYMMETRY PlaneSymmetry
CHECK_DEADLOCK FALSE
