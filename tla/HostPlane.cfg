SPECIFICATION PlaneSpec
CONSTANTS
    Reporters = {p1, p2}
    Windows = {w1}
    NoWindow = NoWindow
    NoRow = NoRow
    None = None
    ProjectionTTL = 1
    ReportLatency = 1
    KvFaults = {"get", "put", "delete"}
    LastTime = 3
    ReportLimit = 2
    ChangeLimit = 2
    Hosts = {p1, p2}
    HourTicks = 2
    Skew = 1
    RetentionOptions = {2, 3}
    DefaultRetention = 2
    Failures = {"abort", "settings"}
    Deletion = TRUE
    MaxTime = 3
    MaxSamples = 2
    Sources = {p1, p2}
    Matches = {m}
    Runtimes = {r1}
    Throttle = 2
    SnapshotTTL = 4
    LastBeatTime = 3
    BeatLimit = 3
    NoValue = NoValue
INVARIANTS DeletedHostStaysAway LagBounded DeletedHostHasNoMetrics HeartbeatsHonest
PROPERTIES RunLosesNothing OtherSourcesUntouched
SYMMETRY PlaneSymmetry
CHECK_DEADLOCK FALSE
