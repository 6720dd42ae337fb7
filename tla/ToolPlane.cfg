SPECIFICATION PlaneSpec
CONSTANTS
    Interval = 10
    IdentityEvery = 60
    Tier2Every = 30
    HeavyEvery = 60
    AttemptTimes = {0, 10}
    SkewLimit = 300
    Word = 2
    Traffic = {1}
    SampleLimit = 3
    Shells = {s1, s2}
    Job = s1
    Pids = {1, 2, 3}
    Flights = 1
    StartLimit = 3
    KeyLimit = 2
    Updaters = {m1, m2}
    PartMax = 1
    UpkeepLimit = 3
    MachineLimit = 2
    VersionFiles = {f1, f2}
    LockFiles = {f2}
    PackageJson = f1
    Releases = 3
    CommitLimit = 4
    VersionMax = 1
    Switches = {m1, m2}
    Calls = {s1}
    DemoFresh = 1
    LastHour = 2
    InstanceLimit = 2
    RuntimeLimit = 3
    RivalLimit = 1
    NameCount = 3
    PublicNames = {2}
    Pool = 2
    VisitLimit = 3
    ServerAliases = {1, 2}
    StrayServers = {3}
    Ages = {1, 2}
    RoundTrips = {0, 1, 3}
    PointLimit = 2
    SampleAges = {0, 5}
    CapturedMacs = {1, 255}
    AllowedPorts = {22}
    Anchor = 10
    NoValue = None
INVARIANTS SamplesTrue ServiceSound DoctorHonest TagsSound InUseStays RecordingSound DemoSound
PROPERTIES ScansSpaced NeverDowngrades
SYMMETRY PlaneSymmetry
CHECK_DEADLOCK FALSE
