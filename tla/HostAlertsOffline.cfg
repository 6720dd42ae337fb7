SPECIFICATION Spec
CONSTANTS
    Tier1Lanes = {i1}
    Tier2Lanes = {j1}
    Tier1Rules = {"iowait_high"}
    Tier2Rules = {"no_firewall"}
    Duration <- MCDuration
    OptionalRules = {"iowait_high"}
    Values = {"warn", "crit"}
    SentinelTTL = 2
    MaxLatency = 0
    KVFaults = {}
    Reregistration = FALSE
    Window = {2}
    MaxTime = 4
    None = None

PROPERTIES NoPromotionAcrossWindow
CHECK_DEADLOCK FALSE
