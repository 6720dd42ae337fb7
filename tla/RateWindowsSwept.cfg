SPECIFICATION RateSpec
CONSTANTS
    Lanes = {p1}
    Maximum = 2
    Period = 10
    Keep = 10
    CronEvery = 60
    Latency = 1
    Start = 60
    MaxTime = 61
    MaxRequests = 4
    None = None
INVARIANTS RateLimited
CHECK_DEADLOCK FALSE
