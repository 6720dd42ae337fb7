SPECIFICATION TokenCacheSpec
CONSTANTS
    Requests = {r1, r2}
    CacheTTL = 2
    RevokedTTL = 2
    MaxLatency = 1
    KVFaults = {}
    TokenMaxTime = 7
PROPERTIES RevocationFinal
CHECK_DEADLOCK FALSE
