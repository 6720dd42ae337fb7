SPECIFICATION Spec
CONSTANTS
    Slots = {s1}
    Keys = {k1}
    Intents = {i1}
    Capacity = 1
    MaxRevision = 1
    HostDeletion = TRUE
    None = None
INVARIANTS AtMostOnce
