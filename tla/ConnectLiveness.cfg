SPECIFICATION FairSpec
CONSTANTS
    Slots = {s1, s2, s3}
    Keys = {k1}
    Intents = {i1}
    Capacity = 2
    MaxRevision = 1
    HostDeletion = TRUE
    None = None
PROPERTIES QueueDrains
