SPECIFICATION Spec
CONSTANTS
    p1 = p1
    p2 = p2
    s1 = s1
    s2 = s2
    MaxEvents = 11
    Before = 8
    Foreign <- Nobody
    Pushers <- Nobody
    Chunk = 1
    MaxRetries = 1
    Syncers <- TwoSyncers
    SyncLimit = 2
INVARIANTS SyncPushesPastWatermark
SYMMETRY SyncersAlike
CHECK_DEADLOCK FALSE
