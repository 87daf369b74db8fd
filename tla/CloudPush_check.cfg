SPECIFICATION ApartSpec
CONSTANTS
    p1 = p1
    p2 = p2
    s1 = s1
    s2 = s2
    MaxEvents = 11
    Before = 8
    Foreign <- Nobody
    Pushers <- TwoPushers
    Chunk = 1
    MaxRetries = 1
    Syncers <- TwoSyncers
    SyncLimit = 2
INVARIANTS TypeOK WatermarkSafe SyncSkipsNothing
PROPERTY OkMeansPushed
SYMMETRY AnyOrder
CHECK_DEADLOCK FALSE
