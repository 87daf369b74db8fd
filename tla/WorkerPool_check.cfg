SPECIFICATION FairSpec
CONSTANTS
    w1 = w1
    w2 = w2
    k1 = k1
    k2 = k2
    MaxJobs = 2
    Keys <- KeysMC
    Handled <- HandledMC
    Workers <- WorkersMC
INVARIANTS TypeOK NoConcurrentTwins
PROPERTIES ImplementsLedger StopDrains PendingServed StopReturns
CHECK_DEADLOCK FALSE
