SPECIFICATION FairSpec
CONSTANTS
    d1 = d1
    d2 = d2
    m1 = m1
    r1 = r1
    r2 = r2
    None = None
    Daemons <- TwoDaemons
    Mcps <- OneMcp
    Threads <- TwoThreads
    MaxRequests = 1

PROPERTY TermStops
