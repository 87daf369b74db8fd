SPECIFICATION Spec
CONSTANTS
    e1 = e1
    e2 = e2
    a1 = a1
    a2 = a2
    Events <- TwoEvents
    Emitters <- EmittersMC
    Nil = Nil
    MaxQueue = 2
SYMMETRY TwoSymmetry
PROPERTIES RetryNeverDuplicates
CHECK_DEADLOCK FALSE
