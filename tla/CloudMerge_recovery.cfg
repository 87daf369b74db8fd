SPECIFICATION Spec
CONSTANTS
    A = A
    B = B
    Elsewhere = Elsewhere
    None = None
    Grades <- GradesMC
    Threshold = 15
    Limit = 2
    PageCap = 1
    MaxEvents = 2
    Devices <- TwoDevices
INVARIANT RecoversOrigin
