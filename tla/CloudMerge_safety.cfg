SPECIFICATION Spec
CONSTANTS
    A = A
    B = B
    Elsewhere = Elsewhere
    None = None
    Grades <- GradesMC
    Threshold = 15
    Limit = 2
    PageCap = 2
    MaxEvents = 3
    Devices <- OneDevice
INVARIANTS TypeOK CursorCovers AgreementSettles
PROPERTY DisagreementHolds
