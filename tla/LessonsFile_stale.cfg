SPECIFICATION LockersSpec
CONSTANTS
    p = p
    q = q
    l1 = l1
    l2 = l2
    Callers <- TwoCallers
    Lessons <- TwoLessons
    None = None
PROPERTY StaleNeverWritten
