SPECIFICATION Spec
CONSTANTS
    l1 = l1
    l2 = l2
    c1 = c1
    c2 = c2
    Lessons <- TwoLessons
    Categories <- TwoCategories
    CategoryOf <- SameCategory
    Gated <- SecondOnly
    OneOff <- SecondOnly
    Severities <- OneSeverity
    Directions <- BothWays
    PatternAbove = 58
    PatternBelow = 59
    RuleAt = 93
    MinPattern = 2
    MinRule = 3
    KillLimit = 3
    Grace = 1
    BlendFrom = 1
    BlendTo = 3
    MaxCalls = 4
    MaxSessions = 3
INVARIANTS TypeOK NoPromotionFromSilence
PROPERTIES ImplementsLife OneTierPerCall FiredRuleStays EvidenceMovesItsWay TriedWhenSeen
CHECK_DEADLOCK FALSE
