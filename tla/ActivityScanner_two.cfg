SPECIFICATION Spec
CONSTANTS
    s1 = s1
    s2 = s2
    e1 = e1
    none = none
    NoTime = NoTime
    Nobody = Nobody
    Scanner <- TwoScanners
    Event <- OneEvent
    PageLimit = 3
    Bounds <- Bounds1
    NoBound = none
    MaxChain = 2
    MaxTime = 0
    MaxScans = 1
SYMMETRY Symmetric
INVARIANTS
    CacheSound
    VerifiedReportExact
PROPERTY
    ImplementsFacts
CHECK_DEADLOCK FALSE
