SPECIFICATION FairSpec
CONSTANTS
    s1 = s1
    s2 = s2
    e1 = e1
    none = none
    NoTime = NoTime
    Nobody = Nobody
    Scanner <- OneScanner
    Event <- NoEvent
    PageLimit = 2
    Bounds <- Bounds013
    NoBound = none
    MaxChain = 3
    MaxTime = 1
    MaxScans = 1
INVARIANTS
    TypeOK
    TimeIntervalComplete
PROPERTY
    ScanEnds
CHECK_DEADLOCK FALSE
