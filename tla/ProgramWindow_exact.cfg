SPECIFICATION FairSpec
CONSTANTS
    PageSize = 2
    MaxSignatures = 3
    Start = 1
    End = 2
    NoTime = NoTime
    MaxLedger = 3
    MaxSlot = 2
    MaxTime = 3
    BatchSize = 2
    Retries = 2
INVARIANTS
    TypeOK
    RangeComplete
    TraceExact
    ZeroExact
PROPERTY
    ReportReturned
CHECK_DEADLOCK FALSE
