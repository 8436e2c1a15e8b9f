SPECIFICATION Spec
CONSTANTS
    PageSize = 1
    MaxSignatures = 3
    Start = 1
    End = 2
    NoTime = NoTime
    MaxLedger = 3
    MaxSlot = 2
    MaxTime = 2
    BatchSize = 1
    Retries = 1
INVARIANT
    ZeroExactWindow
CHECK_DEADLOCK FALSE
