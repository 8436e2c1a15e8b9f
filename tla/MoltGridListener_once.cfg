SPECIFICATION Spec
CONSTANTS
    MaxAsks = 1
    MaxNow = 1
    MaxFaults = 1
    Lookback = 1
    Batch = 1
    Faults = {"post"}
INVARIANTS
    AnsweredOnce
CHECK_DEADLOCK FALSE
