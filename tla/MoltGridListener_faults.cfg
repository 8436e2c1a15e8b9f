SPECIFICATION FairSpec
CONSTANTS
    MaxAsks = 2
    MaxNow = 2
    MaxFaults = 1
    Lookback = 1
    Batch = 2
    Faults = {"crash", "save", "post"}
INVARIANTS
    TypeOK
    RepliesBounded
    MarkedIsAnswered
    NeverItself
    HistoryLeftAlone
PROPERTIES
    SignalServed
CHECK_DEADLOCK FALSE
