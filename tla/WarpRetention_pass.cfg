SPECIFICATION Spec
CONSTANTS
    o1 = o1
    o2 = o2
    Nobody = Nobody
    Outgoing <- TwoOutgoing
    Incoming = {i1}
    Reads <- AccountsFirst
    Lookback = 1
    MaxInterval = 1
    PageSize = 2
    MaxPages = 2
    BatchSize = 3
    Attempts = 2
    MaxLedger = 4
    MaxTime = 2
    Lag = 1
INVARIANTS
    TypeOK
    UniverseWhole
    UniverseRetained
    StampsHonest
SYMMETRY Symmetric
CHECK_DEADLOCK FALSE
