SPECIFICATION Spec
CONSTANTS
    Inflows = {a, b}
    Outflows = {c}
    Amount <- Amounts
    Reserve = 2
    Supply = 2
    Lengths = {1}
    Lookback = 2
    MaxSkew = 1
    Lag = 1
    MaxLedger = 3
    MaxTime = 3
    MaxRemoved = 1
INVARIANT ZeroWindowComplete
SYMMETRY Symmetric
CHECK_DEADLOCK FALSE
