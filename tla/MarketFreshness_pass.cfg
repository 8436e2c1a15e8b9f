SPECIFICATION Spec
CONSTANTS
    Pool = {a, r}
    Reference = r
    Quoted = {a, r}
    Reserves <- Twos
    SlotTime <- Times
    Rank <- Ranks
    Window = 1
    MaxAge = 1
    Lookback = 1
    MaxLedger = 2
INVARIANTS
    TypeOK
    LiquidityOfOneInstant
    ActivityExact
    PricedAtTrade
CHECK_DEADLOCK FALSE
