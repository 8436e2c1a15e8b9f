SPECIFICATION StoreSpec
CONSTANTS
    k1 = k1
    k2 = k2
    t1 = t1
    t2 = t2
    Threads <- TwoThreads
    Kinds = {"profile", "window"}
    Keys <- TwoKeys
    Prices = {1}
    Quotes = {1, 2, 3}
    MaxNow = 1
    MaxSnaps = 2
    MaxOffers = 2
    Candles = {0}
    Interval = 1
    Period = 2
    Slack = 1
    Tolerance = 1
    Lag = 1
INVARIANTS
    StoreTypeOK
    ThrottledEach
    ComparesWithPast
    AnswersStand
SYMMETRY Symmetric
CHECK_DEADLOCK FALSE
