SPECIFICATION StoreSpec
CONSTANTS
    Threads = {t1, t2}
    Kinds = {"profile"}
    Keys = {k1}
    Prices = {1}
    Quotes = {1}
    MaxNow = 2
    MaxSnaps = 2
    MaxOffers = 0
    Candles = {0}
    Interval = 2
    Period = 2
    Slack = 1
    Tolerance = 1
    Lag = 2
INVARIANTS
    Throttled
CHECK_DEADLOCK FALSE
