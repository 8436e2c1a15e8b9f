SPECIFICATION StoreSpec
CONSTANTS
    Threads = {t1}
    Kinds = {"window"}
    Keys = {k1}
    Prices = {1}
    Quotes = {1}
    MaxNow = 3
    MaxSnaps = 3
    MaxOffers = 0
    Candles = {0}
    Interval = 2
    Period = 2
    Slack = 1
    Tolerance = 1
    Lag = 2
INVARIANTS
    NotUpgraded
CHECK_DEADLOCK FALSE
