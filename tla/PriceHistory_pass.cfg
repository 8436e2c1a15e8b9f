SPECIFICATION HistorySpec
CONSTANTS
    Interval = 2
    Opening = 5
    Horizon = 12
    Reach = 1
    PerWindow = 2
    MaxWindows = 2
    Attempts = 2
    FreshBound = 4
    Widths = {1, 3}
    MaxHides = 2
INVARIANTS
    HistoryTypeOK
    StartExact
    LifetimeWhole
    SweepWhole
CHECK_DEADLOCK FALSE
