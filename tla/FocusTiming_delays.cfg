SPECIFICATION FairSpecTiming
CONSTANTS
    Windows = {w1}
    None = None
    Pidless = {}
    Titles = {t1, t2}
    BackoffFloor = 1
    BackoffMax = 4
    ResetThreshold = 2
    Debounce = 2
    ElapsedMax = 3
    MaxInFlight = 2
    Faults = {"drop", "restart", "reject"}
INVARIANT
    ReconnectsInTime
PROPERTY
    FocusComesThrough
