SPECIFICATION Spec
CONSTANTS
    Windows = {w1, w2}
    None = None
    Pidless = {w2}
    Titles = {t1, t2}
    BackoffFloor = 1
    BackoffMax = 1
    ResetThreshold = 0
    Debounce = 0
    ElapsedMax = 0
    MaxInFlight = 2
    Faults = {"drop", "restart", "reject", "reorder"}
INVARIANTS
    TypeOK
    SettledOnFocusedWindow
PROPERTY
    ImplementsFeed
