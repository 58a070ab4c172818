SPECIFICATION FairSpecStillness
CONSTANTS
    Windows = {w1}
    None = None
    Pidless = {}
    Titles = {t1, t2}
    BackoffFloor = 1
    BackoffMax = 1
    ResetThreshold = 1
    Debounce = 2
    ElapsedMax = 1
    MaxInFlight = 2
    Faults = {}
PROPERTY
    PublishedAfterStillness
