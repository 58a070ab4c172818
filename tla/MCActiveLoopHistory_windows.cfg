SPECIFICATION SpecHistory
CONSTANTS
    RecheckTtl = 1
    ExpensiveRecheckTtl = 2
    ExpensiveResolvedTtl = 1
    ExpensiveWalk = 1
    FetchBudget = 1
    MenuCacheTtl = 0
    NoWindow = NoWindow
    Windows = {w1, w2}
    Apps = {a1}
    Pids = {p1}
    AppOf <- OneApp
    PidOf <- OneProcess
    Anonymous = {}
    Readable = {full}
    Lazy = {}
    DesktopFallback = FALSE
    BusStatus = {"enabled"}
    Faults = {"frame", "disk"}
SYMMETRY Interchangeable
INVARIANTS
    TypeOK
    MenuOfItsWindow
PROPERTIES
    PublishedMenuIsRecent
    SentinelFollowsFile
