SPECIFICATION FairSpec
CONSTANTS
    RecheckTtl = 2
    ExpensiveRecheckTtl = 3
    ExpensiveResolvedTtl = 1
    ExpensiveWalk = 1
    FetchBudget = 1
    MenuCacheTtl = 1
    NoWindow = NoWindow
    Windows = {w1}
    Apps = {w1}
    Pids = {w1}
    AppOf <- OwnApp
    PidOf <- OwnApp
    Anonymous = {}
    Readable = {full}
    Lazy = {lazy}
    DesktopFallback = TRUE
    BusStatus = {"disabled"}
    Faults = {"bus", "error", "props", "crash"}
INVARIANTS
    ProvenanceHonest
    SettledIsCurrent
PROPERTIES
    FocusSettles
    SelfHeals
