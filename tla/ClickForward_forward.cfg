SPECIFICATION FairSpec
CONSTANTS
    MenuCacheTtl = 0
    Windows = {w1, w2}
    NoWindow = NoWindow
    Menus = {m}
    SettleTicks = 1
    SyncTicks = 1
    RealizeTicks = 1
    MaxRebuilds = 1
    Faults = {"niri", "slow", "native", "signal", "coalesce"}
INVARIANTS
    TypeOK
    
PROPERTIES
    ActsInCapturedWindow
    StaleClicksEnd
