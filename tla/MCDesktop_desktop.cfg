CONSTANTS
    None = None
    NDirs = 2
    AppIds = {"files"}
    Stems <- MCStems
    Fold <- MCFold
    Norm <- MCNorm
    ValidIds = {"files", "org.x.Files", "other"}
    Base <- MCBase
    Contents <- MCContents
    ResolveTtl = 2
    MaxFiles = 3
    MaxEdits = 1
SPECIFICATION Spec
INVARIANTS
    TypeOK
    FallbackIsRecent
PROPERTIES
    ResolvesBest
    LaunchesShown
