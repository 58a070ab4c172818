SPECIFICATION Spec
CONSTANTS
    gtkWin = gtkWin
    qtWin = qtWin
    otherWin = otherWin
    app = app
    otherApp = otherApp
    Nodes <- AllNodes
    Kids <- KidsOfNodes
    MenuBars = {"vbar", "wbar", "xbar"}
    Named <- NamedNodes
    MaxFindDepth = 4
    MaxFetchDepth = 3
    Apps = {app, otherApp}
    AppOf <- AppOfWindow
    Windows = {gtkWin, qtWin, otherWin}
    Registry <- BothApps
    Nested = {}
    Resembling <- OwnNames
    Marks <- WindowsAndMore
    Titles = {t1, t2}
    NoTitle = NoTitle
    Faults = {"error"}
SYMMETRY Interchangeable
INVARIANTS
    TypeOK
    MenuOfFocusedWindow
    MenuOfActiveWindow
    MenuOfResemblingApp
    NeverGuesses
    RowsAreComplete
