SPECIFICATION Spec
CONSTANTS
    NoWindow = NoWindow
    NoApp = NoApp
    app = app
    otherApp = otherApp
    Apps = {app, otherApp}
    AppOf <- AppOfWindow
    ShapeOf <- OwnShapes
    Windows = {w1, w2}
    Shapes = {w1, w2}
    Other = NoWindow
    Groups = {g}
    Lazies = {l}
    Leaves = {f}
    Faults = {}
SYMMETRY Siblings
INVARIANTS
    TypeOK
    PopupOfFocusedApp
    CapturedWhileOpen
PROPERTY
    RowClickKeepsWindow
