SPECIFICATION Spec
CONSTANTS
    NoWindow = NoWindow
    NoApp = NoApp
    app = app
    otherApp = otherApp
    Apps = {app, otherApp}
    AppOf <- AppOfWindow
    ShapeOf <- OwnShapes
    Windows = {w1, w2}
    Shapes = {w1, w2}
    Other = w2
    Groups = {g}
    Lazies = {}
    Leaves = {f}
    Faults = {"screens"}
INVARIANT
    ClicksStayInApp
