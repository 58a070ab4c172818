SPECIFICATION FairSpec
CONSTANTS
    NoWindow = NoWindow
    NoApp = NoApp
    app = app
    otherApp = otherApp
    Apps = {app, otherApp}
    AppOf <- AppOfWindow
    ShapeOf <- OwnShapes
    Windows = {w1, w2, w3}
    Shapes = {w1, w2, w3}
    Other = w3
    Groups = {}
    Lazies = {}
    Leaves = {}
    Faults = {"push"}
PROPERTY
    Converges
