------------------------------ MODULE MCWidget ------------------------------
(* Instances of Widget for TLC.                                            *)
EXTENDS Widget, TLC

CONSTANTS
    app, otherApp,
    Other  \* the window of otherApp, if it has one; all others are of app

AppOfWindow == [w \in Windows |-> IF w = Other THEN otherApp ELSE app]

\* The menus of two windows of an app differ below the strip.
OwnShapes == [w \in Windows |-> w]

\* For runs in which all windows are of one app.
Siblings == Permutations(Windows)

=============================================================================
