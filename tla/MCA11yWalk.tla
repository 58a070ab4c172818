----------------------------- MODULE MCA11yWalk -----------------------------
(* An instance of A11yWalk for TLC: two windows of one application, one of *)
(* another. Below the windows are their menubars: a GTK one with a nested  *)
(* submenu, one of Qt with a popup, and one deeper in its window, with a   *)
(* popup in a popup.                                                       *)
EXTENDS A11yWalk, TLC

CONSTANTS gtkWin, qtWin, otherWin, app, otherApp

AppOfWindow == (gtkWin :> app) @@ (qtWin :> app) @@ (otherWin :> otherApp)

BarNodes == {"vbar", "file", "recent", "doc", "page", "wbar", "edit", "popup", "copy",
             "more", "xbox", "xbar", "outer", "inner", "help"}

AllNodes == {gtkWin, qtWin, otherWin} \cup BarNodes

KidsOfNodes ==
    [n \in AllNodes |->
        CASE n = gtkWin   -> <<"vbar">>
          [] n = "vbar"   -> <<"file">>
          [] n = "file"   -> <<"recent">>
          [] n = "recent" -> <<"doc">>
          [] n = "doc"    -> <<"page">>
          [] n = qtWin    -> <<"wbar">>
          [] n = "wbar"   -> <<"edit">>
          [] n = "edit"   -> <<"popup">>
          [] n = "popup"  -> <<"copy", "more">>
          [] n = otherWin -> <<"xbox">>
          [] n = "xbox"   -> <<"xbar">>
          [] n = "xbar"   -> <<"outer">>
          [] n = "outer"  -> <<"inner">>
          [] n = "inner"  -> <<"help">>
          [] OTHER        -> <<>>]

NamedNodes == AllNodes \ {"popup", "outer", "inner"}

BothApps == <<app, otherApp>>

\* The Name of an application passes for its own app-id.
OwnNames == [a \in Apps |-> {a}]

\* STATE_ACTIVE may be that of a window, and of another application's root or of
\* the child of its window.
WindowsAndMore == {qtWin, "xbox", otherApp}

\* Titles are only compared.
Interchangeable == Permutations(Titles)

\* How deep the accessibles are.
DepthOfNodes ==
    [n \in AllNodes |->
        CASE n \in Windows                             -> 0
          [] n \in {"vbar", "wbar", "xbox"}            -> 1
          [] n \in {"file", "edit", "xbar"}            -> 2
          [] n \in {"recent", "popup", "outer"}        -> 3
          [] n \in {"doc", "copy", "more", "inner"}    -> 4
          [] OTHER                                     -> 5]

\* What the theorems about the walk assume of the accessibles.
ASSUME DepthSuffices /\ IsForest(DepthOfNodes)

=============================================================================
