---------------------------- MODULE ClickForward ----------------------------
(***************************************************************************)
(* The two child processes of the widget, main.rs run_atspi_click and      *)
(* run_atspi_expand with atspi.rs do_action and expand_and_fetch: they     *)
(* focus the captured window, let the focus settle, probe the accessible,  *)
(* and act on it through AT-SPI or niri. They run beside the bridge, which *)
(* they signal (RefreshActive) and whose cached walk they act on, and      *)
(* beside an application with several windows that follows the focus late, *)
(* fills a lazy menu only once it is opened, and rebuilds its menus.       *)
(*                                                                         *)
(* The widget starts at most one process of each kind. The application's   *)
(* accessible paths change with every rebuild, so a path is the number of  *)
(* the tree it was read from. Its leaf actions go to the window it takes   *)
(* to be active, whichever window the menu was read for.                   *)
(***************************************************************************)
EXTENDS MenuCache

CONSTANTS
    Windows,      \* the windows of the application
    NoWindow,     \* --winid 0
    Menus,        \* its lazily filled top-level menus
    SettleTicks,  \* focus_settle_ms, 150 ms
    SyncTicks,    \* the application follows the focus within
    RealizeTicks, \* EXPAND_REALIZE_DELAY, 150 ms
    MaxRebuilds,  \* bound: rebuilds of the application's menus
    Faults

ASSUME ForwardAssumption ==
    /\ NoWindow \notin Windows
    /\ SettleTicks \in Nat /\ RealizeTicks \in Nat /\ MaxRebuilds \in Nat
    /\ SyncTicks \in 1..SettleTicks

\* niri: FocusWindow fails; slow: a menu takes longer than RealizeTicks;
\* native: the user closes the application's own menus; signal: RefreshActive
\* reaches nobody (the bridge is down or has another name); coalesce: the eager
\* payload does not empty the bar (it is lost, or overtaken in its own turn).
ASSUME FaultAssumption == Faults \subseteq {"niri", "slow", "native", "signal", "coalesce"}

VARIABLES
    focus,    \* niri: the focused window
    active,   \* application: the window it takes to be active
    lag,      \* application: for how long active has not been focus
    tree,     \* application: how often its menus were rebuilt
    realised, \* application: the lazy menus it has filled
    open,     \* application: the native menu that is open, {} when none
    flash,    \* history: what became of the menu that an expand opened
    fetched,  \* bridge: CACHE, by window
    shown,    \* bridge: the payload in the bar, {} before the first
    kick,     \* bridge: whether the active loop has been woken
    proc      \* the processes, {} when not running

appVars    == <<active, lag, tree, realised, open, flash>>
bridgeVars == <<fetched, shown, kick>>
vars == <<focus, appVars, bridgeVars, proc>>

----------------------------------------------------------------------------
(* Data                                                                    *)

IsOption(o, S) == o = {} \/ \E x \in o : o = {x} /\ x \in S

Trees == 0..MaxRebuilds

\* A walk of the menubar: the tree it read, the lazy menus that had items.
Walk == [tree : Trees, kids : SUBSET Menus]

Walked == [tree |-> tree, kids |-> realised]

\* What a process may be asked to act on: a row of a popup, read from the
\* application or synthesised (a niri action), or a lazy menu.
Rows == {"leaf", "synthetic"}

\* What the two processes hold. winid is NoWindow when --winid is not given,
\* left the rest of a sleep, kids whether the walk of the expanded menu saw
\* items. steady is history: the pre-focus succeeded and the focus has not
\* moved since.
Process(Stages, Items) ==
    [stage : Stages, item : Items, tree : Trees, winid : Windows \cup {NoWindow},
     left : 0..(SettleTicks + RealizeTicks), kids : BOOLEAN, steady : BOOLEAN]

ClickStages  == {"focus", "settle", "probe", "act", "stale"}
ExpandStages == ClickStages \cup {"realise", "collapse", "refresh", "answer"}

ClickProcess  == Process(ClickStages, Rows \cup Menus)
ExpandProcess == Process(ExpandStages, Menus)

Kinds == {"click", "expand"}

\* flash is "open" while a menu that was closed is open because an expand
\* opened it, and "dropped" once the widget has dropped the click that would
\* have closed it.
Flashes == {"none", "open", "dropped"}

\* Types of the variables.
TypeOK ==
    /\ focus \in Windows /\ active \in Windows
    /\ lag \in 0..(SyncTicks - 1)
    /\ tree \in Trees /\ realised \subseteq Menus /\ IsOption(open, Menus)
    /\ flash \in Flashes
    /\ IsCacheMap(fetched, Windows, Walk)
    /\ IsOption(shown, Walk) /\ kick \in BOOLEAN
    /\ DOMAIN proc = Kinds
    /\ IsOption(proc["click"], ClickProcess)
    /\ IsOption(proc["expand"], ExpandProcess)

Started(item, winid) ==
    [stage |-> "focus", item |-> item, winid |-> winid,
     tree |-> IF item = "synthetic" THEN 0 ELSE (CHOOSE w \in shown : TRUE).tree,
     left |-> 0, kids |-> FALSE, steady |-> FALSE]

\* A process at stage s.
At(k, s) == \E p \in proc[k] : p.stage = s

\* Fault: a second process starts beside the one that runs.
Set_Adds(k, p) == proc' = [proc EXCEPT ![k] = @ \cup {p}]

Set(k, p) == proc' = [proc EXCEPT ![k] = {p}]

Ends(k) == proc' = [proc EXCEPT ![k] = {}]

\* The histories after the focus moved.
Unsteady(f) == [k \in Kinds |-> {[p EXCEPT !.steady = FALSE] : p \in f[k]}]

----------------------------------------------------------------------------
(* niri and the application                                                *)

\* The focus goes to w, and the bridge learns of it.
FocusOn(w) ==
    /\ focus' = w
    /\ lag' = IF w = focus THEN lag ELSE 0
    /\ kick' = (kick \/ w # focus)

UserFocuses(w) ==
    /\ w # focus
    /\ FocusOn(w)
    /\ proc' = Unsteady(proc)
    /\ UNCHANGED <<active, tree, realised, open, flash, fetched, shown>>

AppFollows ==
    /\ active # focus
    /\ active' = focus /\ lag' = 0
    /\ UNCHANGED <<focus, tree, realised, open, flash, bridgeVars, proc>>

\* The accessible of another tree is gone, and with it the open menu.
AppRebuilds ==
    /\ tree < MaxRebuilds
    /\ tree' = tree + 1
    /\ realised' = {} /\ open' = {} /\ flash' = "none"
    /\ UNCHANGED <<focus, active, lag, bridgeVars, proc>>

\* The items of an open menu arrive.
AppRealises ==
    /\ ~(open \subseteq realised)
    /\ realised' = realised \cup open
    /\ UNCHANGED <<focus, active, lag, tree, open, flash, bridgeVars, proc>>

\* A native menu is dismissed. (That one is open before an expand, a click
\* brings about.)
UserCloses ==
    /\ "native" \in Faults
    /\ open # {} /\ open' = {} /\ flash' = "none"
    /\ UNCHANGED <<focus, active, lag, tree, realised, bridgeVars, proc>>

\* The entries of a cache that may be read again.
Fresh(cache) == [w \in {w \in DOMAIN cache : IsFresh(cache[w])} |-> cache[w]]

Tick ==
    /\ \/ active # focus /\ lag + 1 < SyncTicks /\ lag' = lag + 1 /\ UNCHANGED active
       \/ (active = focus \/ lag + 1 = SyncTicks) /\ lag' = 0 /\ active' = focus
    /\ realised' = IF "slow" \in Faults THEN realised ELSE realised \cup open
    /\ fetched' = Fresh(AgeEntries(fetched))
    /\ proc' = [k \in Kinds |->
                    {[p EXCEPT !.left = IF @ > 0 THEN @ - 1 ELSE 0] : p \in proc[k]}]
    /\ UNCHANGED <<focus, tree, open, flash, shown, kick>>

----------------------------------------------------------------------------
(* The bridge                                                              *)

\* The menu of an iteration of the active loop: a cached walk is used again,
\* whatever the loop was woken for.
Payload == IF IsHit(fetched, focus) THEN fetched[focus].menu ELSE {Walked}

\* The eager payload empties the bar, so that the menu that follows is taken;
\* without it _sameTopLevel spares a menu that has the same items, whatever
\* accessibles are behind them.
Publish ==
    /\ kick /\ kick' = FALSE
    /\ fetched' = IF IsHit(fetched, focus) THEN fetched ELSE Put(fetched, focus, Payload)
    /\ \/ shown' = Payload
       \/ /\ "coalesce" \in Faults
          /\ \E old \in shown, new \in Payload : old.kids = new.kids
          /\ UNCHANGED shown
    /\ UNCHANGED <<focus, appVars, proc>>

----------------------------------------------------------------------------
(* The processes: what both do                                             *)

\* A process that will not use winid again. (ActsInCapturedWindow is about
\* rows: they keep it, and the history that goes with it.)
Aimed(p, ok) ==
    [p EXCEPT !.steady = ok /\ p.item \in Rows,
              !.winid = IF p.item \in Rows THEN @ ELSE NoWindow]

\* Fault: the process does not wait for the application to follow.
PreFocused_NoSettle(p) == [Aimed(p, TRUE) EXCEPT !.stage = "probe"]

\* What FocusWindow returning Ok does to the process.
PreFocused(p) == [Aimed(p, TRUE) EXCEPT !.stage = "settle", !.left = SettleTicks]

\* niri_focus_window: skipped without --winid; an error does not block the
\* process, which then has nothing to wait for. What moves the focus away
\* from where the other process put it makes that one unsteady.
PreFocus(k) ==
    \E p \in proc[k] :
        /\ p.stage = "focus"
        /\ \/ /\ p.winid = NoWindow \/ "niri" \in Faults
              /\ Set(k, [Aimed(p, FALSE) EXCEPT !.stage = "probe"])
              /\ UNCHANGED <<focus, lag, kick>>
           \/ /\ p.winid # NoWindow
              /\ FocusOn(p.winid)
              /\ proc' = [(IF p.winid = focus THEN proc ELSE Unsteady(proc))
                            EXCEPT ![k] = {PreFocused(p)}]
        /\ UNCHANGED <<active, tree, realised, open, flash, fetched, shown>>

Settled(k) ==
    \E p \in proc[k] :
        /\ p.stage = "settle" /\ p.left = 0
        /\ Set(k, [p EXCEPT !.stage = "probe"])
        /\ UNCHANGED <<focus, appVars, bridgeVars>>

\* The GetRole probe; a synthetic row is dispatched before it.
Probe(k) ==
    \E p \in proc[k] :
        /\ p.stage = "probe"
        /\ Set(k, [p EXCEPT !.stage =
                     IF p.item = "synthetic" \/ p.tree = tree THEN "act" ELSE "stale"])
        /\ UNCHANGED <<focus, appVars, bridgeVars>>

\* Fault: nobody is told.
SignalRefreshActive_Silent == UNCHANGED kick

\* signal_refresh_active: best effort.
SignalRefreshActive ==
    \/ kick' = TRUE
    \/ "signal" \in Faults /\ UNCHANGED kick

\* MenuError::Stale: the bridge is signalled, and the process exits with 2.
\* The widget reads no items from an expand that does.
StaleExit(k) ==
    \E p \in proc[k] :
        /\ p.stage = "stale"
        /\ IF k = "click" THEN Ends(k) ELSE Set(k, [p EXCEPT !.stage = "answer"])
        /\ SignalRefreshActive
        /\ UNCHANGED <<focus, appVars, fetched, shown>>

\* DoAction(0) on a menu: the click action toggles it.
Toggle(m) == open' = IF open = {m} THEN {} ELSE {m}

----------------------------------------------------------------------------
(* atspi-click                                                             *)

\* Where an action of row i takes effect: a leaf's where the application
\* takes itself to be, a niri action in the focused window.
TargetOf(i) == IF i = "synthetic" THEN focus ELSE active

\* DoAction(0), or niri msg action. A rebuild since the probe makes it an
\* untyped error: nobody is signalled.
ClickActs ==
    \E p \in proc["click"] :
        /\ p.stage = "act"
        /\ \/ /\ p.item \in Menus /\ p.tree = tree
              /\ Toggle(p.item) /\ flash' = "none"
           \/ /\ p.item \notin Menus \/ p.tree # tree
              /\ UNCHANGED <<open, flash>>
        /\ Ends("click")
        /\ UNCHANGED <<focus, active, lag, tree, realised, bridgeVars>>

----------------------------------------------------------------------------
(* atspi-expand: expand_and_fetch                                          *)

\* An error leaves the widget without items, and a native menu as it is.
ExpandFails(p) == Set("expand", [p EXCEPT !.stage = "answer"])

\* The first DoAction(0); its verdict is ignored, an error is not.
Expands ==
    \E p \in proc["expand"] :
        /\ p.stage = "act"
        /\ \/ /\ p.tree = tree /\ Toggle(p.item)
              /\ flash' = IF open = {} THEN "open" ELSE "none"
              /\ Set("expand", [p EXCEPT !.stage = "realise", !.left = RealizeTicks])
           \/ p.tree # tree /\ ExpandFails(p) /\ UNCHANGED <<open, flash>>
        /\ UNCHANGED <<focus, active, lag, tree, realised, bridgeVars>>

\* fetch_menu_tree, after EXPAND_REALIZE_DELAY. A menu that is gone has no
\* items: its reads fail, and none of the failures is an error.
FetchesItems ==
    \E p \in proc["expand"] :
        /\ p.stage = "realise" /\ p.left = 0
        /\ Set("expand", [p EXCEPT !.stage = "collapse",
                                   !.kids = (p.tree = tree /\ p.item \in realised)])
        /\ UNCHANGED <<focus, appVars, bridgeVars>>

\* Fault: the collapse is left out.
ToggledBack_Never(p) == UNCHANGED open

\* "Only toggle when the walk actually saw children"; its error is ignored.
ToggledBack(p) ==
    IF p.kids /\ p.tree = tree THEN Toggle(p.item) ELSE UNCHANGED open

Collapses ==
    \E p \in proc["expand"] :
        /\ p.stage = "collapse"
        /\ ToggledBack(p)
        /\ flash' = IF open' = open THEN flash ELSE "none"
        /\ Set("expand", [p EXCEPT !.stage = "refresh"])
        /\ UNCHANGED <<focus, active, lag, tree, realised, bridgeVars>>

\* The items are printed, the bridge is signalled, the process exits.
Refreshes ==
    \E p \in proc["expand"] :
        /\ p.stage = "refresh"
        /\ Set("expand", [p EXCEPT !.stage = "answer"])
        /\ SignalRefreshActive
        /\ UNCHANGED <<focus, appVars, fetched, shown>>

----------------------------------------------------------------------------
(* The widget                                                              *)

\* A row of a popup, which was opened for window w.
ClickRow(row, w) ==
    /\ shown # {} /\ proc["click"] = {}
    /\ Set("click", Started(row, w))
    /\ UNCHANGED <<focus, appVars, bridgeVars>>

\* A top-level menu that the bar has no items for.
ClickLazy(m) ==
    /\ \E b \in shown : m \notin b.kids
    /\ proc["expand"] = {}
    /\ Set("expand", Started(m, focus))
    /\ UNCHANGED <<focus, appVars, bridgeVars>>

\* The click that runs will close the menu that is open.
ClickCloses ==
    \E p \in proc["click"] : p.stage # "stale" /\ p.tree = tree /\ open = {p.item}

\* onStreamFinished: the items open under the button. Without items the menu
\* is clicked, on a popup that is closed and so has no window captured: it
\* opens in the application, or closes if the expand has left it open. A click
\* that is still running drops this one.
Answered ==
    \E p \in proc["expand"] :
        /\ p.stage = "answer"
        /\ \/ p.kids /\ Ends("expand") /\ UNCHANGED flash
           \/ /\ ~p.kids /\ proc["click"] = {}
              /\ proc' = [expand |-> {},
                           click |-> {[Started(p.item, NoWindow) EXCEPT !.tree = p.tree]}]
              /\ UNCHANGED flash
           \/ /\ ~p.kids /\ proc["click"] # {}
              /\ Ends("expand")
              /\ flash' = IF flash = "open" /\ ~ClickCloses THEN "dropped" ELSE flash
        /\ UNCHANGED <<focus, active, lag, tree, realised, open, bridgeVars>>

----------------------------------------------------------------------------

\* A moment after the application was focused for the first time.
Init ==
    /\ focus \in Windows /\ active = focus /\ lag = 0
    /\ tree = 0 /\ realised = {} /\ open = {} /\ flash = "none"
    /\ fetched = <<>> /\ shown = {} /\ kick = TRUE
    /\ proc = [k \in Kinds |-> {}]

ProcessStep(k) == PreFocus(k) \/ Settled(k) \/ Probe(k) \/ StaleExit(k)
ClickStep  == ProcessStep("click") \/ ClickActs
ExpandStep ==
    \/ ProcessStep("expand") \/ Expands \/ FetchesItems
    \/ Collapses \/ Refreshes \/ Answered

Next ==
    \/ \E w \in Windows : UserFocuses(w)
    \/ AppFollows \/ AppRebuilds \/ AppRealises \/ UserCloses
    \/ Tick \/ Publish \/ ClickStep \/ ExpandStep
    \/ \E r \in Rows, w \in Windows : ClickRow(r, w)
    \/ \E m \in Menus : ClickLazy(m)

Spec == Init /\ [][Next]_vars

(***************************************************************************)
(* Fairness: time passes, the processes run, and the bridge answers what   *)
(* it is woken for. Of the signals of stale clicks sent for ever again, one *)
(* arrives, and of the menus published for ever again, one comes after an  *)
(* eager payload that arrived: the bridge is not down for good, nor the    *)
(* widget deaf. Nothing is assumed of the user.                            *)
(***************************************************************************)
StaleSignal == (StaleExit("click") \/ StaleExit("expand")) /\ kick'

InFull == Publish /\ shown' = Payload

FairSpec ==
    /\ Spec
    /\ WF_vars(Tick) /\ WF_vars(Publish) /\ WF_vars(ClickStep) /\ WF_vars(ExpandStep)
    /\ SF_vars(StaleSignal) /\ SF_vars(InFull)

----------------------------------------------------------------------------

\* Issue #109: an action takes effect in the window it was captured for,
\* whatever the focus did before the process started, if FocusWindow
\* succeeded and the focus stayed there. (Between the two the application
\* may still take another window to be the active one.)
ActsInCapturedWindow ==
    [][\A p \in proc["click"] :
          p.stage = "act" /\ p.item \in Rows /\ p.steady /\ proc'["click"] = {}
              => TargetOf(p.item) = p.winid]_vars

\* ADR-0034: the expand "briefly opens the real Firefox menu". While a menu is
\* open only because an expand opened it, that expand is still going to close
\* it, or to answer without items; or the widget's native click, which then
\* closes it, is running. The exception is a native click that was dropped
\* since another one was running: nothing closes that menu any more.
FlashEnds ==
    flash = "open" =>
        \/ ClickCloses
        \/ \E p \in proc["expand"] :
              /\ p.tree = tree /\ open = {p.item}
              /\ \/ p.stage \in {"realise", "collapse"}
                 \/ p.stage \in {"refresh", "answer"} /\ ~p.kids

\* FR-007: once the application has stopped rebuilding its menus, clicks stop
\* going stale, although a cached walk may first be published again.
StaleClicksEnd == <>[](~At("click", "stale") /\ ~At("expand", "stale"))

----------------------------------------------------------------------------
(* Why the first two hold.                                                 *)

\* A click that is steady waits until the application follows
\* it, and no longer knows another window to be the active one.
SteadyIsFollowed ==
    \A p \in proc["click"] : p.steady =>
        /\ p.stage \in {"settle", "probe", "act", "stale"}
        /\ p.winid = focus
        /\ active # focus => p.stage = "settle" /\ SettleTicks - p.left <= lag

IInv == TypeOK /\ SteadyIsFollowed /\ FlashEnds

=============================================================================
