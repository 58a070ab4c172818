------------------------------- MODULE Widget -------------------------------
(***************************************************************************)
(* The bar widget, plugin/BarWidget.qml, with its popup,                   *)
(* plugin/AppmenuPopupWindow.qml.                                          *)
(*                                                                         *)
(* The bridge rewrites active.json in place and then calls the widget over *)
(* IPC; the widget also watches the file. Both ways end in one slot,       *)
(* _pendingSnapshot, applied by Qt.callLater. Meanwhile the user opens     *)
(* popups, whose rows are clicked after focus may have moved on, and two   *)
(* child processes run: atspi-click, which forwards a click, and           *)
(* atspi-expand, which realises the items of a lazy menu.                  *)
(*                                                                         *)
(* QML runs one handler at a time, so an action is a handler. The bridge   *)
(* (proxy.rs), Quickshell's FileView and Process, the compositor's routing *)
(* of the pointer and the child processes are the environment. Left out:   *)
(* the failed state, which a payload the bridge writes never causes, and   *)
(* nested submenus, whose rows end in the same click as those of the root  *)
(* popup.                                                                  *)
(***************************************************************************)
EXTENDS Naturals, Sequences

CONSTANTS
    Windows,   \* the windows that may take focus
    NoWindow,  \* focus_winid 0: no focused window, or nothing captured
    Apps,      \* the app-ids
    NoApp,     \* app_id ""
    AppOf,     \* the app-id of each window
    Shapes,    \* what _sameTopLevel compares of a top level
    ShapeOf,   \* the shape of each window's top level
    Groups,    \* top-level buttons with children
    Lazies,    \* top-level buttons without, labelled like a menu
    Leaves,    \* other top-level buttons
    Faults

ASSUME WindowAssumption ==
    /\ NoWindow \notin Windows /\ NoApp \notin Apps
    /\ AppOf \in [Windows -> Apps]
    /\ ShapeOf \in [Windows -> Shapes]

\* The menus of two applications are told apart by their labels.
ASSUME ShapeAssumption ==
    \A v, w \in Windows : ShapeOf[v] = ShapeOf[w] => AppOf[v] = AppOf[w]

ASSUME ButtonAssumption ==
    /\ Groups \cap Lazies = {} /\ Groups \cap Leaves = {} /\ Lazies \cap Leaves = {}

\* push: a qs ipc call is lost; screens: the focused window is on another
\* screen than the bar that is clicked.
ASSUME FaultAssumption == Faults \subseteq {"push", "screens"}

VARIABLES
    todo,       \* bridge: the payloads of this iteration still to publish
    stage,      \* bridge: how far the publication of the first one is
    file,       \* what active.json holds, {} when it is empty
    changed,    \* FileView: an inotify event is waiting
    load,       \* FileView: the asynchronous reload
    pending,    \* _pendingSnapshot
    focusWinid, \* focusWinid, and with it appId
    topLevel,   \* topLevel: {} when empty, else the window whose nodes it has
    popup,      \* the popup, {} when closed
    captured,   \* _capturedWinid
    retry,      \* _pendingRetryButton
    expanding,  \* expandProcess, {} when not running
    clicking    \* clickProcess, {} when not running

bridgeVars  == <<todo, stage, file>>
fileVars    == <<changed, load>>
barVars     == <<focusWinid, topLevel>>
popupVars   == <<popup, captured>>
processVars == <<retry, expanding, clicking>>
vars == <<bridgeVars, fileVars, pending, barVars, popupVars, processVars>>

----------------------------------------------------------------------------
(* Data                                                                    *)

Option(S) == {{}} \cup {{x} : x \in S}

Focus == Windows \cup {NoWindow}
Buttons == Groups \cup Lazies \cup Leaves

App(w) == IF w = NoWindow THEN NoApp ELSE AppOf[w]

\* A payload: the focused window, and whether its menu is in it.
Body == {b \in [win : Focus, menu : BOOLEAN] : b.win = NoWindow => ~b.menu}

\* applySnapshot(null)
Cleared == [win |-> NoWindow, menu |-> FALSE]

MenuOf(b) == IF b.menu THEN {b.win} ELSE {}

\* The reload, and what it has read.
Load == [phase : {"none", "asked", "done"}, content : Option(Body)]

NoLoad    == [phase |-> "none", content |-> {}]
LoadAsked == [phase |-> "asked", content |-> {}]

\* The popup shows the children of one node: which button's, of which
\* window's menu, and whether atspi-expand realised them. anchor is
\* anchorItem, which becomes null with its delegate; opened is focusWinid
\* when openAt was called.
Popup ==
    [of : Windows, node : Buttons, realised : BOOLEAN,
     anchor : Option(Buttons), opened : Focus]

\* What a child process was started with: the accessible of a node, as the
\* window and the button it belongs to, and for a click --winid. (What the
\* processes do with it is not here.)
Expand == [of : Windows, node : Lazies]
Click  == [of : Windows, winid : Focus]

----------------------------------------------------------------------------
(* The bridge                                                              *)

\* An iteration of the active loop. The eager payload has no menu, or the
\* fallback when the walk is skipped; an equal final one is coalesced.
BridgeBegins(w) ==
    LET eager == [win |-> w, menu |-> FALSE]
        final == [win |-> w, menu |-> TRUE]
    IN
    /\ todo = <<>>
    /\ \/ todo' = <<eager>>
       \/ w # NoWindow /\ todo' \in {<<eager, final>>, <<final>>}
    /\ UNCHANGED <<stage, file, fileVars, pending, barVars, popupVars, processVars>>

\* fs::write truncates, then writes.
BridgeTruncates ==
    /\ todo # <<>> /\ stage = "idle"
    /\ stage' = "truncated"
    /\ file' = {} /\ changed' = TRUE
    /\ UNCHANGED <<todo, load, pending, barVars, popupVars, processVars>>

BridgeWrites ==
    /\ stage = "truncated"
    /\ stage' = "written"
    /\ file' = {Head(todo)} /\ changed' = TRUE
    /\ UNCHANGED <<todo, load, pending, barVars, popupVars, processVars>>

\* Fault: snapshots queue up.
ApplySnapshot_Queues(b) == pending' = pending \cup {b}

\* applySnapshot: the latest wins.
ApplySnapshot(b) == pending' = {b}

\* push_ipc_update waits for the exit of qs: IpcHandler.update has run, or
\* the call was lost.
Push ==
    /\ stage = "written"
    /\ stage' = "idle" /\ todo' = Tail(todo)
    /\ \/ ApplySnapshot(Head(todo))
       \/ "push" \in Faults /\ UNCHANGED pending
    /\ UNCHANGED <<file, fileVars, barVars, popupVars, processVars>>

----------------------------------------------------------------------------
(* FileView                                                                *)

\* onFileChanged: reload(), which drops a read that is under way.
FileChanged ==
    /\ changed /\ changed' = FALSE
    /\ load' = LoadAsked
    /\ UNCHANGED <<bridgeVars, pending, barVars, popupVars, processVars>>

\* A worker thread reads the file.
ReadFile ==
    /\ load.phase = "asked"
    /\ load' = [phase |-> "done", content |-> file]
    /\ UNCHANGED <<bridgeVars, changed, pending, barVars, popupVars, processVars>>

\* The read sees a part of the payload; JSON.parse throws, onLoaded skips it.
LoadSkipped ==
    /\ load.phase = "asked" /\ stage = "truncated"
    /\ load' = NoLoad
    /\ UNCHANGED <<bridgeVars, changed, pending, barVars, popupVars, processVars>>

\* onLoaded. An empty file clears the state.
Loaded ==
    /\ load.phase = "done"
    /\ load' = NoLoad
    /\ \E b \in IF load.content = {} THEN {Cleared} ELSE load.content : ApplySnapshot(b)
    /\ UNCHANGED <<bridgeVars, changed, barVars, popupVars, processVars>>

----------------------------------------------------------------------------
(* The popup                                                               *)

\* Fault: a close does not reset the captured window.
Close_KeepsCaptured == popup' = {} /\ UNCHANGED captured

\* popup.close, with onIsOpenChanged.
Close ==
    /\ popup' = {}
    /\ captured' = IF popup # {} THEN NoWindow ELSE captured

\* Capture focusWinid and popup.openAt. A cross-screen open is refused.
OpenAt(node, of, realised, anchor) ==
    /\ captured' = focusWinid
    /\ \/ popup' = {[of |-> of, node |-> node, realised |-> realised,
                     anchor |-> {anchor}, opened |-> focusWinid]}
       \/ "screens" \in Faults /\ UNCHANGED popup

\* Setting running while the process runs starts nothing.
StartClick(of, winid) ==
    clicking' = IF clicking = {} THEN {[of |-> of, winid |-> winid]} ELSE clicking

StartExpand(node, of) ==
    expanding' = IF expanding = {} THEN {[of |-> of, node |-> node]} ELSE expanding

----------------------------------------------------------------------------
(* Snapshots                                                               *)

\* Fault: only the labels of the strip are compared, and not their children.
SameTopLevel_LabelsOnly(a, b) ==
    \/ a = {} /\ b = {}
    \/ \E v \in a, w \in b : AppOf[v] = AppOf[w]

\* _sameTopLevel compares labels, not the accessibles behind them.
SameTopLevel(a, b) ==
    \/ a = {} /\ b = {}
    \/ \E v \in a, w \in b : ShapeOf[v] = ShapeOf[w]

\* A new model destroys the delegates of the strip, and QML sets to null what
\* refers to them.
SetTopLevel(top) ==
    IF SameTopLevel(topLevel, top)
    THEN UNCHANGED <<topLevel, retry>>
    ELSE topLevel' = top /\ retry' = {}

Anchored(p) == IF topLevel' = topLevel THEN p ELSE [p EXCEPT !.anchor = {}]

\* Fault: a change of the focused app leaves the popup open.
AppIdChanged_Stays(w) ==
    popup' = {Anchored(p) : p \in popup} /\ UNCHANGED captured

\* onAppIdChanged closes the popup.
AppIdChanged(w) ==
    IF App(w) # App(focusWinid)
    THEN Close
    ELSE popup' = {Anchored(p) : p \in popup} /\ UNCHANGED captured

\* _applyPending and _applySnapshotInner
ApplyPending ==
    /\ pending # {} /\ pending' = {}
    /\ \E b \in pending :
          /\ SetTopLevel(MenuOf(b))
          /\ AppIdChanged(b.win)
          /\ focusWinid' = b.win
    /\ UNCHANGED <<bridgeVars, fileVars, expanding, clicking>>

----------------------------------------------------------------------------
(* The pointer. While the popup is open its surface covers the screen; a   *)
(* click on the bar reaches it, or the button.                             *)

InputOnly == UNCHANGED <<bridgeVars, fileVars, pending, barVars>>

\* The button that anchors the open popup.
IsAnchor(b) == \E p \in popup : p.anchor = {b}

ClickAnchor(b) ==
    /\ IsAnchor(b)
    /\ Close
    /\ UNCHANGED processVars /\ InputOnly

ClickGroup(b) ==
    /\ ~IsAnchor(b) /\ b \in Groups
    /\ \E w \in topLevel : OpenAt(b, w, FALSE, b)
    /\ UNCHANGED processVars /\ InputOnly

\* An expand in flight, as far as the widget remembers, drops the click.
ClickLazy(b) ==
    /\ ~IsAnchor(b) /\ b \in Lazies
    /\ IF retry # {}
       THEN UNCHANGED processVars
       ELSE /\ retry' = {b}
            /\ \E w \in topLevel : StartExpand(b, w)
            /\ UNCHANGED clicking
    /\ UNCHANGED popupVars /\ InputOnly

\* The popup is closed first.
ClickLeaf(b) ==
    /\ ~IsAnchor(b) /\ b \in Leaves
    /\ Close
    /\ \E w \in topLevel : StartClick(w, captured')
    /\ UNCHANGED <<retry, expanding>> /\ InputOnly

ClickBar(b) ==
    /\ topLevel # {}
    /\ ClickAnchor(b) \/ ClickGroup(b) \/ ClickLazy(b) \/ ClickLeaf(b)

\* Fault: the click goes to the window in focus now (issue #109).
RowClicked_Drifts ==
    /\ popup # {}
    /\ \E p \in popup : StartClick(p.of, focusWinid)
    /\ Close
    /\ UNCHANGED <<retry, expanding>> /\ InputOnly

\* A row of the popup: fireClick, then close.
RowClicked ==
    /\ popup # {}
    /\ \E p \in popup : StartClick(p.of, captured)
    /\ Close
    /\ UNCHANGED <<retry, expanding>> /\ InputOnly

OutsideClicked ==
    /\ popup # {} /\ Close
    /\ UNCHANGED processVars /\ InputOnly

----------------------------------------------------------------------------
(* The child processes                                                     *)

\* onStreamFinished: nobody waits for the answer any more.
ExpandUnwanted ==
    /\ expanding # {} /\ expanding' = {}
    /\ retry = {}
    /\ UNCHANGED <<popupVars, retry, clicking>> /\ InputOnly

\* onStreamFinished with items: they are shown under the waiting button.
ExpandRealises ==
    /\ expanding # {} /\ expanding' = {}
    /\ retry # {} /\ retry' = {}
    /\ \E b \in retry, x \in expanding : OpenAt(x.node, x.of, TRUE, b)
    /\ UNCHANGED clicking /\ InputOnly

\* onStreamFinished without: a native click on the waiting button.
ExpandFails ==
    /\ expanding # {} /\ expanding' = {}
    /\ retry # {} /\ retry' = {}
    /\ Close
    /\ \E w \in topLevel : StartClick(w, captured')
    /\ InputOnly

ExpandEnds == ExpandUnwanted \/ ExpandRealises \/ ExpandFails

ClickEnds ==
    /\ clicking # {} /\ clicking' = {}
    /\ UNCHANGED <<popupVars, retry, expanding>> /\ InputOnly

----------------------------------------------------------------------------

\* The shell starts with whatever an earlier bridge left in the file.
Init ==
    /\ todo = <<>> /\ stage = "idle"
    /\ file \in Option(Body)
    /\ changed = FALSE /\ load = LoadAsked /\ pending = {}
    /\ focusWinid = NoWindow /\ topLevel = {}
    /\ popup = {} /\ captured = NoWindow
    /\ retry = {} /\ expanding = {} /\ clicking = {}

Bridge ==
    \/ \E w \in Focus : BridgeBegins(w)
    \/ BridgeTruncates \/ BridgeWrites \/ Push

FileView == FileChanged \/ ReadFile \/ LoadSkipped \/ Loaded

User == (\E b \in Buttons : ClickBar(b)) \/ RowClicked \/ OutsideClicked

Next == Bridge \/ FileView \/ ApplyPending \/ User \/ ExpandEnds \/ ClickEnds

Spec == Init /\ [][Next]_vars

(***************************************************************************)
(* Fairness: the bridge finishes an iteration it has begun, the event loop *)
(* of the shell delivers inotify events, finished reads and deferred       *)
(* calls. Nothing is assumed of the user or the child processes, whose     *)
(* D-Bus calls have no time limit.                                         *)
(***************************************************************************)
Fairness ==
    /\ WF_vars(BridgeTruncates) /\ WF_vars(BridgeWrites) /\ WF_vars(Push)
    /\ WF_vars(FileChanged) /\ WF_vars(ReadFile) /\ WF_vars(Loaded)
    /\ WF_vars(ApplyPending)

FairSpec == Spec /\ Fairness

----------------------------------------------------------------------------
(* Properties                                                              *)

\* Types of the variables.
TypeOK ==
    /\ todo \in Seq(Body) /\ Len(todo) <= 2
    /\ stage \in {"idle", "truncated", "written"}
    /\ stage # "idle" => todo # <<>>
    /\ file \in Option(Body) /\ changed \in BOOLEAN /\ load \in Load
    /\ pending \in Option(Body)
    /\ focusWinid \in Focus /\ topLevel \in Option(Windows)
    /\ popup \in Option(Popup) /\ captured \in Focus
    /\ retry \in Option(Lazies) /\ expanding \in Option(Expand)
    /\ clicking \in Option(Click)

\* The popup never outlives its application's focus: its rows, as walked by
\* the bridge, are of the app that the bar shows, whatever snapshots arrived
\* since it was opened. (Realised rows may be of another button, README 6.)
PopupOfFocusedApp ==
    \A p \in popup : ~p.realised => App(p.of) = App(focusWinid)

\* A window is captured exactly while the popup is open, whichever of focus,
\* user and child processes closed or re-aimed it.
CapturedWhileOpen == popup # {} <=> captured # NoWindow

\* A click on a row goes to the window that had focus when the popup was
\* opened (for the rows of an expand: when they arrived), although focus may
\* have moved to a sibling since (issue #109).
RowClickKeepsWindow ==
    [][RowClicked /\ clicking = {} =>
          \A p \in popup, c \in clicking' : c.of = p.of /\ c.winid = p.opened]_vars

\* "Reset to 0 on popup close to surface bugs loudly rather than silently route
\* to the previous window": no click of one app's menu is sent to a window of
\* another.
ClicksStayInApp ==
    \A c \in clicking : c.winid # NoWindow => App(c.winid) = App(c.of)

\* The bar shows payload b.
Shows(b) ==
    /\ focusWinid = b.win
    /\ {ShapeOf[w] : w \in topLevel} = {ShapeOf[w] : w \in MenuOf(b)}

\* The bar converges on what the bridge published last, up to the items that
\* _sameTopLevel compares, however file reads and IPC calls interleave, are
\* lost or coalesced.
Converges ==
    \A b \in Body : <>[](todo = <<>> /\ file = {b}) => <>[]Shows(b)

----------------------------------------------------------------------------
(* Why they hold                                                           *)

\* The strip may keep the nodes of a sibling window, but not of another app.
TopLevelOfApp == \A w \in topLevel : App(w) = App(focusWinid)

\* A waiting button is one of the strip.
RetryOnStrip == retry # {} => topLevel # {}

IInv ==
    /\ TypeOK
    /\ TopLevelOfApp
    /\ RetryOnStrip
    /\ PopupOfFocusedApp

\* What is captured is the window in focus when the open popup was opened (as
\* long as no popup is refused on another screen).
CapturedOfPopup == \A p \in popup : p.opened = captured

=============================================================================
