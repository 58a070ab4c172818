--------------------------- MODULE Widget_proofs ---------------------------
(***************************************************************************)
(* Proofs about Widget, for all values of its constants: the types of its  *)
(* variables, that the popup is of the focused app, that a window is       *)
(* captured exactly while the popup is open, and that a row's click goes   *)
(* to that window.                                                         *)
(***************************************************************************)
EXTENDS Widget, SequenceTheorems, TLAPS

----------------------------------------------------------------------------
(* Data                                                                    *)

\* Payloads and the menus in them are well formed.
LEMMA BodyType ==
    /\ Cleared \in Body
    /\ \A b \in Body : /\ b.win \in Focus
                       /\ MenuOf(b) \in Option(Windows)
                       /\ \A w \in MenuOf(b) : w = b.win
  BY DEF Cleared, Body, Focus, MenuOf, Option

\* Only a window has an app.
LEMMA AppType ==
    /\ App(NoWindow) = NoApp
    /\ \A w \in Windows : App(w) = AppOf[w] /\ App(w) # NoApp
  BY WindowAssumption DEF App

\* The eager and the final payload of an iteration.
LEMMA IterationType ==
    ASSUME NEW w \in Focus
    PROVE  /\ [win |-> w, menu |-> FALSE] \in Body
           /\ w # NoWindow => [win |-> w, menu |-> TRUE] \in Body
  BY DEF Body

\* An iteration publishes at most two payloads.
LEMMA BodySequences ==
    ASSUME NEW b \in Body
    PROVE  /\ <<b>> \in Seq(Body) /\ Len(<<b>>) = 1
           /\ \A c \in Body : <<b, c>> \in Seq(Body) /\ Len(<<b, c>>) = 2
  OBVIOUS

\* A strip that _sameTopLevel takes for another is of the same app.
LEMMA SameShapeSameApp ==
    ASSUME NEW a \in Option(Windows), NEW b \in Option(Windows), SameTopLevel(a, b),
           NEW v \in a, NEW w \in b
    PROVE  App(v) = App(w)
  BY ShapeAssumption, AppType DEF SameTopLevel, Option

----------------------------------------------------------------------------
(* The effect of the parts of the actions                                  *)

PopupTyped == popup \in Option(Popup) /\ captured \in Focus

\* A close keeps the types.
LEMMA CloseType ==
    ASSUME PopupTyped, Close
    PROVE  PopupTyped' /\ popup' = {}
  BY DEF PopupTyped, Close, Option, Focus

\* An opened popup has the node and the window it was opened with.
LEMMA OpenType ==
    ASSUME PopupTyped, focusWinid \in Focus,
           NEW node \in Buttons, NEW of \in Windows, NEW realised \in BOOLEAN,
           NEW anchor \in Buttons, OpenAt(node, of, realised, anchor)
    PROVE  /\ PopupTyped'
           /\ \A p \in popup' : p \in popup \/ (p.of = of /\ p.realised = realised)
  <1> DEFINE new == [of |-> of, node |-> node, realised |-> realised,
                     anchor |-> {anchor}, opened |-> focusWinid]
  <1>1. new \in Popup
    BY DEF Popup, Option
  <1>2. popup' = {new} \/ popup' = popup
    BY DEF OpenAt
  <1>3. popup' \in Option(Popup)
    BY <1>1, <1>2 DEF Option, PopupTyped
  <1> QED
    BY <1>2, <1>3 DEF OpenAt, PopupTyped

\* The child processes stay well typed.
LEMMA StartClickType ==
    ASSUME clicking \in Option(Click), NEW of \in Windows, NEW winid \in Focus,
           StartClick(of, winid)
    PROVE  clicking' \in Option(Click)
  BY DEF StartClick, Click, Option

----------------------------------------------------------------------------
(* The invariant                                                           *)

\* The shell starts in a state of the invariant.
LEMMA InitInv == Init => IInv
  <1> SUFFICES ASSUME Init PROVE IInv
    OBVIOUS
  <1>1. todo \in Seq(Body) /\ Len(todo) <= 2
    BY EmptySeq DEF Init
  <1>2. load \in Load
    BY DEF Init, Load, LoadAsked, Option
  <1>3. stage = "idle" /\ file \in Option(Body) /\ changed = FALSE
    BY DEF Init
  <1>4. /\ pending \in Option(Body) /\ topLevel \in Option(Windows)
        /\ popup \in Option(Popup) /\ retry \in Option(Lazies)
        /\ expanding \in Option(Expand) /\ clicking \in Option(Click)
        /\ focusWinid \in Focus /\ captured \in Focus
    BY DEF Init, Option, Focus
  <1>5. TopLevelOfApp /\ RetryOnStrip /\ PopupOfFocusedApp
    BY DEF Init, TopLevelOfApp, RetryOnStrip, PopupOfFocusedApp
  <1> QED
    BY <1>1, <1>2, <1>3, <1>4, <1>5 DEF IInv, TypeOK

\* The bridge and FileView change nothing but the file and the slot.
LEMMA BridgeKeeps ==
    ASSUME IInv, Bridge \/ FileView
    PROVE  IInv'
  <1> USE DEF IInv, TypeOK, TopLevelOfApp, RetryOnStrip, PopupOfFocusedApp
  <1>1. ASSUME NEW w \in Focus, BridgeBegins(w)
        PROVE  IInv'
    <2> DEFINE eager == [win |-> w, menu |-> FALSE]
    <2> DEFINE final == [win |-> w, menu |-> TRUE]
    <2>1. \/ todo' = <<eager>>
          \/ w # NoWindow /\ (todo' = <<eager, final>> \/ todo' = <<final>>)
      BY <1>1 DEF BridgeBegins
    <2>2. eager \in Body /\ (w # NoWindow => final \in Body)
      BY IterationType
    <2> HIDE DEF eager, final
    <2>3. todo' \in Seq(Body) /\ Len(todo') <= 2
      <3>1. CASE todo' = <<eager>>
        BY <2>2, <3>1, BodySequences
      <3>2. CASE w # NoWindow /\ todo' = <<eager, final>>
        BY <2>2, <3>2, BodySequences
      <3>3. CASE w # NoWindow /\ todo' = <<final>>
        BY <2>2, <3>3, BodySequences
      <3> QED
        BY <2>1, <3>1, <3>2, <3>3
    <2>4. stage = "idle"
      BY <1>1 DEF BridgeBegins
    <2> QED
      BY <1>1, <2>3, <2>4
         DEF BridgeBegins, fileVars, barVars, popupVars, processVars
  <1>2. CASE BridgeTruncates
    BY <1>2 DEF BridgeTruncates, Option, barVars, popupVars, processVars
  <1>3. CASE BridgeWrites
    <2>1. Head(todo) \in Body
      BY <1>3, HeadTailProperties DEF BridgeWrites
    <2> QED
      BY <1>3, <2>1 DEF BridgeWrites, Option, barVars, popupVars, processVars
  <1>4. CASE Push
    <2>1. Head(todo) \in Body /\ Tail(todo) \in Seq(Body) /\ Len(Tail(todo)) <= 2
      BY <1>4, HeadTailProperties, LenProperties DEF Push
    <2> QED
      BY <1>4, <2>1
         DEF Push, ApplySnapshot, Option, fileVars, barVars, popupVars, processVars
  <1>5. CASE FileChanged
    BY <1>5 DEF FileChanged, Load, LoadAsked, Option,
                bridgeVars, barVars, popupVars, processVars
  <1>6. CASE ReadFile
    BY <1>6 DEF ReadFile, Load, bridgeVars, barVars, popupVars, processVars
  <1>7. CASE LoadSkipped
    BY <1>7 DEF LoadSkipped, Load, NoLoad, Option,
                bridgeVars, barVars, popupVars, processVars
  <1>8. CASE Loaded
    <2>1. PICK b \in IF load.content = {} THEN {Cleared} ELSE load.content :
                ApplySnapshot(b)
      BY <1>8 DEF Loaded
    <2>2. b \in Body
      BY <2>1, BodyType DEF Load, Option
    <2> QED
      BY <1>8, <2>1, <2>2
         DEF Loaded, ApplySnapshot, Load, NoLoad, Option,
             bridgeVars, barVars, popupVars, processVars
  <1> QED
    BY <1>1, <1>2, <1>3, <1>4, <1>5, <1>6, <1>7, <1>8 DEF Bridge, FileView

\* A snapshot: the strip stays of the app in focus, and the popup of another
\* app is closed.
LEMMA ApplyPendingKeeps ==
    ASSUME IInv, ApplyPending
    PROVE  IInv'
  <1> USE DEF IInv, TypeOK
  <1>1. PICK b \in pending : /\ SetTopLevel(MenuOf(b))
                             /\ AppIdChanged(b.win)
                             /\ focusWinid' = b.win
    BY DEF ApplyPending
  <1>2. /\ b \in Body /\ b.win \in Focus
        /\ MenuOf(b) \in Option(Windows)
        /\ \A w \in MenuOf(b) : w = b.win
    BY BodyType DEF Option
  <1>3. topLevel' \in Option(Windows) /\ retry' \in Option(Lazies)
    BY <1>1, <1>2 DEF SetTopLevel, Option
  <1>4. TopLevelOfApp'
    <2>1. CASE SameTopLevel(topLevel, MenuOf(b))
      <3>1. topLevel' = topLevel
        BY <1>1, <2>1 DEF SetTopLevel
      <3>2. \A v \in topLevel : \E w \in MenuOf(b) : TRUE
        BY <2>1 DEF SameTopLevel
      <3>3. \A v \in topLevel : App(v) = App(b.win)
        BY <1>2, <2>1, <3>2, SameShapeSameApp
      <3> QED
        BY <1>1, <3>1, <3>3 DEF TopLevelOfApp
    <2>2. CASE ~SameTopLevel(topLevel, MenuOf(b))
      BY <1>1, <1>2, <2>2 DEF SetTopLevel, TopLevelOfApp
    <2> QED
      BY <2>1, <2>2
  <1>5. RetryOnStrip'
    BY <1>1 DEF SetTopLevel, RetryOnStrip
  <1>6. popup' \in Option(Popup) /\ captured' \in Focus /\ PopupOfFocusedApp'
    <2>1. CASE App(b.win) # App(focusWinid)
      BY <1>1, <2>1, CloseType DEF AppIdChanged, PopupTyped, PopupOfFocusedApp
    <2>2. CASE App(b.win) = App(focusWinid)
      <3>1. popup' = {Anchored(p) : p \in popup} /\ captured' = captured
        BY <1>1, <2>2 DEF AppIdChanged
      <3>2. \A p \in popup : /\ Anchored(p) \in Popup
                             /\ Anchored(p).of = p.of
                             /\ Anchored(p).realised = p.realised
        BY DEF Anchored, Popup, Option
      <3>3. popup' \in Option(Popup)
        BY <3>1, <3>2 DEF Option
      <3>4. PopupOfFocusedApp'
        BY <1>1, <2>2, <3>1, <3>2 DEF PopupOfFocusedApp
      <3> QED
        BY <3>1, <3>3, <3>4
    <2> QED
      BY <2>1, <2>2
  <1>7. pending' \in Option(Body)
    BY DEF ApplyPending, Option
  <1> QED
    BY <1>1, <1>2, <1>3, <1>4, <1>5, <1>6, <1>7
       DEF ApplyPending, bridgeVars, fileVars

\* What is left of the invariant when only the popup, its captured window,
\* the waiting button and the child processes have changed.
LEMMA InputKeeps ==
    ASSUME IInv, InputOnly,
           PopupTyped', PopupOfFocusedApp',
           retry' \in Option(Lazies), retry' # {} => topLevel # {},
           expanding' \in Option(Expand), clicking' \in Option(Click)
    PROVE  IInv'
  BY DEF IInv, TypeOK, InputOnly, bridgeVars, fileVars, barVars, PopupTyped,
         TopLevelOfApp, RetryOnStrip

\* Parts of the invariant, for the actions of the user and the processes.
LEMMA InputFacts ==
    ASSUME IInv
    PROVE  /\ PopupTyped /\ PopupOfFocusedApp
           /\ focusWinid \in Focus /\ topLevel \in Option(Windows)
           /\ topLevel \subseteq Windows
           /\ retry \in Option(Lazies) /\ (retry # {} => topLevel # {})
           /\ expanding \in Option(Expand) /\ clicking \in Option(Click)
  BY DEF IInv, TypeOK, PopupTyped, RetryOnStrip, Option

\* A popup that a close leaves is of every app.
LEMMA ClosedKeeps ==
    ASSUME IInv, Close
    PROVE  PopupTyped' /\ PopupOfFocusedApp' /\ popup' = {}
  BY InputFacts, CloseType DEF PopupOfFocusedApp

\* A click on the strip.
LEMMA ClickBarKeeps ==
    ASSUME IInv, NEW b \in Buttons, ClickBar(b)
    PROVE  IInv'
  <1>1. CASE ClickAnchor(b)
    BY <1>1, ClosedKeeps, InputFacts, InputKeeps DEF ClickAnchor, processVars
  <1>2. CASE ClickGroup(b)
    <2>1. PICK w \in topLevel : OpenAt(b, w, FALSE, b)
      BY <1>2 DEF ClickGroup
    <2>2. w \in Windows /\ App(w) = App(focusWinid)
      BY InputFacts DEF IInv, TopLevelOfApp
    <2>3. PopupTyped' /\ \A p \in popup' : p \in popup \/ (p.of = w /\ p.realised = FALSE)
      BY <2>1, <2>2, InputFacts, OpenType
    <2>4. InputOnly /\ UNCHANGED <<retry, expanding, clicking>>
      BY <1>2 DEF ClickGroup, processVars
    <2>5. PopupOfFocusedApp'
      BY <2>2, <2>3, <2>4, InputFacts DEF PopupOfFocusedApp, InputOnly, barVars
    <2> QED
      BY <2>3, <2>4, <2>5, InputFacts, InputKeeps
  <1>3. CASE ClickLazy(b)
    <2>1. InputOnly /\ UNCHANGED <<popup, captured>> /\ clicking' = clicking /\ b \in Lazies
      BY <1>3 DEF ClickLazy, popupVars, processVars
    <2>2. PopupTyped' /\ PopupOfFocusedApp'
      BY <2>1, InputFacts DEF PopupTyped, PopupOfFocusedApp, InputOnly, barVars
    <2>3. retry' \in Option(Lazies) /\ topLevel # {}
      BY <1>3, InputFacts DEF ClickLazy, ClickBar, processVars, Option
    <2>4. expanding' \in Option(Expand)
      BY <1>3, InputFacts DEF ClickLazy, StartExpand, processVars, Option, Expand
    <2> QED
      BY <2>1, <2>2, <2>3, <2>4, InputFacts, InputKeeps
  <1>4. CASE ClickLeaf(b)
    <2>1. PopupTyped' /\ PopupOfFocusedApp' /\ captured' \in Focus
      BY <1>4, ClosedKeeps DEF ClickLeaf, PopupTyped
    <2>2. clicking' \in Option(Click)
      BY <1>4, <2>1, InputFacts, StartClickType DEF ClickLeaf
    <2> QED
      BY <1>4, <2>1, <2>2, InputFacts, InputKeeps DEF ClickLeaf
  <1> QED
    BY <1>1, <1>2, <1>3, <1>4 DEF ClickBar

\* A click on the popup, or beside it.
LEMMA ClickPopupKeeps ==
    ASSUME IInv, RowClicked \/ OutsideClicked
    PROVE  IInv'
  <1>1. CASE RowClicked
    <2>1. PICK p \in popup : StartClick(p.of, captured)
      BY <1>1 DEF RowClicked
    <2>2. p.of \in Windows /\ captured \in Focus
      BY InputFacts DEF PopupTyped, Popup, Option
    <2>3. clicking' \in Option(Click)
      BY <2>1, <2>2, InputFacts, StartClickType
    <2> QED
      BY <1>1, <2>3, ClosedKeeps, InputFacts, InputKeeps DEF RowClicked
  <1>2. CASE OutsideClicked
    BY <1>2, ClosedKeeps, InputFacts, InputKeeps DEF OutsideClicked, processVars
  <1> QED
    BY <1>1, <1>2

\* A child process ends.
LEMMA ProcessKeeps ==
    ASSUME IInv, ExpandEnds \/ ClickEnds
    PROVE  IInv'
  <1>0. {} \in Option(Expand) /\ {} \in Option(Click) /\ {} \in Option(Lazies)
    BY DEF Option
  <1>1. CASE ExpandUnwanted
    <2>1. PopupTyped' /\ PopupOfFocusedApp'
      BY <1>1, InputFacts
         DEF ExpandUnwanted, popupVars, PopupTyped, PopupOfFocusedApp, InputOnly, barVars
    <2> QED
      BY <1>0, <1>1, <2>1, InputFacts, InputKeeps DEF ExpandUnwanted
  <1>2. CASE ExpandRealises
    <2>1. PICK b \in retry, x \in expanding : OpenAt(x.node, x.of, TRUE, b)
      BY <1>2 DEF ExpandRealises
    <2>2. b \in Buttons /\ x.node \in Buttons /\ x.of \in Windows
      BY InputFacts DEF Option, Expand, Buttons
    <2>3. PopupTyped' /\ \A p \in popup' : p \in popup \/ (p.of = x.of /\ p.realised = TRUE)
      BY <2>1, <2>2, InputFacts, OpenType
    <2>4. PopupOfFocusedApp'
      BY <1>2, <2>3, InputFacts DEF PopupOfFocusedApp, ExpandRealises, InputOnly, barVars
    <2> QED
      BY <1>0, <1>2, <2>3, <2>4, InputFacts, InputKeeps DEF ExpandRealises
  <1>3. CASE ExpandFails
    <2>1. PopupTyped' /\ PopupOfFocusedApp' /\ captured' \in Focus
      BY <1>3, ClosedKeeps DEF ExpandFails, PopupTyped
    <2>2. clicking' \in Option(Click)
      BY <1>3, <2>1, InputFacts, StartClickType DEF ExpandFails
    <2> QED
      BY <1>0, <1>3, <2>1, <2>2, InputFacts, InputKeeps DEF ExpandFails
  <1>4. CASE ClickEnds
    <2>1. PopupTyped' /\ PopupOfFocusedApp'
      BY <1>4, InputFacts
         DEF ClickEnds, popupVars, PopupTyped, PopupOfFocusedApp, InputOnly, barVars
    <2> QED
      BY <1>0, <1>4, <2>1, InputFacts, InputKeeps DEF ClickEnds
  <1> QED
    BY <1>1, <1>2, <1>3, <1>4 DEF ExpandEnds

\* The invariant is inductive.
LEMMA NextKeeps ==
    ASSUME IInv, [Next]_vars
    PROVE  IInv'
  <1>1. CASE UNCHANGED vars
    BY <1>1 DEF IInv, TypeOK, TopLevelOfApp, RetryOnStrip, PopupOfFocusedApp, vars,
                bridgeVars, fileVars, barVars, popupVars, processVars
  <1>2. CASE Next
    BY <1>2, BridgeKeeps, ApplyPendingKeeps, ClickBarKeeps, ClickPopupKeeps, ProcessKeeps
       DEF Next, User
  <1> QED
    BY <1>1, <1>2

\* The inductive invariant holds in every state.
LEMMA Inductive == Spec => []IInv
  BY InitInv, NextKeeps, PTL DEF Spec

\* The variables of the widget keep their types, with any windows, apps,
\* buttons and faults.
THEOREM TypeCorrect == Spec => []TypeOK
  <1>1. IInv => TypeOK
    BY DEF IInv
  <1> QED
    BY <1>1, Inductive, PTL

\* The walked rows of an open popup are of the app in focus, however
\* snapshots, clicks and answers of atspi-expand interleave.
THEOREM PopupIsOfFocusedApp == Spec => []PopupOfFocusedApp
  <1>1. IInv => PopupOfFocusedApp
    BY DEF IInv
  <1> QED
    BY <1>1, Inductive, PTL

----------------------------------------------------------------------------
(* The captured window                                                     *)

\* Where there is a strip there is a window to capture.
LEMMA StripHasWindow ==
    ASSUME IInv
    PROVE  topLevel # {} => focusWinid # NoWindow
  BY AppType, InputFacts DEF IInv, TopLevelOfApp, App

\* A close ends the capture.
LEMMA CloseEndsCapture ==
    ASSUME CapturedWhileOpen, Close
    PROVE  CapturedWhileOpen'
  BY DEF CapturedWhileOpen, Close

\* An open begins it, when no other screen refuses it.
LEMMA OpenBeginsCapture ==
    ASSUME IInv, "screens" \notin Faults, topLevel # {},
           NEW node, NEW of, NEW realised, NEW anchor,
           OpenAt(node, of, realised, anchor)
    PROVE  CapturedWhileOpen'
  BY StripHasWindow DEF OpenAt, CapturedWhileOpen

\* Every step keeps the capture and the popup together.
LEMMA CaptureKeeps ==
    ASSUME IInv, "screens" \notin Faults, CapturedWhileOpen, [Next]_vars
    PROVE  CapturedWhileOpen'
  <1>0. SUFFICES ASSUME ~UNCHANGED <<popup, captured>>
                 PROVE  CapturedWhileOpen'
    BY DEF CapturedWhileOpen
  <1>1. CASE Bridge \/ FileView
    BY <1>0, <1>1
       DEF Bridge, FileView, BridgeBegins, BridgeTruncates, BridgeWrites, Push,
           FileChanged, ReadFile, LoadSkipped, Loaded, popupVars
  <1>2. CASE ApplyPending
    <2>1. PICK b \in pending : AppIdChanged(b.win)
      BY <1>2 DEF ApplyPending
    <2>2. CASE App(b.win) # App(focusWinid)
      BY <2>1, <2>2, CloseEndsCapture DEF AppIdChanged
    <2>3. CASE App(b.win) = App(focusWinid)
      BY <2>1, <2>3 DEF AppIdChanged, CapturedWhileOpen
    <2> QED
      BY <2>2, <2>3
  <1>3. ASSUME NEW b \in Buttons, ClickBar(b)
        PROVE  CapturedWhileOpen'
    BY <1>0, <1>3, CloseEndsCapture, OpenBeginsCapture
       DEF ClickBar, ClickAnchor, ClickGroup, ClickLazy, ClickLeaf, popupVars
  <1>4. CASE RowClicked \/ OutsideClicked
    BY <1>4, CloseEndsCapture DEF RowClicked, OutsideClicked
  <1>5. CASE ExpandEnds \/ ClickEnds
    BY <1>0, <1>5, CloseEndsCapture, OpenBeginsCapture, InputFacts
       DEF ExpandEnds, ExpandUnwanted, ExpandRealises, ExpandFails, ClickEnds, popupVars
  <1>6. CASE UNCHANGED vars
    BY <1>0, <1>6 DEF vars, popupVars
  <1> QED
    BY <1>1, <1>2, <1>3, <1>4, <1>5, <1>6 DEF Next, User

\* While every popup opens on the screen of its button, a window is captured
\* exactly while the popup is open.
THEOREM CapturedExactlyWhileOpen ==
    ASSUME "screens" \notin Faults
    PROVE  Spec => []CapturedWhileOpen
  <1>1. Init => CapturedWhileOpen
    BY DEF Init, CapturedWhileOpen
  <1>2. IInv /\ CapturedWhileOpen /\ [Next]_vars => CapturedWhileOpen'
    BY CaptureKeeps
  <1> QED
    BY <1>1, <1>2, Inductive, PTL DEF Spec

----------------------------------------------------------------------------
(* The window a row's click goes to                                        *)

\* Closed, there is no popup to be captured for.
LEMMA ClosedIsCaptured ==
    ASSUME Close
    PROVE  CapturedOfPopup'
  BY DEF Close, CapturedOfPopup

\* An open captures the window that it remembers.
LEMMA OpenedIsCaptured ==
    ASSUME "screens" \notin Faults,
           NEW node, NEW of, NEW realised, NEW anchor,
           OpenAt(node, of, realised, anchor)
    PROVE  CapturedOfPopup'
  BY DEF OpenAt, CapturedOfPopup

\* A new strip takes the anchor of an open popup, and nothing else.
LEMMA StripKeepsOpened ==
    ASSUME TypeOK, CapturedOfPopup,
           popup' = {Anchored(p) : p \in popup}, captured' = captured
    PROVE  CapturedOfPopup'
  <1>1. \A p \in popup : p \in Popup
    BY DEF TypeOK, Option
  <1>2. \A p \in popup : Anchored(p).opened = p.opened
    BY <1>1 DEF Anchored, Popup
  <1> QED
    BY <1>2 DEF CapturedOfPopup

\* Every step keeps the captured window that of the popup.
LEMMA CapturedOfPopupKeeps ==
    ASSUME IInv, "screens" \notin Faults, CapturedOfPopup, [Next]_vars
    PROVE  CapturedOfPopup'
  <1>0. SUFFICES ASSUME ~UNCHANGED <<popup, captured>>
                 PROVE  CapturedOfPopup'
    BY DEF CapturedOfPopup
  <1>1. CASE Bridge \/ FileView
    BY <1>0, <1>1
       DEF Bridge, FileView, BridgeBegins, BridgeTruncates, BridgeWrites, Push,
           FileChanged, ReadFile, LoadSkipped, Loaded, popupVars
  <1>2. CASE ApplyPending
    <2>1. PICK b \in pending : AppIdChanged(b.win)
      BY <1>2 DEF ApplyPending
    <2> QED
      BY <2>1, ClosedIsCaptured, StripKeepsOpened DEF AppIdChanged, IInv
  <1>3. ASSUME NEW b \in Buttons, ClickBar(b)
        PROVE  CapturedOfPopup'
    BY <1>0, <1>3, ClosedIsCaptured, OpenedIsCaptured
       DEF ClickBar, ClickAnchor, ClickGroup, ClickLazy, ClickLeaf, popupVars
  <1>4. CASE RowClicked \/ OutsideClicked
    BY <1>4, ClosedIsCaptured DEF RowClicked, OutsideClicked
  <1>5. CASE ExpandEnds \/ ClickEnds
    BY <1>0, <1>5, ClosedIsCaptured, OpenedIsCaptured
       DEF ExpandEnds, ExpandUnwanted, ExpandRealises, ExpandFails, ClickEnds, popupVars
  <1>6. CASE UNCHANGED vars
    BY <1>0, <1>6 DEF vars, popupVars
  <1> QED
    BY <1>1, <1>2, <1>3, <1>4, <1>5, <1>6 DEF Next, User

\* A row's click starts its process with the popup's window and node.
LEMMA RowClickStarts ==
    ASSUME IInv, CapturedOfPopup, RowClicked, clicking = {},
           NEW p \in popup, NEW c \in clicking'
    PROVE  c.of = p.of /\ c.winid = p.opened
  <1>1. PICK q \in popup : StartClick(q.of, captured)
    BY DEF RowClicked
  <1>2. q = p
    BY DEF IInv, TypeOK, Option
  <1>3. c = [of |-> p.of, winid |-> captured]
    BY <1>1, <1>2 DEF StartClick
  <1> QED
    BY <1>3 DEF CapturedOfPopup

\* While every popup opens on the screen of its button, a click on a row goes
\* to the window that had focus when the popup was opened, wherever focus has
\* moved since (issue #109), and whatever snapshots rebuilt the strip.
THEOREM RowClicksKeepWindow ==
    ASSUME "screens" \notin Faults
    PROVE  Spec => RowClickKeepsWindow
  <1>1. Init => CapturedOfPopup
    BY DEF Init, CapturedOfPopup
  <1>2. IInv /\ CapturedOfPopup /\ [Next]_vars => CapturedOfPopup'
    BY CapturedOfPopupKeeps
  <1>3. IInv /\ CapturedOfPopup =>
          [RowClicked /\ clicking = {} =>
             \A p \in popup, c \in clicking' :
                c.of = p.of /\ c.winid = p.opened]_vars
    BY RowClickStarts
  <1> QED
    BY <1>1, <1>2, <1>3, Inductive, PTL DEF Spec, RowClickKeepsWindow

=============================================================================
