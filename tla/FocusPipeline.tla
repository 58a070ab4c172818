--------------------------- MODULE FocusPipeline ---------------------------
(***************************************************************************)
(* How a focus change in niri becomes an ActiveSnapshot of the bridge:     *)
(*                                                                         *)
(*   niri -- event stream --> bridge/src/niri.rs `run` -- watch -->        *)
(*        bridge/src/active.rs `run` -- watch --> the active loop          *)
(*                                                                         *)
(* niri.rs connects to niri's socket, subscribes, and drives the events    *)
(* through an EventStreamState of its own (`known`), fresh in each         *)
(* session; a session that ends is retried after an exponential backoff.   *)
(* active.rs waits out the debounce after a change and forwards the latest *)
(* value. niri itself and the crate niri-ipc are the environment.          *)
(*                                                                         *)
(* Left out: events that are not about windows and lines that do not parse *)
(* (both read and skipped), and the end of the process (ActiveLoop has     *)
(* it), which is the only way the channels close.                          *)
(***************************************************************************)
EXTENDS Integers, Sequences

CONSTANTS
    Windows,         \* niri's windows
    None,            \* no window
    Pidless,         \* windows niri reports no pid for (portal dialogs)
    Titles,          \* the titles a window may have
    BackoffFloor,    \* BACKOFF_FLOOR, 250 ms
    BackoffMax,      \* BACKOFF_MAX, 30 s
    ResetThreshold,  \* CONNECTED_RESET_THRESHOLD, 30 s
    Debounce,        \* cfg.focus_debounce_ms, 75 ms by default
    ElapsedMax,      \* bound: a session's age is counted up to here
    MaxInFlight,     \* bound: events niri has sent and the bridge not read
    Faults           \* what niri may do beyond the ordinary

ASSUME WindowAssumption == None \notin Windows /\ Pidless \subseteq Windows

ASSUME DelayAssumption ==
    /\ BackoffFloor \in Nat \ {0} /\ BackoffMax \in Nat
    /\ BackoffFloor <= BackoffMax
    /\ Debounce \in Nat /\ ResetThreshold \in Nat
    /\ ElapsedMax \in Nat /\ ResetThreshold <= ElapsedMax

\* drop: niri drops the bridge's connection; restart: niri stops and starts
\* again; reject: it rejects the subscription; reorder: it announces the focus
\* of a new window before the window.
ASSUME FaultAssumption == Faults \subseteq {"drop", "restart", "reject", "reorder"}

VARIABLES
    up,        \* niri accepts connections
    wins,      \* niri: the title of each open window
    focus,     \* niri: the focused window, or None
    stream,    \* events written to the bridge's connection and not yet read
    eof,       \* niri has closed the connection, after what is in stream
    task,      \* where niri.rs is
    known,     \* EventStreamState: the titles of the windows it knows
    backoff,   \* niri.rs: the delay before the next reconnect
    elapsed,   \* niri.rs: the time since this session was started
    timer,     \* niri.rs: what is left of the delay
    focusChan, \* the watch channel from niri.rs: latest value, changed
    active,    \* where active.rs is
    still,     \* active.rs: what is left of the debounce
    snapshot   \* the watch channel to the active loop: the last value sent

niriVars    == <<up, wins, focus>>
linkVars    == <<stream, eof>>
sessionVars == <<task, known, backoff, elapsed, timer>>
activeVars  == <<active, still, snapshot>>
vars == <<niriVars, linkVars, sessionVars, focusChan, activeVars>>

----------------------------------------------------------------------------
(* Focus values and events                                                 *)

\* An Option<FocusEvent>; the pid and the app-id belong to the window.
NoFocus == [win |-> None, title |-> None]
FocusOn(w, t) == [win |-> w, title |-> t]
FocusValue == {NoFocus} \cup [win : Windows, title : Titles]

\* What niri's user sees.
Focused == IF focus = None THEN NoFocus ELSE FocusOn(focus, wins[focus])

WindowsChanged(ws, w)            == [kind |-> "windows", titles |-> ws, win |-> w]
WindowOpenedOrChanged(w, t, is)  == [kind |-> "opened", win |-> w, title |-> t, is_focused |-> is]
WindowClosed(w)                  == [kind |-> "closed", win |-> w]
WindowFocusChanged(w)            == [kind |-> "focus", win |-> w]

\* EventStreamState::apply
Apply(k, e) ==
    CASE e.kind = "windows" -> e.titles
      [] e.kind = "opened"  ->
            [w \in DOMAIN k \cup {e.win} |-> IF w = e.win THEN e.title ELSE k[w]]
      [] e.kind = "closed"  -> [w \in DOMAIN k \ {e.win} |-> k[w]]
      [] e.kind = "focus"   -> k

\* emit_for: what is published, if anything. UnknownWindow and a window
\* without a pid publish nothing.
EmitFor(w, k) == IF w \in DOMAIN k \ Pidless THEN <<FocusOn(w, k[w])>> ELSE <<>>

\* Fault: a defocus is no change.
DetectFocusChange_KeepsFocus(e, k) ==
    CASE e.kind = "focus" -> EmitFor(e.win, k)
      [] e.kind = "windows" -> EmitFor(e.win, k)
      [] e.kind = "opened" -> IF e.is_focused THEN EmitFor(e.win, k) ELSE <<>>
      [] e.kind = "closed" -> <<>>

\* Fault: the burst at the start of a session does not seed the focus.
DetectFocusChange_NoSeed(e, k) ==
    CASE e.kind = "focus" -> IF e.win = None THEN <<NoFocus>> ELSE EmitFor(e.win, k)
      [] e.kind = "opened" -> IF e.is_focused THEN EmitFor(e.win, k) ELSE <<>>
      [] e.kind \in {"windows", "closed"} -> <<>>

\* detect_focus_change. The win of WindowsChanged is the focused one, if any.
DetectFocusChange(e, k) ==
    CASE e.kind = "focus" /\ e.win = None  -> <<NoFocus>>
      [] e.kind = "focus" /\ e.win # None  -> EmitFor(e.win, k)
      [] e.kind = "windows"                -> EmitFor(e.win, k)
      [] e.kind = "opened" /\ e.is_focused -> EmitFor(e.win, k)
      [] e.kind = "opened" /\ ~e.is_focused -> <<>>
      [] e.kind = "closed"                 -> <<>>

----------------------------------------------------------------------------
(* niri                                                                    *)

\* niri writes events to every subscribed connection.
Write(events) ==
    IF task = "driving" /\ ~eof
    THEN /\ stream' = stream \o events
         /\ Len(stream') <= MaxInFlight
         /\ UNCHANGED eof
    ELSE UNCHANGED linkVars

BridgeIdles == UNCHANGED <<sessionVars, focusChan, activeVars>>

OpenWindow(w, t, takesFocus) ==
    /\ up /\ w \notin DOMAIN wins
    /\ wins' = [x \in DOMAIN wins \cup {w} |-> IF x = w THEN t ELSE wins[x]]
    /\ focus' = IF takesFocus THEN w ELSE focus
    /\ \/ Write(<<WindowOpenedOrChanged(w, t, takesFocus)>>)
       \/ /\ "reorder" \in Faults /\ takesFocus
          /\ Write(<<WindowFocusChanged(w), WindowOpenedOrChanged(w, t, TRUE)>>)
    /\ UNCHANGED up /\ BridgeIdles

ChangeTitle(w, t) ==
    /\ up /\ w \in DOMAIN wins /\ wins[w] # t
    /\ wins' = [wins EXCEPT ![w] = t]
    /\ Write(<<WindowOpenedOrChanged(w, t, w = focus)>>)
    /\ UNCHANGED <<up, focus>> /\ BridgeIdles

\* w is None when focus leaves all windows.
MoveFocus(w) ==
    /\ up /\ w \in DOMAIN wins \cup {None} /\ w # focus
    /\ focus' = w
    /\ Write(<<WindowFocusChanged(w)>>)
    /\ UNCHANGED <<up, wins>> /\ BridgeIdles

CloseWindow(w) ==
    /\ up /\ w \in DOMAIN wins
    /\ wins' = [x \in DOMAIN wins \ {w} |-> wins[x]]
    /\ IF w = focus
       THEN focus' = None /\ Write(<<WindowClosed(w), WindowFocusChanged(None)>>)
       ELSE UNCHANGED focus /\ Write(<<WindowClosed(w)>>)
    /\ UNCHANGED up /\ BridgeIdles

\* Before the ack or after it; what has been written can still be read.
NiriDrops ==
    /\ "drop" \in Faults
    /\ task \in {"awaiting", "driving"} /\ ~eof
    /\ eof' = TRUE
    /\ UNCHANGED <<niriVars, stream>> /\ BridgeIdles

NiriStops ==
    /\ "restart" \in Faults
    /\ up /\ up' = FALSE
    /\ wins' = <<>> /\ focus' = None
    /\ eof' = (task \in {"awaiting", "driving"})
    /\ UNCHANGED stream /\ BridgeIdles

NiriStarts ==
    /\ ~up /\ up' = TRUE
    /\ UNCHANGED <<wins, focus, linkVars>> /\ BridgeIdles

----------------------------------------------------------------------------
(* niri.rs                                                                 *)

\* UnixStream::connect and the EventStream request.
Connect ==
    /\ task = "connecting" /\ up
    /\ task' = "awaiting"
    /\ UNCHANGED <<niriVars, linkVars, known, backoff, elapsed, timer, focusChan, activeVars>>

\* niri acknowledges the subscription and writes its state; drive_events
\* begins with an empty EventStreamState.
Acknowledge ==
    /\ task = "awaiting" /\ ~eof
    /\ task' = "driving"
    /\ known' = <<>>
    /\ stream' = <<WindowsChanged(wins, focus)>>
    /\ UNCHANGED <<niriVars, eof, backoff, elapsed, timer, focusChan, activeVars>>

\* Fault: the decision is taken before the event is applied.
ReadEvent_DecidesFirst ==
    /\ task = "driving" /\ stream # <<>>
    /\ stream' = Tail(stream)
    /\ known' = Apply(known, Head(stream))
    /\ LET evt == DetectFocusChange(Head(stream), known) IN
       IF evt = <<>>
       THEN UNCHANGED focusChan
       ELSE focusChan' = [val |-> evt[1], changed |-> TRUE]
    /\ UNCHANGED <<niriVars, eof, task, backoff, elapsed, timer, activeVars>>

\* One turn of drive_events_with: apply the event, then decide.
ReadEvent ==
    /\ task = "driving" /\ stream # <<>>
    /\ stream' = Tail(stream)
    /\ known' = Apply(known, Head(stream))
    /\ LET evt == DetectFocusChange(Head(stream), known') IN
       IF evt = <<>>
       THEN UNCHANGED focusChan
       ELSE focusChan' = [val |-> evt[1], changed |-> TRUE]
    /\ UNCHANGED <<niriVars, eof, task, backoff, elapsed, timer, activeVars>>

\* Why run_once returns an error.
SessionFailed ==
    \/ task = "connecting" /\ ~up
    \/ task = "awaiting" /\ (eof \/ "reject" \in Faults)
    \/ task = "driving" /\ eof /\ stream = <<>>

\* next_backoff
NextBackoff(current, session) ==
    IF session >= ResetThreshold THEN BackoffFloor ELSE current

\* The error branch of run, up to its sleep.
SessionEnds ==
    /\ SessionFailed
    /\ task' = "sleeping"
    /\ backoff' = NextBackoff(backoff, elapsed)
    /\ timer' = backoff'
    /\ stream' = <<>> /\ eof' = FALSE
    /\ UNCHANGED <<niriVars, known, elapsed, focusChan, activeVars>>

\* Fault: the growth of the delay is not capped.
Grown_Uncapped(delay) == 2 * delay

\* (backoff * 2).min(BACKOFF_MAX)
Grown(delay) == IF 2 * delay <= BackoffMax THEN 2 * delay ELSE BackoffMax

\* The sleep is over; the next session is started.
Retry ==
    /\ task = "sleeping" /\ timer = 0
    /\ task' = "connecting"
    /\ backoff' = Grown(backoff)
    /\ elapsed' = 0
    /\ UNCHANGED <<niriVars, linkVars, known, timer, focusChan, activeVars>>

----------------------------------------------------------------------------
(* active.rs                                                               *)

\* changed() marks the value it wakes for as seen; then the debounce.
WakeActive ==
    /\ active = "waiting" /\ focusChan.changed
    /\ active' = "debouncing"
    /\ still' = Debounce
    /\ focusChan' = [focusChan EXCEPT !.changed = FALSE]
    /\ UNCHANGED <<niriVars, linkVars, sessionVars, snapshot>>

\* Fault: the value that arrived last is marked as seen and not read, when
\* one arrived during the debounce.
PublishActive_Misses ==
    /\ active = "debouncing" /\ still = 0
    /\ active' = "waiting"
    /\ snapshot' = IF focusChan.changed THEN snapshot ELSE focusChan.val
    /\ focusChan' = [focusChan EXCEPT !.changed = FALSE]
    /\ UNCHANGED <<niriVars, linkVars, sessionVars, still>>

\* borrow_and_update after the sleep, then send.
PublishActive ==
    /\ active = "debouncing" /\ still = 0
    /\ active' = "waiting"
    /\ snapshot' = focusChan.val
    /\ focusChan' = [focusChan EXCEPT !.changed = FALSE]
    /\ UNCHANGED <<niriVars, linkVars, sessionVars, still>>

----------------------------------------------------------------------------
(* Time                                                                    *)

\* A tick of the clock. What is due and the hand-over between tasks take no
\* time; niri's answer and the reading of its events may take any.
Tick ==
    /\ task = "sleeping" => timer > 0
    /\ task # "connecting" /\ ~(eof /\ stream = <<>>)
    /\ active = "debouncing" => still > 0
    /\ active = "waiting" => ~focusChan.changed
    /\ timer' = IF task = "sleeping" THEN timer - 1 ELSE timer
    /\ still' = IF active = "debouncing" THEN still - 1 ELSE still
    /\ elapsed' = IF elapsed < ElapsedMax THEN elapsed + 1 ELSE elapsed
    /\ UNCHANGED <<niriVars, linkVars, task, known, backoff, focusChan, active, snapshot>>

----------------------------------------------------------------------------

Init ==
    /\ up \in BOOLEAN /\ wins = <<>> /\ focus = None
    /\ stream = <<>> /\ eof = FALSE
    /\ task = "connecting" /\ known = <<>>
    /\ backoff = BackoffFloor /\ elapsed = 0 /\ timer = 0
    /\ focusChan = [val |-> NoFocus, changed |-> FALSE]
    /\ active = "waiting" /\ still = 0
    /\ snapshot = NoFocus

Niri ==
    \/ \E w \in Windows, t \in Titles, takesFocus \in BOOLEAN : OpenWindow(w, t, takesFocus)
    \/ \E w \in Windows, t \in Titles : ChangeTitle(w, t)
    \/ \E w \in Windows \cup {None} : MoveFocus(w)
    \/ \E w \in Windows : CloseWindow(w)
    \/ NiriDrops \/ NiriStops \/ NiriStarts

Session == Connect \/ Acknowledge \/ ReadEvent \/ SessionEnds \/ Retry

Step == Niri \/ Session \/ WakeActive \/ PublishActive

Next == Step \/ Tick

Spec == Init /\ [][Next]_vars

(***************************************************************************)
(* Fairness. The runtime polls ready tasks and fires timers. niri is       *)
(* assumed to answer a subscription it has not rejected, and to be up      *)
(* again some time; nothing is assumed of windows and focus.               *)
(***************************************************************************)
Fairness ==
    /\ WF_vars(NiriStarts) /\ WF_vars(Acknowledge)
    /\ WF_vars(Connect) /\ WF_vars(ReadEvent) /\ WF_vars(SessionEnds) /\ WF_vars(Retry)
    /\ WF_vars(WakeActive) /\ WF_vars(PublishActive) /\ WF_vars(Tick)

----------------------------------------------------------------------------
(* Properties                                                              *)

\* What may be known of the windows: the titles of some.
TitleMap == UNION {[S -> Titles] : S \in SUBSET Windows}

Event ==
    [kind : {"windows"}, titles : TitleMap, win : Windows \cup {None}]
        \cup [kind : {"opened"}, win : Windows, title : Titles, is_focused : BOOLEAN]
        \cup [kind : {"closed"}, win : Windows]
        \cup [kind : {"focus"}, win : Windows \cup {None}]

\* Types of the variables, and the range of the delays: never below the floor,
\* never above the ceiling.
TypeOK ==
    /\ up \in BOOLEAN
    /\ DOMAIN wins \subseteq Windows /\ wins \in [DOMAIN wins -> Titles]
    /\ focus \in DOMAIN wins \cup {None}
    /\ stream \in Seq(Event) /\ eof \in BOOLEAN
    /\ task \in {"connecting", "awaiting", "driving", "sleeping"}
    /\ DOMAIN known \subseteq Windows /\ known \in [DOMAIN known -> Titles]
    /\ backoff \in BackoffFloor..BackoffMax
    /\ elapsed \in 0..ElapsedMax
    /\ timer \in 0..BackoffMax
    /\ focusChan \in [val : FocusValue, changed : BOOLEAN]
    /\ active \in {"waiting", "debouncing"}
    /\ still \in 0..Debounce
    /\ snapshot \in FocusValue

\* Nothing is on its way from niri to the active loop.
Settled ==
    /\ task = "driving" /\ ~eof /\ stream = <<>>
    /\ active = "waiting" /\ ~focusChan.changed

\* Once a focus change has come through, the snapshot is the focused window
\* with its present title: whatever the reconnects, bursts, reordered and
\* superseded events on the way. (For windows with a pid.)
SettledOnFocusedWindow ==
    Settled /\ focus \notin Pidless \cup {None} => snapshot = Focused

\* What keeps a focus change from coming through.
Disruption == NiriDrops \/ NiriStops \/ (SessionEnds /\ task = "awaiting")

\* A focus change comes through: if niri is not disrupted any more and a
\* window keeps focus, its snapshot is published and stays published, however
\* long the sequence of failed sessions before it.
FocusComesThrough ==
    \A w \in Windows \ Pidless, t \in Titles :
        <>[](focus = w /\ wins[w] = t) /\ <>[][~Disruption]_vars
            => <>[](snapshot = FocusOn(w, t))

----------------------------------------------------------------------------
(* The abstract feed                                                       *)

\* One more event read.
ReadOn(before, e) ==
    LET after == Apply(before.known, e)
    IN  [known  |-> after,
         values |-> before.values \o DetectFocusChange(e, after)]

\* What niri.rs knows and has published once it has read the first n of the
\* events s, beginning with k.
Reading(k, s) ==
    LET Read[n \in Nat] ==
          IF n = 0 THEN [known |-> k, values |-> <<>>] ELSE ReadOn(Read[n - 1], s[n])
    IN  Read

\* The events not yet read, all of them.
AllRead == Reading(known, stream)[Len(stream)]

\* The focus values on their way: the one active.rs is about to publish, then
\* those that the events not yet read will yield.
Underway ==
    (IF focusChan.changed \/ active = "debouncing" THEN <<focusChan.val>> ELSE <<>>)
        \o AllRead.values

Feed == INSTANCE FocusFeed WITH
    Values <- FocusValue, Initial <- NoFocus,
    truth <- Focused, underway <- Underway, shown <- snapshot

\* What the pipeline promises at all times (FocusFeed): it shows focus values
\* that niri really had, in the order niri had them.
ImplementsFeed == Feed!Spec

----------------------------------------------------------------------------
(* Why it holds: what every step keeps.                                    *)

\* What niri writes reaches the bridge.
Linked == task = "driving" /\ ~eof

\* Events and the end of the connection belong to a session.
LinkInSession ==
    /\ task # "driving" => stream = <<>>
    /\ eof => task \in {"awaiting", "driving"}

\* Once all is read, the session knows niri's windows ...
ReadsWindows == Linked => AllRead.known = wins

\* ... and the last focus value is that of the focused window.
Latest ==
    IF AllRead.values = <<>> THEN focusChan.val
    ELSE AllRead.values[Len(AllRead.values)]

ReadsFocus == Linked /\ focus \notin Pidless \cup {None} => Latest = Focused

\* active.rs at rest has forwarded what it was sent last.
Forwarded == active = "waiting" /\ ~focusChan.changed => snapshot = focusChan.val

IInv == TypeOK /\ LinkInSession /\ ReadsWindows /\ ReadsFocus /\ Forwarded

=============================================================================
