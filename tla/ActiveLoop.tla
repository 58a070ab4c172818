----------------------------- MODULE ActiveLoop -----------------------------
(***************************************************************************)
(* The active loop of the bridge, bridge/src/proxy.rs `run`: it waits for  *)
(* a new ActiveSnapshot or a RefreshActive kick, publishes the snapshot    *)
(* eagerly with no menu, resolves the focused window's menu (learned skip, *)
(* menu cache or a cross-process AT-SPI walk) and publishes again.         *)
(*                                                                         *)
(* Two more actors share its state. watch_a11y_status drops the cached     *)
(* AT-SPI connection and the expensive verdicts when it sees the a11y bus  *)
(* restart. The environment is the rest of the desktop: the joiner         *)
(* (active.rs) sends snapshots, a click process calls RefreshActive,       *)
(* applications build and rebuild their menus, the bus dies and returns,   *)
(* the disk fills up, the bridge is killed and started again by systemd.   *)
(*                                                                         *)
(* The loop is atomic between two awaits, so its actions are the stretches *)
(* between them: wake-up to eager publish, publish_props, resolution up to *)
(* the walk, the walk itself, and what follows the walk.                   *)
(***************************************************************************)
EXTENDS LearnedSkip, MenuCache

CONSTANTS
    Windows,         \* the niri windows that may take focus
    NoWindow,        \* ActiveSnapshot::empty(), focus_pid = 0
    Apps,            \* the app-ids
    Pids,            \* the process ids
    AppOf,           \* the app-id of each window
    PidOf,           \* the process of each window
    Anonymous,       \* the app-ids desktop::fallback_menu builds nothing for
    Readable,        \* menus with items below their top level
    Lazy,            \* menus whose every top-level menu is childless
    DesktopFallback, \* cfg.desktop_fallback
    BusStatus,       \* what IsEnabled may be when the a11y bus comes up
    Faults           \* the classes of failure the environment produces

ASSUME WindowAssumption ==
    /\ NoWindow \notin Windows
    /\ AppOf \in [Windows -> Apps]
    /\ PidOf \in [Windows -> Pids]
    /\ Anonymous \subseteq Apps
    /\ Readable \cap Lazy = {}

\* disk: a write of active.json fails; props: a signal emission fails; crash:
\* the bridge is killed; bus: the a11y bus restarts; frame: the focused window
\* is not told from the other windows of its process or app; error: single
\* D-Bus calls of a walk fail. (That an application does not answer is always
\* possible.)
ASSUME FaultAssumption ==
    /\ Faults \subseteq {"disk", "props", "crash", "bus", "frame", "error"}
    /\ BusStatus \subseteq {"enabled", "disabled"}
    /\ DesktopFallback \in BOOLEAN

VARIABLES
    pc,           \* where the loop is; "down" while the bridge is not running
    snap,         \* the snapshot of this iteration
    walk,         \* the AT-SPI walk in progress, or done and not yet used
    chan,         \* the watch channel from active.rs: latest value, changed
    kick,         \* the permit of the refresh_kick Notify
    skip,         \* learned_skip::SKIP
    resolvedOnce, \* learned_skip::RESOLVED_ONCE
    cache,        \* menu_cache::CACHE
    conn,         \* AtspiClient: the cached connection
    bus,          \* the a11y bus and its IsEnabled status
    exposed,      \* what a walk of each window finds just now
    props,        \* the properties of the D-Bus object, {} before the first
    file,         \* what active.json parses to, {} when it does not
    lastBody,     \* last_body
    pushed        \* the last body the widget was sent

loopVars  == <<pc, snap, walk>>
wakeVars  == <<chan, kick>>
cacheVars == <<skip, resolvedOnce, cache>>
busVars   == <<conn, bus, exposed>>
outVars   == <<props, file, lastBody, pushed>>
vars == <<loopVars, wakeVars, cacheVars, busVars, outVars>>

----------------------------------------------------------------------------
(* Data                                                                    *)

Snapshot == Windows \cup {NoWindow}

Contents == Readable \cup Lazy

\* What is there to be walked when a window's app exposes no menubar: it is
\* not on the a11y bus, or it is and has none.
Nothing == "nothing"

\* A walked menubar, with the window whose focus the walk was made for. (Its
\* content may be a sibling's, see WalkFinds.)
Menu == [for : Windows, content : Contents]

\* desktop::fallback_menu, a function of the app-id alone.
Fallback == [app : Apps]

Option(S) == {{}} \cup {{x} : x \in S}

\* MenuSource; its variant Synthetic has no producer.
MenuSource == {"atspi", "desktop-fallback", "empty"}

\* The payload of active.json.
Body == [snap : Snapshot, source : MenuSource, menu : Option(Menu \cup Fallback)]

\* Fault: the key of menu_cache before v1.0.25, without the window.
KeyOf_Process(w) == <<AppOf[w], PidOf[w], NoWindow>>

\* menu_cache::Key
KeyOf(w) == <<AppOf[w], PidOf[w], w>>

Keys == {KeyOf(w) : w \in Windows}

\* A walk that is not in progress; a result of Ok(None) that cost nothing.
NoWalk ==
    [link |-> "none", reads |-> {}, ticked |-> FALSE, ok |-> TRUE, menu |-> {}, cost |-> 0]

Walk ==
    [link : {"none", "live", "cut", "stale", "refused"},
     reads : SUBSET (Contents \cup {Nothing}),  \* what it may have come upon
     ticked : BOOLEAN,  \* a tick passed while it was in progress
     ok : BOOLEAN,      \* the Result: FALSE is an Err, which teaches nothing
     menu : Option(Menu),
     cost : WalkCost]

\* Fault: a reveal-locked menubar is published as it was walked.
IsLazyUnreadable_Never(m) == FALSE

\* is_lazy_unreadable
IsLazyUnreadable(m) == m.content \in Lazy

EmptyBody(s) == [snap |-> s, source |-> "empty", menu |-> {}]

\* desktop::fallback_menu
FallbackMenu(s) == IF AppOf[s] \in Anonymous THEN {} ELSE {[app |-> AppOf[s]]}

FallbackBody(s) ==
    IF DesktopFallback /\ FallbackMenu(s) # {}
    THEN [snap |-> s, source |-> "desktop-fallback", menu |-> FallbackMenu(s)]
    ELSE EmptyBody(s)

Skipped(s) == s # NoWindow /\ ShouldSkip(skip, resolvedOnce, AppOf[s])

\* What the loop publishes before it knows the menu.
EagerBody(s) == IF Skipped(s) THEN FallbackBody(s) ELSE EmptyBody(s)

\* The provenance ladder. menu is what the resolution returned.
FinalBody(s, menu) ==
    LET usable == {m \in menu : ~IsLazyUnreadable(m)} IN
    CASE s = NoWindow                   -> EmptyBody(s)
      [] s # NoWindow /\ usable # {}    -> [snap |-> s, source |-> "atspi", menu |-> usable]
      [] s # NoWindow /\ usable = {}    -> FallbackBody(s)

----------------------------------------------------------------------------
(* Publishing                                                              *)

\* Fault: the sentinel is set before the write is known to have succeeded.
Written_Early(body, last) ==
    \/ file' = {body} /\ lastBody' = {body}
    \/ "disk" \in Faults /\ file' \in {file, {}} /\ lastBody' = {body}

\* fs::write of active.json. It truncates first, so a failure leaves the old
\* file or one that no longer parses. last_body is set on success alone.
Written(body, last) ==
    \/ file' = {body} /\ lastBody' = {body}
    \/ "disk" \in Faults /\ file' \in {file, {}} /\ lastBody' = last

\* push_ipc_update, made whether or not the write succeeded. (Whether the call
\* arrives is Widget's question.)
PushIpcUpdate(body) == pushed' = {body}

\* write_active_json, with producer-side dedup against last.
WriteActiveJson(body, last) ==
    IF last = {body}
    THEN lastBody' = last /\ UNCHANGED <<file, pushed>>
    ELSE Written(body, last) /\ PushIpcUpdate(body)

\* The end of an iteration: the trailing write, then back to select.
Publish(menu) ==
    /\ WriteActiveJson(FinalBody(snap, menu), lastBody)
    /\ pc' = "waiting"

----------------------------------------------------------------------------
(* The active loop                                                         *)

\* main and the preamble of run. main turns a11y on, best effort; the statics
\* and the channels of the new process are empty.
Start ==
    /\ pc = "down"
    /\ bus' \in IF bus = "disabled" THEN {"disabled", "enabled"} ELSE {bus}
    /\ WriteActiveJson(EmptyBody(NoWindow), {})
    /\ pc' = "waiting"
    /\ UNCHANGED <<snap, walk, wakeVars, cacheVars, conn, exposed, props>>

\* From either branch of select the loop takes the latest snapshot and marks
\* it seen (borrow_and_update), then publishes it eagerly.
Begin(last) ==
    /\ pc = "waiting"
    /\ snap' = chan.val
    /\ chan' = [chan EXCEPT !.changed = FALSE]
    /\ WriteActiveJson(EagerBody(chan.val), last)
    /\ pc' = "publishing"
    /\ UNCHANGED <<walk, cacheVars, busVars, props>>

WakeOnChange == chan.changed /\ Begin(lastBody) /\ UNCHANGED kick

\* Fault: the kick repeats the last snapshot, but marks the channel seen.
WakeOnKick_Replays ==
    /\ kick /\ kick' = FALSE
    /\ pc = "waiting"
    /\ snap' = snap
    /\ chan' = [chan EXCEPT !.changed = FALSE]
    /\ WriteActiveJson(EagerBody(snap), {})
    /\ pc' = "publishing"
    /\ UNCHANGED <<walk, cacheVars, busVars, props>>

\* The kick branch clears last_body, so that the next write is not dropped.
WakeOnKick == kick /\ kick' = FALSE /\ Begin({})

\* publish_props
PublishProps ==
    /\ pc = "publishing"
    /\ props' = {snap}
    /\ pc' = "resolving"
    /\ UNCHANGED <<snap, walk, wakeVars, cacheVars, busVars, file, lastBody, pushed>>

\* Resolution without a walk: no focus, a learned skip, or a cache hit.
ResolveEmpty ==
    /\ pc = "resolving"
    /\ snap = NoWindow \/ Skipped(snap)
    /\ Publish({})
    /\ UNCHANGED <<snap, walk, wakeVars, cacheVars, busVars, props>>

ResolveCached ==
    /\ pc = "resolving"
    /\ snap # NoWindow /\ ~Skipped(snap)
    /\ IsHit(cache, KeyOf(snap))
    /\ Publish(cache[KeyOf(snap)].menu)
    /\ UNCHANGED <<snap, walk, wakeVars, cacheVars, busVars, props>>

\* The windows whose menubar a walk for window s may come upon. Which accessible
\* of an application is the focused window is A11yWalk's subject; a window
\* that is not told from its siblings is the fault "frame" here.
Scope(s) ==
    {s} \cup {w \in Windows :
                 "frame" \in Faults /\ (PidOf[w] = PidOf[s] \/ AppOf[w] = AppOf[s])}

\* fetch_menubar_for_pid up to AtspiClient::connection: the cached connection
\* if there is one, dead or alive, else a new one. A connection that cannot
\* be opened is not cached.
StartWalk ==
    /\ pc = "resolving"
    /\ snap # NoWindow /\ ~Skipped(snap)
    /\ ~IsHit(cache, KeyOf(snap))
    /\ conn' = IF conn = "none" /\ bus # "gone" THEN "live" ELSE conn
    /\ walk' = [NoWalk EXCEPT !.link = IF conn' = "none" THEN "refused" ELSE conn',
                               !.reads = IF conn' = "live"
                                         THEN {exposed[w] : w \in Scope(snap)} ELSE {}]
    /\ pc' = "walking"
    /\ UNCHANGED <<snap, wakeVars, cacheVars, bus, exposed, outVars>>

\* The walk is over, with result ok, menu and cost.
WalkEnds(ok, menu, cost) ==
    /\ pc = "walking"
    /\ walk' = [walk EXCEPT !.reads = {}, !.ok = ok, !.menu = menu, !.cost = cost]
    /\ pc' = "walked"
    /\ UNCHANGED <<snap, wakeVars, cacheVars, busVars, outVars>>

\* Not all that the walk read is one unchanged tree, read without a failure.
Torn ==
    \/ walk.link = "cut" \/ "error" \in Faults
    \/ \E c, d \in walk.reads : c # d

\* The walk finds a menubar. A read that fails leaves its part of the tree
\* out, which may be all that made the menu readable.
WalkFinds ==
    \E c \in walk.reads \ {Nothing} :
        \E content \in {c} \cup (IF Torn THEN Lazy ELSE {}) :
            WalkEnds(TRUE, {[for |-> snap, content |-> content]}, 0)

\* The walk finds no menubar, in any time within the budget: there is none,
\* or (choose_frame = NoMenu) the focused window is not identified, or it is
\* behind reads that fail, for the loops over applications, frames and
\* children skip what they cannot read.
WalkFindsNothing ==
    /\ walk.link \in {"live", "cut"}
    /\ Nothing \in walk.reads \/ Torn \/ Scope(snap) # {snap}
    /\ \E cost \in WalkCost : WalkEnds(TRUE, {}, cost)

\* One of the few calls fails whose error is not swallowed: opening the
\* connection, counting the registry's children, building a proxy.
WalkFails ==
    /\ walk.link \in {"cut", "stale", "refused"} \/ "error" \in Faults
    /\ WalkEnds(FALSE, {}, 0)

\* Fault: no budget, a hung application holds the loop.
WalkTimesOut_Never == pc = "hung" /\ UNCHANGED vars

\* The FETCH_BUDGET runs out, reported as Ok(None).
WalkTimesOut == WalkEnds(TRUE, {}, FetchBudget)

\* Only an Ok result is cached and teaches the learned-skip set.
Teaches(w) == w.ok

\* What follows the walk in the same iteration.
WalkReturns ==
    /\ pc = "walked"
    /\ LET app == AppOf[snap] IN
       IF ~Teaches(walk)
       THEN UNCHANGED cacheVars
       ELSE /\ cache' = Put(cache, KeyOf(snap), walk.menu)
            /\ IF walk.menu # {}
               THEN /\ skip' = Forget(skip, app)
                    /\ resolvedOnce' = resolvedOnce \cup {app}
               ELSE /\ skip' = RecordNegative(skip, app, walk.cost)
                    /\ UNCHANGED resolvedOnce
    /\ Publish(walk.menu)
    /\ walk' = NoWalk
    /\ UNCHANGED <<snap, wakeVars, busVars, props>>

\* The end of the process, whatever the cause: its memory is gone, and with
\* it the D-Bus object; active.json and the widget keep what they have.
Die ==
    /\ pc' = "down"
    /\ snap' = NoWindow /\ walk' = NoWalk
    /\ chan' = [val |-> NoWindow, changed |-> FALSE] /\ kick' = FALSE
    /\ skip' = <<>> /\ resolvedOnce' = {} /\ cache' = <<>>
    /\ conn' = "none" /\ props' = {} /\ lastBody' = {}
    /\ UNCHANGED <<bus, exposed, file, pushed>>

\* publish_props returns an error, run returns it and main bails out.
PublishPropsFails == pc = "publishing" /\ "props" \in Faults /\ Die

Crash == pc # "down" /\ "crash" \in Faults /\ Die

----------------------------------------------------------------------------
(* watch_a11y_status                                                       *)

\* A poll that finds IsEnabled false, or cannot read it. A poll that finds it
\* true does nothing. Turning it on again is best effort.
WatcherPoll ==
    /\ pc # "down"
    /\ bus # "enabled"
    /\ conn' = "none"
    /\ skip' = ClearExpensive(skip)
    /\ bus' \in IF bus = "disabled" THEN {"enabled", "disabled"} ELSE {bus}
    /\ UNCHANGED <<loopVars, wakeVars, resolvedOnce, cache, exposed, outVars>>

----------------------------------------------------------------------------
(* The environment                                                         *)

\* active.rs sends a snapshot; watch::Sender::send marks even an equal one.
SendSnapshot(s) ==
    /\ pc # "down"
    /\ chan' = [val |-> s, changed |-> TRUE]
    /\ UNCHANGED <<loopVars, kick, cacheVars, busVars, outVars>>

\* ActiveProxy::refresh_active; notify_one leaves one permit at most.
RefreshActive ==
    /\ pc # "down"
    /\ kick' = TRUE
    /\ UNCHANGED <<loopVars, chan, cacheVars, busVars, outVars>>

\* The app of window w builds, rebuilds or drops its menubar, under the walk
\* perhaps, which may then read either.
AppChanges(w) ==
    /\ bus # "gone"
    /\ \E c \in (Contents \cup {Nothing}) \ {exposed[w]} :
          /\ exposed' = [exposed EXCEPT ![w] = c]
          /\ walk' = IF pc = "walking" /\ walk.link = "live" /\ w \in Scope(snap)
                     THEN [walk EXCEPT !.reads = @ \cup {c}] ELSE walk
    /\ UNCHANGED <<pc, snap, wakeVars, cacheVars, conn, bus, outVars>>

\* The bus dies with every connection to it, and comes back empty.
BusDies ==
    /\ "bus" \in Faults
    /\ bus # "gone"
    /\ bus' = "gone"
    /\ conn' = IF conn = "live" THEN "stale" ELSE conn
    /\ walk' = [walk EXCEPT !.link = IF @ = "live" THEN "cut" ELSE @]
    /\ exposed' = [w \in Windows |-> Nothing]
    /\ UNCHANGED <<pc, snap, wakeVars, cacheVars, outVars>>

BusReturns ==
    /\ bus = "gone"
    /\ bus' \in BusStatus
    /\ UNCHANGED <<loopVars, wakeVars, cacheVars, conn, exposed, outVars>>

\* Time passes. A tick is longer than FETCH_BUDGET, so that a walk sees one
\* at most; what a walk returns is used in the poll that returned it.
Tick ==
    /\ pc # "walked"
    /\ pc = "walking" => ~walk.ticked
    /\ skip' = AgeVerdicts(skip)
    /\ cache' = AgeEntries(cache)
    /\ walk' = [walk EXCEPT !.ticked = pc = "walking"]
    /\ UNCHANGED <<pc, snap, wakeVars, resolvedOnce, busVars, outVars>>

----------------------------------------------------------------------------

Init ==
    /\ pc = "down" /\ snap = NoWindow /\ walk = NoWalk
    /\ chan = [val |-> NoWindow, changed |-> FALSE] /\ kick = FALSE
    /\ skip = <<>> /\ resolvedOnce = {} /\ cache = <<>>
    /\ conn = "none" /\ bus \in BusStatus
    /\ exposed \in [Windows -> Contents \cup {Nothing}]
    /\ props = {} /\ file = {} /\ lastBody = {} /\ pushed = {}

Wake == WakeOnChange \/ WakeOnKick

Resolve == ResolveEmpty \/ ResolveCached \/ StartWalk

WalkOutcome == WalkFinds \/ WalkFindsNothing \/ WalkFails

Loop ==
    \/ Start \/ Wake \/ PublishProps \/ PublishPropsFails \/ Resolve
    \/ WalkOutcome \/ WalkTimesOut \/ WalkReturns

Environment ==
    \/ \E s \in Snapshot : SendSnapshot(s)
    \/ RefreshActive
    \/ \E w \in Windows : AppChanges(w)
    \/ BusDies \/ BusReturns \/ Crash

Next == Loop \/ WatcherPoll \/ Environment \/ Tick

Spec == Init /\ [][Next]_vars

(***************************************************************************)
(* Fairness. systemd starts the bridge again (Restart= of the user unit),  *)
(* the runtime polls a task that is ready, a timer fires, and clocks run.  *)
(* Nothing is assumed of applications, of the bus or of the user: a walk   *)
(* need not be answered (WalkOutcome has no fairness), it can only run out *)
(* of its budget.                                                          *)
(***************************************************************************)
Fairness ==
    /\ WF_vars(Start)
    /\ WF_vars(Wake)
    /\ WF_vars(PublishProps)
    /\ WF_vars(Resolve)
    /\ WF_vars(WalkTimesOut)
    /\ WF_vars(WalkReturns)
    /\ WF_vars(WatcherPoll)
    /\ WF_vars(Tick)

FairSpec == Spec /\ Fairness

----------------------------------------------------------------------------
(* Properties                                                              *)

\* Types of the variables.
TypeOK ==
    /\ pc \in {"down", "waiting", "publishing", "resolving", "walking", "walked"}
    /\ snap \in Snapshot
    /\ walk \in Walk
    /\ chan \in [val : Snapshot, changed : BOOLEAN]
    /\ kick \in BOOLEAN
    /\ IsSkipMap(skip, Apps)
    /\ resolvedOnce \subseteq Apps
    /\ IsCacheMap(cache, Keys, Menu)
    /\ conn \in {"none", "live", "stale"}
    /\ bus \in {"enabled", "disabled", "gone"}
    /\ exposed \in [Windows -> Contents \cup {Nothing}]
    /\ props \in Option(Snapshot)
    /\ file \in Option(Body) /\ lastBody \in Option(Body) /\ pushed \in Option(Body)

Published == file \cup lastBody \cup pushed

\* A menu that active.json or the widget attributes to a window is one that a
\* walk for that window returned, never what a walk for a sibling of the same
\* process did, whatever the cache, the walk in flight and the focus changes
\* in between (ADR-0030). Whose tree that walk read is A11yWalk's question.
OfItsWindow(b) == b.source = "atspi" => \A m \in b.menu : m.for = b.snap

MenuOfItsWindow == \A b \in Published : OfItsWindow(b)

\* Provenance is honest (ADR-0031, ADR-0035): "empty" is exactly a null menu,
\* "atspi" a walked menu with something below its top level, and
\* "desktop-fallback" the menu of the focused app's own identity, only when
\* the fallback is configured.
Honest(b) ==
    /\ b.source = "empty" <=> b.menu = {}
    /\ b.source = "atspi" =>
          b.snap # NoWindow /\ \E m \in b.menu : m.content \in Readable
    /\ b.source = "desktop-fallback" =>
          DesktopFallback /\ b.snap # NoWindow /\ b.menu = {[app |-> AppOf[b.snap]]}

ProvenanceHonest == \A b \in Published : Honest(b)

\* A loop with nothing left to do has published the latest focus, in the file
\* and on the D-Bus object alike: no focus change is lost between the two
\* branches of select, the mark-as-seen and the dedup. (While writes succeed.)
SettledIsCurrent ==
    pc = "waiting" /\ ~chan.changed =>
        /\ \E b \in lastBody : b.snap = chan.val
        /\ \A s \in props : s = chan.val

\* last_body becomes only what has just been written in full: a failed write
\* is never taken for a published one.
SentinelFollowsFile ==
    [][lastBody' \notin {lastBody, {}} => file' = lastBody']_vars

\* The bar never hangs on an application: once a window has focus, and keeps
\* it, the loop comes back to waiting with that window published, however slow
\* the walk (FETCH_BUDGET), however many kicks and repeated snapshots.
FocusSettles ==
    \A s \in Snapshot :
        chan.val = s /\ pc # "down" ~>
            \/ chan.val # s
            \/ pc = "down"
            \/ pc = "waiting" /\ \E b \in file : b.snap = s

\* The walk returned what its window exposes, if anything.
FoundWhatIsThere ==
    /\ walk'.ok
    /\ walk'.menu = IF exposed[snap] = Nothing THEN {}
                    ELSE {[for |-> snap, content |-> exposed[snap]]}

\* What keeps a window's menu from being found.
Disturbance ==
    \/ BusDies \/ Crash \/ PublishPropsFails \/ WalkTimesOut
    \/ walk.link = "live" /\ WalkOutcome /\ ~FoundWhatIsThere

\* Window w has focus and a readable menu on a working bus.
Healthy(w) == chan.val = w /\ exposed[w] \in Readable /\ bus # "gone" /\ pc # "down"

\* No verdict, cache entry or dead connection strands an application (issue
\* #174, ADR-0033): when from some time on a window exposes a readable menu,
\* walks are not disturbed any more, and the window is focused again and
\* again, its own menu is published again and again.
SelfHeals ==
    \A w \in Windows :
        /\ <>[]Healthy(w)
        /\ <>[][~Disturbance]_vars
        /\ []<><<SendSnapshot(w)>>_vars
        => []<>(\E b \in file : b.source = "atspi" /\ b.snap = w)

----------------------------------------------------------------------------
(* The inductive invariant behind TypeOK, MenuOfItsWindow and              *)
(* ProvenanceHonest                                                        *)

\* A walk belongs to the iteration it was started in: there is one only for a
\* window, its menu is that window's, and it is used up before the next.
WalkInIteration ==
    /\ pc \in {"walking", "walked"} => snap # NoWindow
    /\ pc # "walked" => walk.menu = {}
    /\ \A m \in walk.menu : m.for = snap

\* A cached menu is the menu of the window in its key.
CacheOfItsWindow ==
    \A w \in Windows :
        KeyOf(w) \in DOMAIN cache => \A m \in cache[KeyOf(w)].menu : m.for = w

TrustedBody == {b \in Body : Honest(b) /\ OfItsWindow(b)}

IInv ==
    /\ TypeOK
    /\ WalkInIteration
    /\ CacheOfItsWindow
    /\ Published \subseteq TrustedBody

\* The inductive invariant behind SettledIsCurrent, while writes succeed.
CurrentInv ==
    /\ pc # "down" => \E b \in lastBody : b.snap = snap
    /\ pc = "down" => props = {} /\ snap = NoWindow
    /\ ~chan.changed => chan.val = snap
    /\ pc # "publishing" => \A s \in props : s = snap

=============================================================================
