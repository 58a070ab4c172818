------------------------ MODULE ClickForward_proofs ------------------------
(***************************************************************************)
(* Proofs about ClickForward, for all values of its constants: the types   *)
(* of its variables, that an action takes effect in the window it was      *)
(* captured for, and that what an expand opened is going to be closed.     *)
(***************************************************************************)
EXTENDS ClickForward, MenuCache_proofs

----------------------------------------------------------------------------
(* The processes                                                           *)

\* What a process of kind k may be.
ProcessOf(k) == IF k = "click" THEN ClickProcess ELSE ExpandProcess

ProcOK(f) == DOMAIN f = Kinds /\ \A k \in Kinds : IsOption(f[k], ProcessOf(k))

\* An option has no element, or one of the set.
LEMMA Options ==
    ASSUME NEW S
    PROVE  /\ IsOption({}, S)
           /\ \A x \in S : IsOption({x}, S)
           /\ \A o : IsOption(o, S) => \A x \in o : x \in S /\ o = {x}
           /\ \A o : IsOption(o, S) <=> o \in {{}} \cup {{x} : x \in S}
  BY DEF IsOption

\* The set of one element is an option of it.
LEMMA SomeOption ==
    ASSUME NEW S, NEW x \in S, NEW o, o = {x}
    PROVE  IsOption(o, S)
  BY DEF IsOption

\* The part of the type invariant that is about processes.
LEMMA ProcTypes ==
    TypeOK <=> /\ focus \in Windows /\ active \in Windows
               /\ lag \in 0..(SyncTicks - 1)
               /\ tree \in Trees /\ realised \subseteq Menus /\ IsOption(open, Menus) /\ flash \in Flashes
               /\ IsCacheMap(fetched, Windows, Walk)
               /\ IsOption(shown, Walk) /\ kick \in BOOLEAN
               /\ ProcOK(proc)
  BY DEF TypeOK, ProcOK, ProcessOf, Kinds

\* One process is replaced.
LEMMA SetType ==
    ASSUME NEW f, ProcOK(f), NEW k \in Kinds, NEW q \in ProcessOf(k)
    PROVE  ProcOK([f EXCEPT ![k] = {q}])
  BY Options DEF ProcOK

\* One process ends.
LEMMA EndType ==
    ASSUME NEW f, ProcOK(f), NEW k \in Kinds
    PROVE  ProcOK([f EXCEPT ![k] = {}])
  BY Options DEF ProcOK

\* The fields of a process.
LEMMA Fields ==
    ASSUME NEW k \in Kinds, NEW p \in ProcessOf(k)
    PROVE  /\ p.item \in Rows \cup Menus /\ p.tree \in Trees /\ p.winid \in Windows \cup {NoWindow}
           /\ p.left \in 0..(SettleTicks + RealizeTicks)
           /\ p.kids \in BOOLEAN /\ p.steady \in BOOLEAN
           /\ k = "click" => p.stage \in ClickStages
           /\ k = "expand" => p.stage \in ExpandStages /\ p.item \in Menus
           /\ p = [stage |-> p.stage, item |-> p.item, tree |-> p.tree, winid |-> p.winid,
                   left |-> p.left, kids |-> p.kids, steady |-> p.steady]
  BY DEF ProcessOf, ClickProcess, ExpandProcess, Process, Kinds

\* A process with other fields is a process.
LEMMA ChangedFields ==
    ASSUME NEW k \in Kinds, NEW p \in ProcessOf(k),
           NEW stage \in (IF k = "click" THEN ClickStages ELSE ExpandStages),
           NEW winid \in Windows \cup {NoWindow}, NEW left \in 0..(SettleTicks + RealizeTicks),
           NEW kids \in BOOLEAN, NEW steady \in BOOLEAN
    PROVE  [stage |-> stage, item |-> p.item, tree |-> p.tree, winid |-> winid,
            left |-> left, kids |-> kids, steady |-> steady] \in ProcessOf(k)
  BY DEF ProcessOf, ClickProcess, ExpandProcess, Process, Kinds

\* A map over what runs, of either kind.
LEMMA MapType ==
    ASSUME NEW f, ProcOK(f), NEW g, DOMAIN g = Kinds,
           \A k \in Kinds : \/ g[k] = {} /\ f[k] = {}
                            \/ \E p \in f[k], q \in ProcessOf(k) : g[k] = {q}
    PROVE  ProcOK(g)
  BY Options DEF ProcOK

\* Nothing runs, or one process does.
LEMMA Running ==
    ASSUME NEW S, NEW o, IsOption(o, S)
    PROVE  o = {} \/ \E p \in S : o = {p}
  BY DEF IsOption

\* The history changes no type.
LEMMA HistoryTypes ==
    ASSUME NEW f, ProcOK(f)
    PROVE  ProcOK(Unsteady(f))
  <1>1. ASSUME NEW k \in Kinds
        PROVE  IsOption(Unsteady(f)[k], ProcessOf(k))
    <2>1. CASE f[k] = {}
      <3>1. Unsteady(f)[k] = {}
        BY <2>1 DEF Unsteady
      <3> QED
        BY <3>1, Options
    <2>2. ASSUME NEW p \in ProcessOf(k), f[k] = {p}
          PROVE  IsOption(Unsteady(f)[k], ProcessOf(k))
      <3> DEFINE unsteady == [p EXCEPT !.steady = FALSE]
      <3>1. Unsteady(f)[k] = {unsteady}
        BY <2>2 DEF Unsteady
      <3>2. unsteady \in ProcessOf(k)
        BY DEF ProcessOf, ClickProcess, ExpandProcess, Process
      <3> HIDE DEF unsteady
      <3> QED
        BY <3>1, <3>2, SomeOption
    <2>3. f[k] = {} \/ \E p \in ProcessOf(k) : f[k] = {p}
      BY Running DEF ProcOK
    <2> QED
      BY <2>1, <2>2, <2>3
  <1>2. DOMAIN Unsteady(f) = Kinds
    BY DEF Unsteady
  <1> QED
    BY <1>1, <1>2 DEF ProcOK

\* A process that runs.
LEMMA Member ==
    ASSUME TypeOK, NEW k \in Kinds, NEW p \in proc[k]
    PROVE  p \in ProcessOf(k) /\ proc[k] = {p}
  <1>1. IsOption(proc[k], ProcessOf(k))
    BY ProcTypes DEF ProcOK
  <1> QED
    BY <1>1 DEF IsOption

\* What the process k becomes, when it goes on.
LEMMA SetStep ==
    ASSUME TypeOK, NEW k \in Kinds, NEW q \in ProcessOf(k), Set(k, q)
    PROVE  ProcOK(proc') /\ proc'[k] = {q} /\ \A j \in Kinds : j # k => proc'[j] = proc[j]
  <1>1. ProcOK(proc)
    BY ProcTypes
  <1>2. proc' = [proc EXCEPT ![k] = {q}]
    BY DEF Set
  <1>3. ProcOK(proc')
    BY <1>1, <1>2, SetType
  <1> QED
    BY <1>1, <1>2, <1>3 DEF ProcOK

\* What it becomes, when it ends.
LEMMA EndStep ==
    ASSUME TypeOK, NEW k \in Kinds, Ends(k)
    PROVE  ProcOK(proc') /\ proc'[k] = {} /\ \A j \in Kinds : j # k => proc'[j] = proc[j]
  <1>1. ProcOK(proc)
    BY ProcTypes
  <1>2. proc' = [proc EXCEPT ![k] = {}]
    BY DEF Ends
  <1>3. ProcOK(proc')
    BY <1>1, <1>2, EndType
  <1> QED
    BY <1>1, <1>2, <1>3 DEF ProcOK

\* The types after a step, from those of the processes.
LEMMA TypeFrom ==
    ASSUME focus' \in Windows, active' \in Windows, lag' \in 0..(SyncTicks - 1),
           tree' \in Trees, realised' \subseteq Menus, IsOption(open', Menus), flash' \in Flashes,
           IsCacheMap(fetched', Windows, Walk), IsOption(shown', Walk), kick' \in BOOLEAN,
           ProcOK(proc')
    PROVE  TypeOK'
  BY DEF TypeOK, ProcOK, ProcessOf, Kinds

\* A process that starts.
LEMMA StartedType ==
    ASSUME TypeOK, NEW item \in Rows \cup Menus, NEW winid \in Windows \cup {NoWindow}, NEW t \in Trees
    PROVE  LET p == [stage |-> "focus", item |-> item, winid |-> winid, tree |-> t,
                     left |-> 0, kids |-> FALSE, steady |-> FALSE]
           IN  p \in ClickProcess /\ (item \in Menus => p \in ExpandProcess)
  BY ForwardAssumption DEF ClickProcess, ExpandProcess, Process, ClickStages, ExpandStages

\* The processes of the widget's row clicks and menu clicks.
LEMMA StartedIs ==
    ASSUME TypeOK, NEW item \in Rows \cup Menus, NEW winid \in Windows \cup {NoWindow}, shown # {}
    PROVE  /\ Started(item, winid) \in ClickProcess
           /\ item \in Menus => Started(item, winid) \in ExpandProcess
           /\ ~Started(item, winid).steady
  <1> DEFINE t == IF item = "synthetic" THEN 0 ELSE (CHOOSE w \in shown : TRUE).tree
  <1>1. t \in Trees
    <2>1. PICK w \in Walk : shown = {w}
      BY Running DEF TypeOK
    <2>2. (CHOOSE x \in shown : TRUE) = w /\ w.tree \in Trees /\ 0 \in Trees
      BY <2>1, ForwardAssumption DEF Walk, Trees
    <2> QED
      BY <2>2
  <1>2. Started(item, winid) =
          [stage |-> "focus", item |-> item, winid |-> winid, tree |-> t,
           left |-> 0, kids |-> FALSE, steady |-> FALSE]
    BY DEF Started
  <1> HIDE DEF t
  <1> QED
    BY <1>1, <1>2, StartedType

\* The menu that the widget clicks when its expand saw nothing.
LEMMA AnsweredIs ==
    ASSUME TypeOK, NEW p \in ExpandProcess
    PROVE  LET q == [Started(p.item, NoWindow) EXCEPT !.tree = p.tree]
           IN  /\ q \in ClickProcess /\ ~q.steady
               /\ q.stage = "focus" /\ q.item = p.item /\ q.tree = p.tree
  <1> DEFINE t == IF p.item = "synthetic" THEN 0 ELSE (CHOOSE w \in shown : TRUE).tree
             st == Started(p.item, NoWindow)
             q == [st EXCEPT !.tree = p.tree]
  <1>1. st = [stage |-> "focus", item |-> p.item, winid |-> NoWindow, tree |-> t,
              left |-> 0, kids |-> FALSE, steady |-> FALSE]
    BY DEF Started
  <1> HIDE DEF t, st
  <1>2. p.item \in Menus /\ p.tree \in Trees
    BY DEF ExpandProcess, Process
  <1>3. DOMAIN st = {"stage", "item", "winid", "tree", "left", "kids", "steady"}
    BY <1>1
  <1>4. /\ q.stage = "focus" /\ q.item = p.item /\ q.winid = NoWindow /\ q.left = 0
        /\ q.kids = FALSE /\ q.steady = FALSE
    BY <1>1
  <1>5. q.tree = p.tree
    BY <1>3
  <1>6. q = [stage |-> q.stage, item |-> q.item, winid |-> q.winid, tree |-> q.tree,
             left |-> q.left, kids |-> q.kids, steady |-> q.steady]
    BY <1>3
  <1> HIDE DEF q
  <1>7. q = [stage |-> "focus", item |-> p.item, winid |-> NoWindow, tree |-> p.tree,
             left |-> 0, kids |-> FALSE, steady |-> FALSE]
    BY <1>4, <1>5, <1>6
  <1>8. q \in ClickProcess
    BY <1>2, <1>7, StartedType
  <1> QED
    BY <1>4, <1>5, <1>8 DEF q, st

----------------------------------------------------------------------------
(* niri, the application, time and the bridge                              *)

\* What these steps do to the processes: nothing, or to the history.
LEMMA HistoryStep ==
    ASSUME TypeOK, proc' \in {proc, Unsteady(proc)}
    PROVE  ProcOK(proc')
  BY HistoryTypes, ProcTypes

\* A move of the focus begins the lag anew.
LEMMA FocusType ==
    ASSUME TypeOK, NEW w \in Windows, FocusOn(w)
    PROVE  focus' \in Windows /\ lag' \in 0..(SyncTicks - 1) /\ kick' \in BOOLEAN
  <1>1. 0 \in 0..(SyncTicks - 1)
    BY ForwardAssumption
  <1> QED
    BY <1>1 DEF FocusOn, TypeOK

\* niri and the application keep the types.
LEMMA TypeApp ==
    ASSUME TypeOK,
           \/ \E w \in Windows : UserFocuses(w)
           \/ AppFollows \/ AppRebuilds \/ AppRealises \/ UserCloses
    PROVE  TypeOK'
  <1> USE DEF appVars, bridgeVars
  <1>1. /\ focus \in Windows /\ active \in Windows /\ lag \in 0..(SyncTicks - 1)
        /\ tree \in Trees /\ realised \subseteq Menus /\ IsOption(open, Menus) /\ flash \in Flashes
        /\ IsCacheMap(fetched, Windows, Walk) /\ IsOption(shown, Walk) /\ kick \in BOOLEAN
    BY DEF TypeOK
  <1>2. 0 \in 0..(SyncTicks - 1) /\ IsOption({}, Menus)
    BY ForwardAssumption DEF IsOption
  <1>3. ASSUME NEW w \in Windows, UserFocuses(w)
        PROVE  TypeOK'
    <2>1. ProcOK(proc') /\ UNCHANGED <<active, tree, realised, open, flash, fetched, shown>>
      BY <1>3, HistoryStep DEF UserFocuses
    <2>2. focus' \in Windows /\ lag' \in 0..(SyncTicks - 1) /\ kick' \in BOOLEAN
      BY <1>3, FocusType DEF UserFocuses
    <2> QED
      BY <1>1, <2>1, <2>2, TypeFrom
  <1>4. CASE AppFollows
    <2>1. ProcOK(proc') /\ active' = focus /\ lag' = 0
          /\ UNCHANGED <<focus, tree, realised, open, flash, fetched, shown, kick>>
      BY <1>4, HistoryStep DEF AppFollows
    <2> QED
      BY <1>1, <1>2, <2>1, TypeFrom
  <1>5. CASE AppRebuilds
    <2>1. ProcOK(proc') /\ realised' = {} /\ open' = {} /\ flash' \in Flashes
          /\ UNCHANGED <<focus, active, lag, fetched, shown, kick>>
      BY <1>5, HistoryStep DEF AppRebuilds, Flashes
    <2>2. tree' \in Trees
      BY <1>5, ForwardAssumption DEF AppRebuilds, TypeOK, Trees
    <2> QED
      BY <1>1, <1>2, <2>1, <2>2, TypeFrom
  <1>6. CASE AppRealises
    <2>1. ProcOK(proc') /\ realised' = realised \cup open
          /\ UNCHANGED <<focus, active, lag, tree, open, flash, fetched, shown, kick>>
      BY <1>6, HistoryStep DEF AppRealises
    <2>2. realised' \subseteq Menus
      BY <1>1, <2>1 DEF IsOption
    <2> QED
      BY <1>1, <2>1, <2>2, TypeFrom
  <1>7. CASE UserCloses
    <2>1. ProcOK(proc') /\ open' = {} /\ flash' \in Flashes
          /\ UNCHANGED <<focus, active, lag, tree, realised, fetched, shown, kick>>
      BY <1>7, HistoryStep DEF UserCloses, Flashes
    <2> QED
      BY <1>1, <1>2, <2>1, TypeFrom
  <1> QED
    BY <1>3, <1>4, <1>5, <1>6, <1>7

\* The processes after a tick.
LEMMA TickProc ==
    ASSUME TypeOK, Tick
    PROVE  /\ ProcOK(proc')
           /\ \A k \in Kinds : proc'[k] = {[p EXCEPT !.left = IF @ > 0 THEN @ - 1 ELSE 0] : p \in proc[k]}
  <1>1. \A k \in Kinds : proc'[k] = {[p EXCEPT !.left = IF @ > 0 THEN @ - 1 ELSE 0] : p \in proc[k]}
    BY DEF Tick
  <1>2. DOMAIN proc' = Kinds
    BY DEF Tick
  <1>3. ASSUME NEW k \in Kinds
        PROVE  IsOption(proc'[k], ProcessOf(k))
    <2>1. CASE proc[k] = {}
      <3>1. proc'[k] = {}
        BY <1>1, <2>1
      <3> QED
        BY <3>1 DEF IsOption
    <2>2. ASSUME NEW p \in ProcessOf(k), proc[k] = {p}
          PROVE  IsOption(proc'[k], ProcessOf(k))
      <3> DEFINE l == IF p.left > 0 THEN p.left - 1 ELSE 0
                 q == [p EXCEPT !.left = l]
      <3>1. proc'[k] = {q}
        BY <1>1, <2>2
      <3>2. l \in 0..(SettleTicks + RealizeTicks)
        BY Fields, ForwardAssumption
      <3> HIDE DEF l
      <3>3. q \in ProcessOf(k)
        BY <3>2 DEF ProcessOf, ClickProcess, ExpandProcess, Process
      <3> HIDE DEF q
      <3> QED
        BY <3>1, <3>3, SomeOption
    <2>3. IsOption(proc[k], ProcessOf(k))
      BY ProcTypes DEF ProcOK
    <2> QED
      BY <2>1, <2>2, <2>3, Running
  <1> QED
    BY <1>1, <1>2, <1>3 DEF ProcOK

\* Entries that are dropped leave a cache.
LEMMA FreshType ==
    ASSUME NEW c, IsCacheMap(c, Windows, Walk)
    PROVE  IsCacheMap(Fresh(c), Windows, Walk)
  BY DEF Fresh, IsCacheMap

\* Time keeps the types.
LEMMA TypeTick ==
    ASSUME TypeOK, Tick
    PROVE  TypeOK'
  <1>1. ProcOK(proc')
    BY TickProc
  <1>2. IsCacheMap(fetched', Windows, Walk)
    BY AgeEntriesType, FreshType DEF Tick, TypeOK
  <1>3. realised' \subseteq Menus
    BY DEF Tick, TypeOK, IsOption
  <1>4. lag' \in 0..(SyncTicks - 1) /\ active' \in Windows
    BY ForwardAssumption DEF Tick, TypeOK
  <1>5. UNCHANGED <<focus, tree, open, flash, shown, kick>>
    BY DEF Tick
  <1> QED
    BY <1>1, <1>2, <1>3, <1>4, <1>5, TypeFrom DEF TypeOK

\* A walk that is published is one of the application or of the cache.
LEMMA TypePublish ==
    ASSUME TypeOK, Publish
    PROVE  TypeOK'
  <1>1. UNCHANGED <<focus, active, lag, tree, realised, open, flash, proc>> /\ kick' = FALSE
    BY DEF Publish, appVars
  <1>2. Walked \in Walk
    BY DEF TypeOK, Walked, Walk
  <1>3. Payload \in {{}} \cup {{m} : m \in Walk}
    <2>1. CASE IsHit(fetched, focus)
      <3>1. fetched[focus].menu \in {{}} \cup {{m} : m \in Walk}
        BY <2>1 DEF TypeOK, IsHit, IsCacheMap, Entry
      <3> QED
        BY <2>1, <3>1 DEF Payload
    <2>2. CASE ~IsHit(fetched, focus)
      BY <1>2, <2>2 DEF Payload
    <2> QED
      BY <2>1, <2>2
  <1>4. IsOption(shown', Walk)
    <2>1. IsOption(Payload, Walk)
      BY <1>3 DEF IsOption
    <2> QED
      BY <2>1, ProcTypes DEF Publish
  <1>5. IsCacheMap(fetched', Windows, Walk)
    <2>1. focus \in Windows /\ IsCacheMap(fetched, Windows, Walk)
      BY DEF TypeOK
    <2>2. IsCacheMap(Put(fetched, focus, Payload), Windows, Walk)
      BY <1>3, <2>1, PutType
    <2> QED
      BY <2>1, <2>2 DEF Publish
  <1> QED
    BY <1>1, <1>4, <1>5, ProcTypes, TypeFrom

----------------------------------------------------------------------------
(* The processes keep the types                                            *)

\* A process at another stage.
LEMMA StageType ==
    ASSUME NEW k \in Kinds, NEW p \in ProcessOf(k),
           NEW s \in (IF k = "click" THEN ClickStages ELSE ExpandStages)
    PROVE  [p EXCEPT !.stage = s] \in ProcessOf(k)
  <1>1. CASE k = "click"
    BY <1>1 DEF ProcessOf, ClickProcess, Process
  <1>2. CASE k # "click"
    BY <1>2 DEF ProcessOf, ExpandProcess, Process
  <1> QED
    BY <1>1, <1>2

\* A process that is aimed at its window, or at none.
LEMMA AimedIs ==
    ASSUME NEW k \in Kinds, NEW p \in ProcessOf(k), NEW ok \in BOOLEAN
    PROVE  /\ Aimed(p, ok) \in ProcessOf(k)
           /\ [Aimed(p, ok) EXCEPT !.stage = "probe"] \in ProcessOf(k)
           /\ PreFocused(p) \in ProcessOf(k)
  <1> DEFINE winid == IF p.item \in Rows THEN p.winid ELSE NoWindow
  <1>1. winid \in Windows \cup {NoWindow}
    BY Fields
  <1>2. \A o : Aimed(p, o) = [p EXCEPT !.steady = (o /\ p.item \in Rows), !.winid = winid]
    BY DEF Aimed
  <1> HIDE DEF winid
  <1>3. \A o \in BOOLEAN : Aimed(p, o) \in ProcessOf(k)
    <2> TAKE o \in BOOLEAN
    <2> DEFINE b == (o /\ p.item \in Rows)
    <2>1. b \in BOOLEAN /\ Aimed(p, o) = [p EXCEPT !.steady = b, !.winid = winid]
      BY <1>2
    <2> HIDE DEF b
    <2>2. CASE k = "click"
      BY <1>1, <2>1, <2>2 DEF ProcessOf, ClickProcess, Process
    <2>3. CASE k # "click"
      BY <1>1, <2>1, <2>3 DEF ProcessOf, ExpandProcess, Process
    <2> QED
      BY <2>2, <2>3
  <1>4. ASSUME NEW q \in ProcessOf(k)
        PROVE  /\ [q EXCEPT !.stage = "probe"] \in ProcessOf(k)
               /\ [q EXCEPT !.stage = "settle", !.left = SettleTicks] \in ProcessOf(k)
    <2>1. SettleTicks \in 0..(SettleTicks + RealizeTicks)
      BY ForwardAssumption
    <2> QED
      BY <2>1 DEF ProcessOf, ClickProcess, ExpandProcess, Process, ClickStages, ExpandStages
  <1> QED
    BY <1>3, <1>4 DEF PreFocused

\* Both kinds of process.
LEMMA TypeProcess ==
    ASSUME TypeOK, NEW k \in Kinds, ProcessStep(k)
    PROVE  TypeOK'
  <1> USE DEF appVars, bridgeVars
  <1>1. /\ focus \in Windows /\ active \in Windows /\ lag \in 0..(SyncTicks - 1)
        /\ tree \in Trees /\ realised \subseteq Menus /\ IsOption(open, Menus) /\ flash \in Flashes
        /\ IsCacheMap(fetched, Windows, Walk) /\ IsOption(shown, Walk) /\ kick \in BOOLEAN
        /\ ProcOK(proc)
    BY ProcTypes
  <1>2. SignalRefreshActive => kick' \in BOOLEAN
    BY <1>1 DEF SignalRefreshActive
  <1>3. ASSUME NEW p \in proc[k], p.stage = "focus", p.winid = NoWindow \/ "niri" \in Faults,
               Set(k, [Aimed(p, FALSE) EXCEPT !.stage = "probe"]),
               UNCHANGED <<focus, lag, kick, active, tree, realised, open, flash, fetched, shown>>
        PROVE  TypeOK'
    <2> DEFINE q == [Aimed(p, FALSE) EXCEPT !.stage = "probe"]
    <2>1. q \in ProcessOf(k) /\ Set(k, q)
      BY <1>3, Member, AimedIs
    <2> HIDE DEF q
    <2>2. ProcOK(proc')
      BY <2>1, SetStep
    <2> QED
      BY <1>1, <1>3, <2>2, TypeFrom
  <1>4. ASSUME NEW p \in proc[k], p.winid # NoWindow, FocusOn(p.winid),
               proc' = [(IF p.winid = focus THEN proc ELSE Unsteady(proc)) EXCEPT ![k] = {PreFocused(p)}],
               UNCHANGED <<active, tree, realised, open, flash, fetched, shown>>
        PROVE  TypeOK'
    <2>1. p \in ProcessOf(k) /\ PreFocused(p) \in ProcessOf(k)
      BY Member, AimedIs
    <2>2. p.winid \in Windows
      BY <1>4, <2>1, Fields
    <2>3. focus' \in Windows /\ lag' \in 0..(SyncTicks - 1) /\ kick' \in BOOLEAN
      BY <1>4, <2>2, FocusType
    <2>4. ProcOK(IF p.winid = focus THEN proc ELSE Unsteady(proc))
      BY <1>1, HistoryTypes
    <2>5. ProcOK(proc')
      BY <1>4, <2>1, <2>4, SetType
    <2> QED
      BY <1>1, <1>4, <2>3, <2>5, TypeFrom
  <1>5. CASE Settled(k)
    <2>1. PICK p \in proc[k] : Set(k, [p EXCEPT !.stage = "probe"])
      BY <1>5 DEF Settled
    <2> DEFINE q == [p EXCEPT !.stage = "probe"]
    <2>2. q \in ProcessOf(k) /\ Set(k, q)
      BY <2>1, Member, StageType DEF ClickStages, ExpandStages
    <2> HIDE DEF q
    <2>3. ProcOK(proc') /\ UNCHANGED <<focus, active, lag, tree, realised, open, flash, fetched, shown, kick>>
      BY <1>5, <2>2, SetStep DEF Settled
    <2> QED
      BY <1>1, <2>3, TypeFrom
  <1>6. CASE Probe(k)
    <2>1. PICK p \in proc[k] : \E s \in {"act", "stale"} : Set(k, [p EXCEPT !.stage = s])
      BY <1>6 DEF Probe
    <2>2. PICK s \in {"act", "stale"} : Set(k, [p EXCEPT !.stage = s])
      BY <2>1
    <2> DEFINE q == [p EXCEPT !.stage = s]
    <2>3. q \in ProcessOf(k) /\ Set(k, q)
      BY <2>2, Member, StageType DEF ClickStages, ExpandStages
    <2> HIDE DEF q
    <2>4. ProcOK(proc') /\ UNCHANGED <<focus, active, lag, tree, realised, open, flash, fetched, shown, kick>>
      BY <1>6, <2>3, SetStep DEF Probe
    <2> QED
      BY <1>1, <2>4, TypeFrom
  <1>7. CASE StaleExit(k)
    <2>1. PICK p \in proc[k] : IF k = "click" THEN Ends(k) ELSE Set(k, [p EXCEPT !.stage = "answer"])
      BY <1>7 DEF StaleExit
    <2> DEFINE q == [p EXCEPT !.stage = "answer"]
    <2>2. k # "click" => q \in ProcessOf(k)
      BY Member DEF ProcessOf, ExpandProcess, Process, ClickStages, ExpandStages
    <2> HIDE DEF q
    <2>3. ProcOK(proc')
      <3>1. CASE k = "click"
        BY <2>1, <3>1, EndStep
      <3>2. CASE k # "click"
        <4>1. Set(k, q) /\ q \in ProcessOf(k)
          BY <2>1, <2>2, <3>2 DEF q
        <4> QED
          BY <4>1, SetStep
      <3> QED
        BY <3>1, <3>2
    <2>4. kick' \in BOOLEAN /\ UNCHANGED <<focus, active, lag, tree, realised, open, flash, fetched, shown>>
      BY <1>2, <1>7 DEF StaleExit
    <2> QED
      BY <1>1, <2>3, <2>4, TypeFrom
  <1>8. CASE PreFocus(k)
    BY <1>3, <1>4, <1>8 DEF PreFocus
  <1> QED
    BY <1>5, <1>6, <1>7, <1>8 DEF ProcessStep

\* An action of a menu opens or closes it.
LEMMA ToggleType ==
    ASSUME NEW m \in Menus, Toggle(m)
    PROVE  IsOption(open', Menus)
  BY DEF Toggle, IsOption

\* atspi-click and atspi-expand: what each does alone.
LEMMA TypeActs ==
    ASSUME TypeOK, ClickActs \/ Expands \/ FetchesItems \/ Collapses \/ Refreshes \/ Answered
    PROVE  TypeOK'
  <1> USE DEF appVars, bridgeVars
  <1>1. /\ focus \in Windows /\ active \in Windows /\ lag \in 0..(SyncTicks - 1)
        /\ tree \in Trees /\ realised \subseteq Menus /\ IsOption(open, Menus) /\ flash \in Flashes
        /\ IsCacheMap(fetched, Windows, Walk) /\ IsOption(shown, Walk) /\ kick \in BOOLEAN
        /\ ProcOK(proc)
    BY ProcTypes
  <1>2. "click" \in Kinds /\ "expand" \in Kinds
    BY DEF Kinds
  <1>3. ASSUME NEW p \in proc["expand"]
        PROVE  /\ p \in ProcessOf("expand") /\ p.item \in Menus /\ p.kids \in BOOLEAN
               /\ \A s \in ExpandStages : [p EXCEPT !.stage = s] \in ProcessOf("expand")
    BY <1>2, Member, Fields, StageType
  <1>4. ASSUME UNCHANGED <<focus, active, lag, tree, realised, fetched, shown, kick>>,
               IsOption(open', Menus), flash' \in Flashes, ProcOK(proc')
        PROVE  TypeOK'
    BY <1>1, <1>4, TypeFrom
  <1>5. ASSUME NEW q \in ProcessOf("expand"), Set("expand", q)
        PROVE  ProcOK(proc')
    BY <1>2, <1>5, SetStep
  <1>6. CASE ClickActs
    <2>1. PICK p \in proc["click"] :
            /\ Ends("click")
            /\ \/ p.item \in Menus /\ Toggle(p.item) /\ flash' = "none"
               \/ UNCHANGED <<open, flash>>
      BY <1>6 DEF ClickActs
    <2>2. ProcOK(proc')
      BY <1>2, <2>1, EndStep
    <2>3. IsOption(open', Menus) /\ flash' \in Flashes
      BY <1>1, <2>1, ToggleType DEF Flashes
    <2> QED
      BY <1>4, <1>6, <2>2, <2>3 DEF ClickActs
  <1>7. CASE Expands
    <2>1. PICK p \in proc["expand"] :
            \/ /\ Toggle(p.item) /\ flash' \in {"none", "open"}
               /\ Set("expand", [p EXCEPT !.stage = "realise", !.left = RealizeTicks])
            \/ ExpandFails(p) /\ UNCHANGED <<open, flash>>
      BY <1>7 DEF Expands
    <2>2. IsOption(open', Menus) /\ flash' \in Flashes
      BY <1>1, <1>3, <2>1, ToggleType DEF Flashes
    <2> DEFINE q == [p EXCEPT !.stage = "realise", !.left = RealizeTicks]
    <2>3. RealizeTicks \in 0..(SettleTicks + RealizeTicks)
      BY ForwardAssumption
    <2>4. q \in ProcessOf("expand")
      BY <1>3, <2>3 DEF ProcessOf, ExpandProcess, Process, ExpandStages
    <2>5. Set("expand", q) \/ ExpandFails(p)
      BY <2>1
    <2> HIDE DEF q
    <2>6. ProcOK(proc')
      BY <1>3, <1>5, <2>4, <2>5 DEF ExpandFails, ExpandStages
    <2> QED
      BY <1>4, <1>7, <2>2, <2>6 DEF Expands
  <1>8. CASE FetchesItems
    <2>1. PICK p \in proc["expand"] :
            Set("expand", [p EXCEPT !.stage = "collapse",
                                    !.kids = (p.tree = tree /\ p.item \in realised)])
      BY <1>8 DEF FetchesItems
    <2> DEFINE b == p.tree = tree /\ p.item \in realised
               q == [p EXCEPT !.stage = "collapse", !.kids = b]
    <2>2. b \in BOOLEAN /\ Set("expand", q)
      BY <2>1
    <2> HIDE DEF b
    <2>3. q \in ProcessOf("expand")
      BY <1>3, <2>2 DEF ProcessOf, ExpandProcess, Process, ExpandStages
    <2> HIDE DEF q
    <2>4. ProcOK(proc')
      BY <1>5, <2>2, <2>3
    <2> QED
      BY <1>1, <1>4, <1>8, <2>4 DEF FetchesItems
  <1>9. CASE Collapses
    <2>1. PICK p \in proc["expand"] :
            /\ ToggledBack(p) /\ flash' \in {flash, "none"}
            /\ Set("expand", [p EXCEPT !.stage = "refresh"])
      BY <1>9 DEF Collapses
    <2>2. IsOption(open', Menus) /\ flash' \in Flashes
      BY <1>1, <1>3, <2>1, ToggleType DEF ToggledBack, Flashes
    <2>3. ProcOK(proc')
      BY <1>3, <1>5, <2>1 DEF ExpandStages
    <2> QED
      BY <1>4, <1>9, <2>2, <2>3 DEF Collapses
  <1>10. CASE Refreshes
    <2>1. PICK p \in proc["expand"] : Set("expand", [p EXCEPT !.stage = "answer"])
      BY <1>10 DEF Refreshes
    <2>2. ProcOK(proc')
      BY <1>3, <1>5, <2>1 DEF ExpandStages
    <2>3. kick' \in BOOLEAN /\ UNCHANGED <<focus, active, lag, tree, realised, open, flash, fetched, shown>>
      BY <1>1, <1>10 DEF Refreshes, SignalRefreshActive
    <2> QED
      BY <1>1, <2>2, <2>3, TypeFrom
  <1>11. CASE Answered
    <2>1. PICK p \in proc["expand"] :
            \/ Ends("expand")
            \/ proc' = [expand |-> {}, click |-> {[Started(p.item, NoWindow) EXCEPT !.tree = p.tree]}]
      BY <1>11 DEF Answered
    <2> DEFINE q == [Started(p.item, NoWindow) EXCEPT !.tree = p.tree]
    <2>2. q \in ClickProcess
      BY <1>3, AnsweredIs DEF ProcessOf
    <2>3. Ends("expand") \/ proc' = [expand |-> {}, click |-> {q}]
      BY <2>1
    <2> HIDE DEF q
    <2>4. ASSUME proc' = [expand |-> {}, click |-> {q}]
          PROVE  ProcOK(proc')
      <3>1. DOMAIN proc' = Kinds /\ proc'["click"] = {q} /\ proc'["expand"] = {}
        BY <2>4 DEF Kinds
      <3>2. IsOption(proc'["click"], ClickProcess) /\ IsOption(proc'["expand"], ExpandProcess)
        BY <2>2, <3>1, SomeOption DEF IsOption
      <3> QED
        BY <3>1, <3>2 DEF ProcOK, ProcessOf, Kinds
    <2>5. ProcOK(proc')
      BY <1>2, <2>3, <2>4, EndStep
    <2>6. flash' \in Flashes
      BY <1>1, <1>11 DEF Answered, Flashes
    <2> QED
      BY <1>1, <1>4, <1>11, <2>5, <2>6 DEF Answered
  <1> QED
    BY <1>6, <1>7, <1>8, <1>9, <1>10, <1>11

\* The widget starts what may run.
LEMMA TypeWidget ==
    ASSUME TypeOK,
           \/ \E r \in Rows, w \in Windows : ClickRow(r, w)
           \/ \E m \in Menus : ClickLazy(m)
    PROVE  TypeOK'
  <1> USE DEF appVars, bridgeVars
  <1>1. "click" \in Kinds /\ "expand" \in Kinds /\ focus \in Windows
    BY DEF Kinds, TypeOK
  <1>2. ASSUME NEW k \in Kinds, NEW q \in ProcessOf(k), Set(k, q),
               UNCHANGED <<focus, appVars, bridgeVars>>
        PROVE  TypeOK'
    <2>1. ProcOK(proc')
      BY <1>2, SetStep
    <2> QED
      BY <1>2, <2>1, ProcTypes, TypeFrom
  <1>3. ASSUME NEW r \in Rows, NEW w \in Windows, ClickRow(r, w)
        PROVE  TypeOK'
    <2>1. Started(r, w) \in ProcessOf("click")
      BY <1>3, StartedIs DEF ClickRow, ProcessOf
    <2> QED
      BY <1>1, <1>2, <1>3, <2>1 DEF ClickRow
  <1>4. ASSUME NEW m \in Menus, ClickLazy(m)
        PROVE  TypeOK'
    <2>1. Started(m, focus) \in ProcessOf("expand")
      BY <1>1, <1>4, StartedIs DEF ClickLazy, ProcessOf
    <2> QED
      BY <1>1, <1>2, <1>4, <2>1 DEF ClickLazy
  <1> QED
    BY <1>3, <1>4

\* At the start.
LEMMA TypeInit == Init => TypeOK
  <1> SUFFICES ASSUME Init PROVE TypeOK
    OBVIOUS
  <1>1. 0 \in 0..(SyncTicks - 1) /\ 0 \in Trees
    BY ForwardAssumption DEF Trees
  <1>2. DOMAIN <<>> = {} /\ <<>> \in [{} -> Entry(Walk)]
    OBVIOUS
  <1>3. IsCacheMap(fetched, Windows, Walk)
    BY <1>2 DEF Init, IsCacheMap
  <1>4. DOMAIN proc = Kinds /\ proc["click"] = {} /\ proc["expand"] = {}
    BY DEF Init, Kinds
  <1> QED
    BY <1>1, <1>3, <1>4 DEF Init, TypeOK, IsOption, Flashes

\* Every step keeps them.
LEMMA TypeStep == TypeOK /\ [Next]_vars => TypeOK'
  <1> SUFFICES ASSUME TypeOK, [Next]_vars PROVE TypeOK'
    OBVIOUS
  <1>1. CASE UNCHANGED vars
    BY <1>1 DEF vars, appVars, bridgeVars, TypeOK
  <1>2. ASSUME NEW k \in Kinds, ProcessStep(k)
        PROVE  TypeOK'
    BY <1>2, TypeProcess
  <1>3. "click" \in Kinds /\ "expand" \in Kinds
    BY DEF Kinds
  <1>4. CASE ClickStep \/ ExpandStep
    BY <1>2, <1>3, <1>4, TypeActs DEF ClickStep, ExpandStep
  <1>5. CASE Next
    BY <1>4, <1>5, TypeApp, TypeTick, TypePublish, TypeWidget DEF Next
  <1> QED
    BY <1>1, <1>5

\* The variables have their types; at most one process of each kind runs.
THEOREM TypeCorrect == Spec => []TypeOK
  BY TypeInit, TypeStep, PTL DEF Spec

----------------------------------------------------------------------------
(* A click acts in its window                                              *)

\* A click that is steady, while foc, act and l are focus, active and lag.
Followed(p, foc, act, l) ==
    p.steady =>
        /\ p.stage \in {"settle", "probe", "act", "stale"}
        /\ p.winid = foc
        /\ act # foc => p.stage = "settle" /\ SettleTicks - p.left <= l

\* Process by process.
LEMMA SteadyIs == SteadyIsFollowed <=> \A p \in proc["click"] : Followed(p, focus, active, lag)
  BY DEF SteadyIsFollowed, Followed

\* After a step.
LEMMA SteadyFrom ==
    ASSUME \A p \in proc'["click"] : Followed(p, focus', active', lag')
    PROVE  SteadyIsFollowed'
  BY DEF SteadyIsFollowed, Followed

\* What runs has lost the history, and nothing else.
LEMMA Histories ==
    ASSUME TypeOK
    PROVE  /\ \A k \in Kinds : \A q \in Unsteady(proc)[k] : ~q.steady
           /\ \A k \in Kinds : \A q \in Unsteady(proc)[k] :
                \E p \in proc[k] :
                    q.stage = p.stage /\ q.item = p.item /\ q.tree = p.tree /\ q.kids = p.kids
           /\ \A k \in Kinds : \A p \in proc[k] :
                \E q \in Unsteady(proc)[k] :
                    q.stage = p.stage /\ q.item = p.item /\ q.tree = p.tree /\ q.kids = p.kids
  <1>1. \A k \in Kinds : Unsteady(proc)[k] = {[p EXCEPT !.steady = FALSE] : p \in proc[k]}
    BY DEF Unsteady
  <1>2. ASSUME NEW k \in Kinds, NEW p \in proc[k], NEW q, q = [p EXCEPT !.steady = FALSE]
        PROVE  /\ ~q.steady
               /\ q.stage = p.stage /\ q.item = p.item /\ q.tree = p.tree /\ q.kids = p.kids
    <2>1. p \in ProcessOf(k)
      BY Member
    <2> QED
      BY <1>2, <2>1 DEF ProcessOf, ClickProcess, ExpandProcess, Process
  <1>3. ASSUME NEW k \in Kinds, NEW q \in Unsteady(proc)[k]
        PROVE  /\ ~q.steady
               /\ \E p \in proc[k] :
                    q.stage = p.stage /\ q.item = p.item /\ q.tree = p.tree /\ q.kids = p.kids
    <2>1. PICK p \in proc[k] : q = [p EXCEPT !.steady = FALSE]
      BY <1>1
    <2> QED
      BY <1>2, <2>1
  <1>4. ASSUME NEW k \in Kinds, NEW p \in proc[k]
        PROVE  \E q \in Unsteady(proc)[k] :
                  q.stage = p.stage /\ q.item = p.item /\ q.tree = p.tree /\ q.kids = p.kids
    <2> DEFINE q == [p EXCEPT !.steady = FALSE]
    <2>1. q \in Unsteady(proc)[k]
      BY <1>1
    <2> HIDE DEF q
    <2>2. q.stage = p.stage /\ q.item = p.item /\ q.tree = p.tree /\ q.kids = p.kids
      BY <1>2 DEF q
    <2> QED
      BY <2>1, <2>2
  <1> QED
    BY <1>3, <1>4

\* niri, the application and the bridge.
LEMMA AppKeeps ==
    ASSUME TypeOK, SteadyIsFollowed,
           \/ \E w \in Windows : UserFocuses(w)
           \/ AppFollows \/ AppRebuilds \/ AppRealises \/ UserCloses \/ Publish
    PROVE  SteadyIsFollowed'
  <1> USE DEF appVars, bridgeVars
  <1>1. ASSUME NEW w \in Windows, UserFocuses(w)
        PROVE  SteadyIsFollowed'
    <2>1. proc' = Unsteady(proc) /\ "click" \in Kinds
      BY <1>1 DEF UserFocuses, Kinds
    <2> QED
      BY <2>1, Histories, SteadyFrom DEF Followed
  <1>2. CASE AppFollows
    <2>1. active' = focus' /\ UNCHANGED <<focus, proc>>
      BY <1>2 DEF AppFollows
    <2> QED
      BY <2>1, SteadyIs, SteadyFrom DEF Followed
  <1>3. CASE AppRebuilds \/ UserCloses \/ AppRealises \/ Publish
    <2>1. UNCHANGED <<focus, active, lag, proc>>
      BY <1>3 DEF AppRebuilds, UserCloses, AppRealises, Publish
    <2> QED
      BY <2>1, SteadyIs, SteadyFrom
  <1> QED
    BY <1>1, <1>2, <1>3

\* What runs after a tick.
LEMMA TickedIs ==
    ASSUME TypeOK, Tick, NEW k \in Kinds
    PROVE  /\ \A q \in proc'[k] : \E p \in proc[k] :
                  /\ p \in ProcessOf(k)
                  /\ q.stage = p.stage /\ q.item = p.item /\ q.tree = p.tree /\ q.kids = p.kids
                  /\ q.winid = p.winid /\ q.steady = p.steady
                  /\ q.left = IF p.left > 0 THEN p.left - 1 ELSE 0
           /\ \A p \in proc[k] : \E q \in proc'[k] :
                  q.stage = p.stage /\ q.item = p.item /\ q.tree = p.tree /\ q.kids = p.kids
  <1>1. ASSUME NEW p \in proc[k], NEW q, q = [p EXCEPT !.left = IF @ > 0 THEN @ - 1 ELSE 0]
        PROVE  /\ p \in ProcessOf(k)
               /\ q.stage = p.stage /\ q.item = p.item /\ q.tree = p.tree /\ q.kids = p.kids
               /\ q.winid = p.winid /\ q.steady = p.steady
               /\ q.left = IF p.left > 0 THEN p.left - 1 ELSE 0
    <2>1. p \in ProcessOf(k)
      BY Member
    <2> QED
      BY <1>1, <2>1 DEF ProcessOf, ClickProcess, ExpandProcess, Process
  <1>2. proc'[k] = {[p EXCEPT !.left = IF @ > 0 THEN @ - 1 ELSE 0] : p \in proc[k]}
    BY TickProc
  <1>3. ASSUME NEW q \in proc'[k]
        PROVE  \E p \in proc[k] : q = [p EXCEPT !.left = IF @ > 0 THEN @ - 1 ELSE 0]
    BY <1>2
  <1>4. ASSUME NEW p \in proc[k]
        PROVE  \E q \in proc'[k] : q = [p EXCEPT !.left = IF @ > 0 THEN @ - 1 ELSE 0]
    BY <1>2
  <1> QED
    BY <1>1, <1>3, <1>4

\* Time: the application follows no later than the click stops waiting.
LEMMA TickKeeps ==
    ASSUME TypeOK, SteadyIsFollowed, Tick
    PROVE  SteadyIsFollowed'
  <1>1. "click" \in Kinds
    BY DEF Kinds
  <1>3. UNCHANGED focus
    BY DEF Tick
  <1>5. ASSUME NEW q \in proc'["click"]
        PROVE  Followed(q, focus', active', lag')
    <2>1. PICK p \in proc["click"] :
              /\ p \in ProcessOf("click")
              /\ q.stage = p.stage /\ q.winid = p.winid /\ q.steady = p.steady
              /\ q.left = IF p.left > 0 THEN p.left - 1 ELSE 0
      BY <1>1, TickedIs
    <2>2. Followed(p, focus, active, lag)
      BY SteadyIs
    <2>3. p.left \in Nat /\ SettleTicks \in Nat /\ lag \in Nat /\ SyncTicks \in Nat /\ SyncTicks <= SettleTicks
      BY <1>1, <2>1, Fields, ForwardAssumption DEF TypeOK
    <2>4. CASE active' = focus
      BY <1>3, <2>1, <2>2, <2>4 DEF Followed
    <2>5. CASE active' # focus
      <3>1. active # focus /\ lag + 1 < SyncTicks /\ lag' = lag + 1 /\ active' = active
        BY <2>5 DEF Tick
      <3> QED
        BY <1>3, <2>1, <2>2, <2>3, <3>1 DEF Followed
    <2> QED
      BY <2>4, <2>5
  <1> QED
    BY <1>5, SteadyFrom

\* A click goes on.
LEMMA ClickKeeps ==
    ASSUME TypeOK, NEW q \in ProcessOf("click"), Set("click", q), Followed(q, focus', active', lag')
    PROVE  SteadyIsFollowed'
  <1>1. proc'["click"] = {q}
    BY SetStep DEF Kinds
  <1> QED
    BY <1>1, SteadyFrom

\* The click is left alone, or ends.
LEMMA OtherKeeps ==
    ASSUME SteadyIsFollowed, UNCHANGED <<focus, active, lag>>,
           proc'["click"] = {} \/ proc'["click"] = proc["click"]
    PROVE  SteadyIsFollowed'
  BY SteadyIs, SteadyFrom

\* The pre-focus: the click that succeeds is steady from here on, in the
\* window it was captured for, and waits; what moves the focus away from where
\* the click put it ends that.
LEMMA PreFocusKeeps ==
    ASSUME TypeOK, SteadyIsFollowed, NEW k \in Kinds, PreFocus(k)
    PROVE  SteadyIsFollowed'
  <1>1. UNCHANGED active /\ "click" \in Kinds
    BY DEF PreFocus, Kinds
  <1>2. PICK p \in proc[k] :
          /\ p.stage = "focus"
          /\ \/ /\ Set(k, [Aimed(p, FALSE) EXCEPT !.stage = "probe"])
                /\ UNCHANGED <<focus, lag, kick>>
             \/ /\ p.winid # NoWindow
                /\ FocusOn(p.winid)
                /\ proc' = [(IF p.winid = focus THEN proc ELSE Unsteady(proc))
                              EXCEPT ![k] = {PreFocused(p)}]
    BY DEF PreFocus
  <1>3. p \in ProcessOf(k)
    BY Member
  <1>5. CASE Set(k, [Aimed(p, FALSE) EXCEPT !.stage = "probe"]) /\ UNCHANGED <<focus, lag, kick>>
    <2> DEFINE q == [Aimed(p, FALSE) EXCEPT !.stage = "probe"]
    <2>1. q \in ProcessOf(k)
      BY <1>3, AimedIs
    <2>2. ~q.steady
      BY <1>3 DEF Aimed, ProcessOf, ClickProcess, ExpandProcess, Process
    <2>3. Set(k, q)
      BY <1>5
    <2> HIDE DEF q
    <2>4. CASE k = "click"
      BY <2>1, <2>2, <2>3, <2>4, ClickKeeps DEF Followed
    <2>5. CASE k # "click"
      <3>1. proc'["click"] = proc["click"]
        BY <1>1, <2>1, <2>3, <2>5, SetStep
      <3> QED
        BY <1>1, <1>5, <3>1, OtherKeeps
    <2> QED
      BY <2>4, <2>5
  <1>6. CASE /\ p.winid # NoWindow /\ FocusOn(p.winid)
             /\ proc' = [(IF p.winid = focus THEN proc ELSE Unsteady(proc)) EXCEPT ![k] = {PreFocused(p)}]
    <2> DEFINE q == PreFocused(p)
               others == IF p.winid = focus THEN proc ELSE Unsteady(proc)
    <2>1. focus' = p.winid /\ lag' = IF p.winid = focus THEN lag ELSE 0
      BY <1>6 DEF FocusOn
    <2>2. /\ q.stage = "settle" /\ q.left = SettleTicks
          /\ q.steady => q.winid = p.winid
      <3>1. Aimed(p, TRUE).steady => Aimed(p, TRUE).winid = p.winid
        BY <1>3 DEF Aimed, ProcessOf, ClickProcess, ExpandProcess, Process
      <3>2. Aimed(p, TRUE) \in ProcessOf(k)
        BY <1>3, AimedIs
      <3>3. ASSUME NEW a \in ProcessOf(k), a = Aimed(p, TRUE)
            PROVE  /\ q.stage = "settle" /\ q.left = SettleTicks
                   /\ q.steady = a.steady /\ q.winid = a.winid
        <4>1. q = [a EXCEPT !.stage = "settle", !.left = SettleTicks]
          BY <3>3 DEF PreFocused
        <4> HIDE DEF q
        <4> QED
          BY <4>1 DEF ProcessOf, ClickProcess, ExpandProcess, Process
      <3> QED
        BY <3>1, <3>2, <3>3
    <2>3. lag' \in Nat /\ SettleTicks \in Nat /\ SettleTicks - SettleTicks = 0
      BY <2>1, ForwardAssumption DEF TypeOK
    <2>4. DOMAIN others = Kinds
      BY DEF Unsteady, TypeOK
    <2>5. proc'[k] = {q} /\ \A j \in Kinds : j # k => proc'[j] = others[j]
      BY <1>6, <2>4
    <2>6. Followed(q, focus', active', lag')
      <3> HIDE DEF q
      <3> QED
        BY <2>1, <2>2, <2>3 DEF Followed
    <2>7. CASE k = "click"
      <3> HIDE DEF q
      <3> QED
        BY <2>5, <2>6, <2>7, SteadyFrom
    <2>8. CASE k # "click"
      <3>1. proc'["click"] = others["click"]
        BY <1>1, <2>5, <2>8
      <3>2. \A r \in others["click"] : Followed(r, focus', active', lag')
        <4>1. CASE p.winid = focus
          BY <1>1, <2>1, <4>1, SteadyIs
        <4>2. CASE p.winid # focus
          <5>1. \A r \in Unsteady(proc)["click"] : ~r.steady
            BY <1>1, Histories
          <5> QED
            BY <4>2, <5>1 DEF Followed
        <4> QED
          BY <4>1, <4>2
      <3> HIDE DEF others, q
      <3> QED
        BY <3>1, <3>2, SteadyFrom
    <2> QED
      BY <2>7, <2>8
  <1> QED
    BY <1>2, <1>5, <1>6

\* What both kinds do after the focus has settled: the click acts once the
\* application has followed.
LEMMA ProcessKeeps ==
    ASSUME TypeOK, SteadyIsFollowed, NEW k \in Kinds, Settled(k) \/ Probe(k) \/ StaleExit(k)
    PROVE  SteadyIsFollowed'
  <1> USE DEF appVars, bridgeVars
  <1>1. UNCHANGED <<focus, active, lag>> /\ "click" \in Kinds
    BY DEF Settled, Probe, StaleExit, Kinds
  <1>2. ASSUME NEW p \in proc[k], NEW s \in {"probe", "act", "stale"}, Set(k, [p EXCEPT !.stage = s]),
               \/ p.stage = "settle" /\ p.left = 0 /\ s = "probe"
               \/ p.stage = "probe" /\ s \in {"act", "stale"}
        PROVE  SteadyIsFollowed'
    <2> DEFINE q == [p EXCEPT !.stage = s]
    <2>1. p \in ProcessOf(k)
      BY Member
    <2>2. q \in ProcessOf(k) /\ Set(k, q)
      BY <1>2, <2>1, StageType DEF ClickStages, ExpandStages
    <2>3. q.stage = s /\ q.steady = p.steady /\ q.winid = p.winid
      BY <2>1 DEF ProcessOf, ClickProcess, ExpandProcess, Process
    <2> HIDE DEF q
    <2>4. SettleTicks - 0 > lag
      BY ForwardAssumption DEF TypeOK
    <2>5. CASE k = "click"
      <3>1. Followed(p, focus, active, lag)
        BY <2>5, SteadyIs
      <3>2. p.steady => active = focus
        <4>1. CASE p.stage = "settle" /\ p.left = 0
          BY <2>4, <3>1, <4>1, ForwardAssumption DEF Followed, TypeOK
        <4>2. CASE p.stage = "probe"
          BY <3>1, <4>2 DEF Followed
        <4> QED
          BY <1>2, <4>1, <4>2
      <3>3. Followed(q, focus', active', lag')
        BY <1>1, <2>3, <3>1, <3>2 DEF Followed
      <3> QED
        BY <2>2, <2>5, <3>3, ClickKeeps
    <2>6. CASE k # "click"
      BY <1>1, <2>2, <2>6, SetStep, OtherKeeps
    <2> QED
      BY <2>5, <2>6
  <1>3. CASE Settled(k)
    BY <1>2, <1>3 DEF Settled
  <1>4. CASE Probe(k)
    BY <1>2, <1>4 DEF Probe
  <1>5. CASE StaleExit(k)
    <2>1. PICK p \in proc[k] : IF k = "click" THEN Ends(k) ELSE Set(k, [p EXCEPT !.stage = "answer"])
      BY <1>5 DEF StaleExit
    <2>2. CASE k = "click"
      BY <1>1, <2>1, <2>2, EndStep, OtherKeeps
    <2>3. CASE k # "click"
      <3> DEFINE q == [p EXCEPT !.stage = "answer"]
      <3>1. p \in ProcessOf(k)
        BY Member
      <3>2. q \in ProcessOf(k) /\ Set(k, q)
        BY <2>1, <2>3, <3>1, StageType DEF ExpandStages
      <3> HIDE DEF q
      <3> QED
        BY <1>1, <2>3, <3>2, SetStep, OtherKeeps
    <2> QED
      BY <2>2, <2>3
  <1> QED
    BY <1>3, <1>4, <1>5

\* The expand and what the widget starts: the click ends, is left alone, or
\* has no history yet.
LEMMA OthersKeep ==
    ASSUME TypeOK, SteadyIsFollowed,
           \/ ClickActs \/ Expands \/ FetchesItems \/ Collapses \/ Refreshes \/ Answered
           \/ \E r \in Rows, w \in Windows : ClickRow(r, w)
           \/ \E m \in Menus : ClickLazy(m)
    PROVE  SteadyIsFollowed'
  <1> USE DEF appVars, bridgeVars
  <1>1. /\ UNCHANGED <<focus, active, lag>>
        /\ "click" \in Kinds /\ "expand" \in Kinds /\ DOMAIN proc = Kinds
    BY DEF ClickActs, Expands, FetchesItems, Collapses, Refreshes, Answered, ClickRow, ClickLazy,
           Kinds, TypeOK
  <1>2. ASSUME NEW q, Set("expand", q)
        PROVE  SteadyIsFollowed'
    <2>1. proc'["click"] = proc["click"]
      BY <1>1, <1>2 DEF Set
    <2> QED
      BY <1>1, <2>1, OtherKeeps
  <1>3. CASE ClickActs
    BY <1>1, <1>3, EndStep, OtherKeeps DEF ClickActs
  <1>4. CASE Expands \/ FetchesItems \/ Collapses \/ Refreshes
    BY <1>2, <1>4 DEF Expands, FetchesItems, Collapses, Refreshes, ExpandFails
  <1>5. ASSUME NEW m \in Menus, ClickLazy(m)
        PROVE  SteadyIsFollowed'
    BY <1>2, <1>5 DEF ClickLazy
  <1>6. ASSUME NEW r \in Rows, NEW w \in Windows, ClickRow(r, w)
        PROVE  SteadyIsFollowed'
    <2> DEFINE q == Started(r, w)
    <2>1. q \in ProcessOf("click") /\ ~q.steady /\ Set("click", q)
      BY <1>6, StartedIs DEF ClickRow, ProcessOf
    <2> HIDE DEF q
    <2> QED
      BY <2>1, ClickKeeps DEF Followed
  <1>7. CASE Answered
    <2>1. PICK p \in proc["expand"] :
            \/ Ends("expand")
            \/ proc' = [expand |-> {}, click |-> {[Started(p.item, NoWindow) EXCEPT !.tree = p.tree]}]
      BY <1>7 DEF Answered
    <2>2. CASE Ends("expand")
      BY <1>1, <2>2, EndStep, OtherKeeps
    <2>3. CASE proc' = [expand |-> {}, click |-> {[Started(p.item, NoWindow) EXCEPT !.tree = p.tree]}]
      <3> DEFINE q == [Started(p.item, NoWindow) EXCEPT !.tree = p.tree]
      <3>1. p \in ExpandProcess
        BY <1>1, Member DEF ProcessOf
      <3>2. ~q.steady
        BY <3>1, AnsweredIs
      <3>3. proc' = [expand |-> {}, click |-> {q}]
        BY <2>3
      <3> HIDE DEF q
      <3>4. proc'["click"] = {q}
        BY <3>3
      <3> QED
        BY <3>2, <3>4, SteadyFrom DEF Followed
    <2> QED
      BY <2>1, <2>2, <2>3
  <1> QED
    BY <1>3, <1>4, <1>5, <1>6, <1>7

----------------------------------------------------------------------------
(* A menu that an expand opened is on its way to be closed                 *)

\* A click that will close the menu op, while t is tree.
Closes(p, op, t) == p.stage # "stale" /\ p.tree = t /\ op = {p.item}

\* An expand that has left the menu op open, and is not done with it.
Holds(p, op, t) ==
    /\ p.tree = t /\ op = {p.item}
    /\ \/ p.stage \in {"realise", "collapse"}
       \/ p.stage \in {"refresh", "answer"} /\ ~p.kids

\* Process by process.
LEMMA FlashIs ==
    FlashEnds <=> (flash = "open" => \/ \E p \in proc["click"] : Closes(p, open, tree)
                                     \/ \E p \in proc["expand"] : Holds(p, open, tree))
  BY DEF FlashEnds, ClickCloses, Closes, Holds

\* After a step.
LEMMA FlashFrom ==
    ASSUME flash' = "open" => \/ \E p \in proc'["click"] : Closes(p, open', tree')
                              \/ \E p \in proc'["expand"] : Holds(p, open', tree')
    PROVE  FlashEnds'
  BY DEF FlashEnds, ClickCloses, Closes, Holds

\* What decides does not depend on the history, nor on the time left.
LEMMA SameKeeps ==
    ASSUME FlashEnds, UNCHANGED <<flash, open, tree>>,
           \A k \in Kinds : \A p \in proc[k] : \E q \in proc'[k] :
               q.stage = p.stage /\ q.item = p.item /\ q.tree = p.tree /\ q.kids = p.kids
    PROVE  FlashEnds'
  <1>1. "click" \in Kinds /\ "expand" \in Kinds
    BY DEF Kinds
  <1>2. ASSUME NEW p \in proc["click"], Closes(p, open, tree)
        PROVE  \E q \in proc'["click"] : Closes(q, open', tree')
    BY <1>1, <1>2 DEF Closes
  <1>3. ASSUME NEW p \in proc["expand"], Holds(p, open, tree)
        PROVE  \E q \in proc'["expand"] : Holds(q, open', tree')
    BY <1>1, <1>3 DEF Holds
  <1> QED
    BY <1>2, <1>3, FlashIs, FlashFrom

\* One process goes on: if it decided, it still does.
LEMMA OneHolds ==
    ASSUME TypeOK, FlashEnds, UNCHANGED <<flash, open, tree>>, NEW k \in Kinds,
           NEW p \in proc[k], NEW q \in ProcessOf(k), Set(k, q),
           k = "click" => (Closes(p, open, tree) => Closes(q, open, tree)),
           k = "expand" => (Holds(p, open, tree) => Holds(q, open, tree))
    PROVE  FlashEnds'
  <1>1. proc[k] = {p} /\ proc'[k] = {q} /\ \A j \in Kinds : j # k => proc'[j] = proc[j]
    BY Member, SetStep
  <1>2. CASE k = "click"
    BY <1>1, <1>2, FlashIs, FlashFrom DEF Kinds
  <1>3. CASE k = "expand"
    BY <1>1, <1>3, FlashIs, FlashFrom DEF Kinds
  <1> QED
    BY <1>2, <1>3 DEF Kinds

\* A process starts where none ran.
LEMMA StartHolds ==
    ASSUME TypeOK, FlashEnds, UNCHANGED <<flash, open, tree>>, NEW k \in Kinds,
           proc[k] = {}, NEW q \in ProcessOf(k), Set(k, q)
    PROVE  FlashEnds'
  <1>1. \A j \in Kinds : j # k => proc'[j] = proc[j]
    BY SetStep
  <1>2. \A j \in Kinds : \A p \in proc[j] : p \in proc'[j]
    BY <1>1
  <1> QED
    BY <1>2, SameKeeps

\* One process ends that did not decide.
LEMMA EndHolds ==
    ASSUME TypeOK, FlashEnds, UNCHANGED <<flash, open, tree>>, NEW k \in Kinds, Ends(k),
           k = "click" => \A p \in proc[k] : ~Closes(p, open, tree),
           k = "expand" => \A p \in proc[k] : ~Holds(p, open, tree)
    PROVE  FlashEnds'
  <1>1. proc'[k] = {} /\ \A j \in Kinds : j # k => proc'[j] = proc[j]
    BY EndStep
  <1>2. CASE k = "click"
    BY <1>1, <1>2, FlashIs, FlashFrom DEF Kinds
  <1>3. CASE k = "expand"
    BY <1>1, <1>3, FlashIs, FlashFrom DEF Kinds
  <1> QED
    BY <1>2, <1>3 DEF Kinds

\* niri, the application, time and the bridge: what closes the menu ends the
\* flash.
LEMMA AppHolds ==
    ASSUME TypeOK, FlashEnds,
           \/ \E w \in Windows : UserFocuses(w)
           \/ AppFollows \/ AppRebuilds \/ AppRealises \/ UserCloses \/ Tick \/ Publish
    PROVE  FlashEnds'
  <1> USE DEF appVars, bridgeVars
  <1>1. ASSUME NEW w \in Windows, UserFocuses(w)
        PROVE  FlashEnds'
    <2>1. proc' = Unsteady(proc) /\ UNCHANGED <<flash, open, tree>>
      BY <1>1 DEF UserFocuses
    <2> QED
      BY <2>1, Histories, SameKeeps
  <1>2. CASE Tick
    <2>1. UNCHANGED <<flash, open, tree>>
      BY <1>2 DEF Tick
    <2> QED
      BY <1>2, <2>1, TickedIs, SameKeeps
  <1>3. CASE AppFollows \/ AppRealises \/ Publish
    <2>1. UNCHANGED <<proc, flash, open, tree>>
      BY <1>3 DEF AppFollows, AppRealises, Publish
    <2> QED
      BY <2>1, SameKeeps
  <1>4. CASE AppRebuilds \/ UserCloses
    BY <1>4, FlashFrom DEF AppRebuilds, UserCloses
  <1> QED
    BY <1>1, <1>2, <1>3, <1>4

\* What both kinds do up to their action: a click of the tree that is there
\* is not found stale.
LEMMA ProcessHolds ==
    ASSUME TypeOK, FlashEnds, NEW k \in Kinds, ProcessStep(k)
    PROVE  FlashEnds'
  <1> USE DEF appVars, bridgeVars
  <1>1. UNCHANGED <<flash, open, tree>>
    BY DEF ProcessStep, PreFocus, Settled, Probe, StaleExit
  <1>2. ASSUME NEW p \in proc[k], NEW q \in ProcessOf(k), Set(k, q),
               p.stage \in {"focus", "settle", "probe"},
               q.item = p.item /\ q.tree = p.tree, q.stage = "stale" => p.tree # tree
        PROVE  FlashEnds'
    <2>1. Closes(p, open, tree) => Closes(q, open, tree)
      BY <1>2 DEF Closes
    <2>2. ~Holds(p, open, tree)
      BY <1>2 DEF Holds
    <2> QED
      BY <1>1, <1>2, <2>1, <2>2, OneHolds
  <1>3. ASSUME NEW p \in proc[k], NEW ok \in BOOLEAN
        PROVE  /\ [Aimed(p, ok) EXCEPT !.stage = "probe"].item = p.item
               /\ [Aimed(p, ok) EXCEPT !.stage = "probe"].tree = p.tree
               /\ [Aimed(p, ok) EXCEPT !.stage = "probe"].stage = "probe"
               /\ PreFocused(p).item = p.item /\ PreFocused(p).tree = p.tree
               /\ PreFocused(p).stage = "settle"
    <2>1. p \in ProcessOf(k)
      BY Member
    <2> QED
      BY <2>1 DEF Aimed, PreFocused, ProcessOf, ClickProcess, ExpandProcess, Process
  <1>4. ASSUME NEW p \in proc[k], NEW s \in {"probe", "act", "stale"}, Set(k, [p EXCEPT !.stage = s]),
               p.stage \in {"settle", "probe"}, s = "stale" => p.tree # tree
        PROVE  FlashEnds'
    <2> DEFINE q == [p EXCEPT !.stage = s]
    <2>1. p \in ProcessOf(k)
      BY Member
    <2>2. q \in ProcessOf(k) /\ Set(k, q)
      BY <1>4, <2>1, StageType DEF ClickStages, ExpandStages
    <2>3. q.stage = s /\ q.item = p.item /\ q.tree = p.tree
      BY <2>1 DEF ProcessOf, ClickProcess, ExpandProcess, Process
    <2> HIDE DEF q
    <2> QED
      BY <1>2, <1>4, <2>2, <2>3
  <1>5. CASE PreFocus(k)
    <2>1. PICK p \in proc[k] :
            /\ p.stage = "focus"
            /\ \/ Set(k, [Aimed(p, FALSE) EXCEPT !.stage = "probe"])
               \/ proc' = [(IF p.winid = focus THEN proc ELSE Unsteady(proc)) EXCEPT ![k] = {PreFocused(p)}]
      BY <1>5 DEF PreFocus
    <2>2. p \in ProcessOf(k)
      BY Member
    <2>3. CASE Set(k, [Aimed(p, FALSE) EXCEPT !.stage = "probe"])
      <3> DEFINE q == [Aimed(p, FALSE) EXCEPT !.stage = "probe"]
      <3>1. q \in ProcessOf(k) /\ Set(k, q) /\ q.item = p.item /\ q.tree = p.tree /\ q.stage = "probe"
        BY <1>3, <2>2, <2>3, AimedIs
      <3> HIDE DEF q
      <3> QED
        BY <1>2, <2>1, <3>1
    <2>4. CASE proc' = [(IF p.winid = focus THEN proc ELSE Unsteady(proc)) EXCEPT ![k] = {PreFocused(p)}]
      <3> DEFINE q == PreFocused(p)
                 others == IF p.winid = focus THEN proc ELSE Unsteady(proc)
      <3>1. q.item = p.item /\ q.tree = p.tree /\ q.stage = "settle"
        BY <1>3
      <3>2. DOMAIN others = Kinds
        BY DEF Unsteady, TypeOK
      <3>3. proc'[k] = {q} /\ \A j \in Kinds : j # k => proc'[j] = others[j]
        BY <2>4, <3>2
      <3>4. \A j \in Kinds : \A a \in proc[j] : \E b \in others[j] :
               b.stage = a.stage /\ b.item = a.item /\ b.tree = a.tree /\ b.kids = a.kids
        BY Histories
      <3> HIDE DEF q, others
      <3>5. proc[k] = {p}
        BY Member
      <3>6. CASE k = "click"
        <4>1. proc'["click"] = {q} /\ proc'["expand"] = others["expand"]
          BY <3>3, <3>6 DEF Kinds
        <4>2. Closes(p, open, tree) => Closes(q, open, tree)
          BY <3>1 DEF Closes
        <4>3. (\E a \in proc["expand"] : Holds(a, open, tree)) => \E b \in others["expand"] : Holds(b, open, tree)
          BY <3>4 DEF Holds, Kinds
        <4> QED
          BY <1>1, <3>5, <3>6, <4>1, <4>2, <4>3, FlashIs, FlashFrom
      <3>7. CASE k = "expand"
        <4>1. proc'["click"] = others["click"]
          BY <3>3, <3>7 DEF Kinds
        <4>2. ~Holds(p, open, tree)
          BY <2>1 DEF Holds
        <4>3. (\E a \in proc["click"] : Closes(a, open, tree)) => \E b \in others["click"] : Closes(b, open, tree)
          BY <3>4 DEF Closes, Kinds
        <4> QED
          BY <1>1, <3>5, <3>7, <4>1, <4>2, <4>3, FlashIs, FlashFrom
      <3> QED
        BY <3>6, <3>7 DEF Kinds
    <2> QED
      BY <2>1, <2>3, <2>4
  <1>6. CASE Settled(k)
    BY <1>4, <1>6 DEF Settled
  <1>7. CASE Probe(k)
    <2>1. PICK p \in proc[k] :
            /\ p.stage = "probe"
            /\ \E s \in {"act", "stale"} : Set(k, [p EXCEPT !.stage = s]) /\ (s = "stale" => p.tree # tree)
      BY <1>7 DEF Probe
    <2> QED
      BY <1>4, <2>1
  <1>8. CASE StaleExit(k)
    <2>1. PICK p \in proc[k] :
            p.stage = "stale" /\ IF k = "click" THEN Ends(k) ELSE Set(k, [p EXCEPT !.stage = "answer"])
      BY <1>8 DEF StaleExit
    <2>2. proc[k] = {p} /\ p \in ProcessOf(k) /\ ~Closes(p, open, tree) /\ ~Holds(p, open, tree)
      BY <2>1, Member DEF Closes, Holds
    <2>3. CASE k = "click"
      BY <1>1, <2>1, <2>2, <2>3, EndHolds
    <2>4. CASE k = "expand"
      <3> DEFINE q == [p EXCEPT !.stage = "answer"]
      <3>1. q \in ProcessOf(k) /\ Set(k, q)
        BY <2>1, <2>2, <2>4, StageType DEF ExpandStages
      <3> HIDE DEF q
      <3> QED
        BY <1>1, <2>2, <2>4, <3>1, OneHolds
    <2> QED
      BY <2>3, <2>4 DEF Kinds
  <1> QED
    BY <1>5, <1>6, <1>7, <1>8 DEF ProcessStep

\* The click that acts on a menu closes what is open, or ends the flash.
LEMMA ClickActsHolds ==
    ASSUME TypeOK, FlashEnds, ClickActs
    PROVE  FlashEnds'
  <1>1. PICK p \in proc["click"] :
          \/ flash' = "none"
          \/ /\ p.item \notin Menus \/ p.tree # tree
             /\ UNCHANGED <<open, flash>> /\ Ends("click")
    BY DEF ClickActs
  <1>2. CASE flash' = "none"
    BY <1>2, FlashFrom
  <1>3. CASE (p.item \notin Menus \/ p.tree # tree) /\ UNCHANGED <<open, flash>> /\ Ends("click")
    <2>1. "click" \in Kinds /\ proc["click"] = {p}
      BY Member DEF Kinds
    <2>2. ~Closes(p, open, tree)
      BY <1>3 DEF Closes, TypeOK, IsOption
    <2>3. UNCHANGED tree
      BY DEF ClickActs
    <2> QED
      BY <1>3, <2>1, <2>2, <2>3, EndHolds
  <1> QED
    BY <1>1, <1>2, <1>3

\* The expand: it opens the menu, walks it, and closes it again if the walk
\* saw items.
LEMMA ExpandHolds ==
    ASSUME TypeOK, FlashEnds, Expands \/ FetchesItems \/ Collapses \/ Refreshes
    PROVE  FlashEnds'
  <1> USE DEF appVars, bridgeVars
  <1>1. UNCHANGED tree /\ "expand" \in Kinds /\ ProcOK(proc)
    BY ProcTypes DEF Expands, FetchesItems, Collapses, Refreshes, Kinds
  <1>2. ASSUME NEW p \in proc["expand"], NEW s \in ExpandStages
        PROVE  /\ p \in ProcessOf("expand") /\ proc["expand"] = {p}
               /\ [p EXCEPT !.stage = s] \in ProcessOf("expand")
               /\ [p EXCEPT !.stage = s].stage = s /\ [p EXCEPT !.stage = s].item = p.item
               /\ [p EXCEPT !.stage = s].tree = p.tree /\ [p EXCEPT !.stage = s].kids = p.kids
    <2>1. p \in ProcessOf("expand") /\ proc["expand"] = {p}
      BY <1>1, Member
    <2> QED
      BY <2>1, StageType DEF ProcessOf, ExpandProcess, Process
  <1>3. CASE Expands
    <2>1. PICK p \in proc["expand"] :
            /\ p.stage = "act"
            /\ \/ /\ p.tree = tree /\ Toggle(p.item)
                  /\ flash' = IF open = {} THEN "open" ELSE "none"
                  /\ Set("expand", [p EXCEPT !.stage = "realise", !.left = RealizeTicks])
               \/ ExpandFails(p) /\ UNCHANGED <<open, flash>>
      BY <1>3 DEF Expands
    <2>2. CASE /\ p.tree = tree /\ Toggle(p.item)
               /\ flash' = IF open = {} THEN "open" ELSE "none"
               /\ Set("expand", [p EXCEPT !.stage = "realise", !.left = RealizeTicks])
      <3> DEFINE q == [p EXCEPT !.stage = "realise", !.left = RealizeTicks]
      <3>1. q.stage = "realise" /\ q.item = p.item /\ q.tree = p.tree
        BY <1>2 DEF ProcessOf, ExpandProcess, Process, ExpandStages
      <3>2. proc'["expand"] = {q}
        BY <1>1, <2>2 DEF Set, ProcOK
      <3> HIDE DEF q
      <3>3. open = {} => Holds(q, open', tree')
        BY <1>1, <2>2, <3>1 DEF Toggle, Holds
      <3> QED
        BY <2>2, <3>2, <3>3, FlashFrom
    <2>3. CASE ExpandFails(p) /\ UNCHANGED <<open, flash>>
      <3>1. ~Holds(p, open, tree)
        BY <2>1 DEF Holds
      <3> DEFINE q == [p EXCEPT !.stage = "answer"]
      <3>2. q \in ProcessOf("expand") /\ Set("expand", q)
        BY <1>2, <2>3 DEF ExpandFails, ExpandStages
      <3> HIDE DEF q
      <3> QED
        BY <1>1, <2>3, <3>1, <3>2, OneHolds
    <2> QED
      BY <2>1, <2>2, <2>3
  <1>4. CASE FetchesItems
    <2>1. PICK p \in proc["expand"] :
            /\ p.stage = "realise"
            /\ Set("expand", [p EXCEPT !.stage = "collapse",
                                       !.kids = (p.tree = tree /\ p.item \in realised)])
      BY <1>4 DEF FetchesItems
    <2> DEFINE b == p.tree = tree /\ p.item \in realised
               q == [p EXCEPT !.stage = "collapse", !.kids = b]
    <2>2. b \in BOOLEAN /\ Set("expand", q)
      BY <2>1
    <2> HIDE DEF b
    <2>3. q \in ProcessOf("expand") /\ q.stage = "collapse" /\ q.item = p.item /\ q.tree = p.tree
      BY <1>2, <2>2 DEF ProcessOf, ExpandProcess, Process, ExpandStages
    <2> HIDE DEF q
    <2>4. Holds(p, open, tree) => Holds(q, open, tree)
      BY <2>3 DEF Holds
    <2>5. UNCHANGED <<flash, open>>
      BY <1>4 DEF FetchesItems
    <2> QED
      BY <1>1, <2>2, <2>3, <2>4, <2>5, OneHolds
  <1>5. CASE Collapses
    <2>1. PICK p \in proc["expand"] :
            /\ p.stage = "collapse" /\ ToggledBack(p)
            /\ flash' = IF open' = open THEN flash ELSE "none"
            /\ Set("expand", [p EXCEPT !.stage = "refresh"])
      BY <1>5 DEF Collapses
    <2> DEFINE q == [p EXCEPT !.stage = "refresh"]
    <2>2. /\ q \in ProcessOf("expand") /\ q.stage = "refresh" /\ q.kids = p.kids
          /\ q.item = p.item /\ q.tree = p.tree
      BY <1>2 DEF ExpandStages
    <2>3. Set("expand", q)
      BY <2>1
    <2> HIDE DEF q
    <2>4. CASE open' # open
      BY <2>1, <2>4, FlashFrom
    <2>5. CASE open' = open
      <3>1. Holds(p, open, tree) => ~p.kids
        BY <2>1, <2>5 DEF Holds, ToggledBack, Toggle
      <3>2. Holds(p, open, tree) => Holds(q, open, tree)
        BY <2>2, <3>1 DEF Holds
      <3> QED
        BY <1>1, <2>1, <2>2, <2>3, <2>5, <3>2, OneHolds
    <2> QED
      BY <2>4, <2>5
  <1>6. CASE Refreshes
    <2>1. PICK p \in proc["expand"] : p.stage = "refresh" /\ Set("expand", [p EXCEPT !.stage = "answer"])
      BY <1>6 DEF Refreshes
    <2> DEFINE q == [p EXCEPT !.stage = "answer"]
    <2>2. /\ q \in ProcessOf("expand") /\ q.stage = "answer" /\ q.kids = p.kids
          /\ q.item = p.item /\ q.tree = p.tree
      BY <1>2 DEF ExpandStages
    <2>3. Set("expand", q) /\ UNCHANGED <<flash, open>>
      BY <1>6, <2>1 DEF Refreshes
    <2> HIDE DEF q
    <2>4. Holds(p, open, tree) => Holds(q, open, tree)
      BY <2>1, <2>2 DEF Holds
    <2> QED
      BY <1>1, <2>2, <2>3, <2>4, OneHolds
  <1> QED
    BY <1>3, <1>4, <1>5, <1>6

\* The widget: an expand without items becomes the click that closes the menu,
\* unless another click drops it.
LEMMA WidgetHolds ==
    ASSUME TypeOK, FlashEnds,
           \/ \E r \in Rows, w \in Windows : ClickRow(r, w)
           \/ \E m \in Menus : ClickLazy(m)
           \/ Answered
    PROVE  FlashEnds'
  <1> USE DEF appVars, bridgeVars
  <1>1. "click" \in Kinds /\ "expand" \in Kinds /\ focus \in Windows /\ UNCHANGED <<open, tree>>
    BY DEF TypeOK, Kinds, ClickRow, ClickLazy, Answered
  <1>2. ASSUME NEW r \in Rows, NEW w \in Windows, ClickRow(r, w)
        PROVE  FlashEnds'
    <2> DEFINE q == Started(r, w)
    <2>1. q \in ProcessOf("click") /\ Set("click", q) /\ UNCHANGED flash /\ proc["click"] = {}
      BY <1>2, StartedIs DEF ClickRow, ProcessOf
    <2> HIDE DEF q
    <2> QED
      BY <1>1, <2>1, StartHolds
  <1>3. ASSUME NEW m \in Menus, ClickLazy(m)
        PROVE  FlashEnds'
    <2> DEFINE q == Started(m, focus)
    <2>1. shown # {}
      BY <1>3 DEF ClickLazy
    <2>2. q \in ProcessOf("expand") /\ Set("expand", q) /\ UNCHANGED flash /\ proc["expand"] = {}
      BY <1>1, <1>3, <2>1, StartedIs DEF ClickLazy, ProcessOf
    <2> HIDE DEF q
    <2> QED
      BY <1>1, <2>2, StartHolds
  <1>4. CASE Answered
    <2>1. PICK p \in proc["expand"] :
            /\ p.stage = "answer"
            /\ \/ p.kids /\ Ends("expand") /\ UNCHANGED flash
               \/ /\ ~p.kids
                  /\ proc' = [expand |-> {},
                               click |-> {[Started(p.item, NoWindow) EXCEPT !.tree = p.tree]}]
                  /\ proc["click"] = {} /\ UNCHANGED flash
               \/ /\ Ends("expand")
                  /\ flash' = IF flash = "open" /\ ~ClickCloses THEN "dropped" ELSE flash
      BY <1>4 DEF Answered
    <2>2. proc["expand"] = {p} /\ p \in ExpandProcess
      BY <1>1, Member DEF ProcessOf
    <2>3. CASE p.kids /\ Ends("expand") /\ UNCHANGED flash
      <3>1. ~Holds(p, open, tree)
        BY <2>1, <2>3 DEF Holds
      <3> QED
        BY <1>1, <2>2, <2>3, <3>1, EndHolds
    <2>4. CASE /\ proc' = [expand |-> {},
                            click |-> {[Started(p.item, NoWindow) EXCEPT !.tree = p.tree]}]
               /\ proc["click"] = {} /\ UNCHANGED flash
      <3> DEFINE q == [Started(p.item, NoWindow) EXCEPT !.tree = p.tree]
      <3>1. q.stage = "focus" /\ q.item = p.item /\ q.tree = p.tree
        BY <2>2, AnsweredIs
      <3>2. proc' = [expand |-> {}, click |-> {q}]
        BY <2>4
      <3> HIDE DEF q
      <3>3. proc'["click"] = {q}
        BY <3>2
      <3>4. Holds(p, open, tree) => Closes(q, open, tree)
        BY <3>1 DEF Holds, Closes
      <3> QED
        BY <1>1, <2>2, <2>4, <3>3, <3>4, FlashIs, FlashFrom
    <2>5. CASE /\ Ends("expand")
               /\ flash' = IF flash = "open" /\ ~ClickCloses THEN "dropped" ELSE flash
      <3>1. proc'["click"] = proc["click"]
        BY <1>1, <2>5, EndStep
      <3>2. flash' = "open" => \E r \in proc["click"] : Closes(r, open, tree)
        BY <2>5 DEF ClickCloses, Closes
      <3> QED
        BY <1>1, <3>1, <3>2, FlashFrom
    <2> QED
      BY <2>1, <2>3, <2>4, <2>5
  <1> QED
    BY <1>2, <1>3, <1>4

----------------------------------------------------------------------------
(* The theorems                                                            *)

\* Every step keeps the invariant.
LEMMA Inductive == IInv /\ [Next]_vars => IInv'
  <1> SUFFICES ASSUME TypeOK, SteadyIsFollowed, FlashEnds, [Next]_vars
               PROVE  SteadyIsFollowed' /\ FlashEnds'
    BY TypeStep DEF IInv
  <1>1. CASE UNCHANGED vars
    BY <1>1 DEF vars, appVars, SteadyIsFollowed, FlashEnds, ClickCloses
  <1>2. ASSUME NEW k \in Kinds, ProcessStep(k)
        PROVE  SteadyIsFollowed' /\ FlashEnds'
    BY <1>2, PreFocusKeeps, ProcessKeeps, ProcessHolds DEF ProcessStep
  <1>3. "click" \in Kinds /\ "expand" \in Kinds
    BY DEF Kinds
  <1>4. CASE ClickStep
    BY <1>2, <1>3, <1>4, OthersKeep, ClickActsHolds DEF ClickStep
  <1>5. CASE ExpandStep
    BY <1>2, <1>3, <1>5, OthersKeep, ExpandHolds, WidgetHolds DEF ExpandStep
  <1>6. CASE Next
    BY <1>4, <1>5, <1>6, AppKeeps, TickKeeps, AppHolds, OthersKeep, WidgetHolds DEF Next
  <1> QED
    BY <1>1, <1>6

\* The invariant that says why.
THEOREM Invariant == Spec => []IInv
  <1>1. Init => IInv
    <2> SUFFICES ASSUME Init PROVE IInv
      OBVIOUS
    <2>1. proc["click"] = {} /\ flash = "none"
      BY DEF Init, Kinds
    <2> QED
      BY <2>1, TypeInit DEF IInv, SteadyIsFollowed, FlashEnds
  <1> QED
    BY <1>1, Inductive, PTL DEF Spec

\* A menu that is open only because an expand opened it is going to be closed:
\* by that expand, or by the native click that answers it and is running,
\* unless the widget dropped that click (expand_and_fetch, onStreamFinished).
THEOREM FlashesEnd == Spec => []FlashEnds
  BY Invariant, PTL DEF IInv

\* A row acts in the window that it was captured for, wherever the focus was
\* when the process started: the settle outlasts what the application takes to
\* follow the focus (run_atspi_click, niri_focus_window).
THEOREM ActsInItsWindow == Spec => ActsInCapturedWindow
  <1>1. IInv => \A p \in proc["click"] :
                   p.stage = "act" /\ p.item \in Rows /\ p.steady => TargetOf(p.item) = p.winid
    BY SteadyIs DEF IInv, Followed, TargetOf
  <1>2. IInv /\ [Next]_vars =>
            [\A p \in proc["click"] :
               p.stage = "act" /\ p.item \in Rows /\ p.steady /\ proc'["click"] = {}
                   => TargetOf(p.item) = p.winid]_vars
    BY <1>1
  <1> QED
    BY <1>2, Invariant, PTL DEF Spec, ActsInCapturedWindow

=============================================================================
