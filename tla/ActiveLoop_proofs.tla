------------------------- MODULE ActiveLoop_proofs -------------------------
(***************************************************************************)
(* Proofs about the active loop, for every value of the constants, and     *)
(* about how old its published menus may be (ActiveLoopHistory).           *)
(***************************************************************************)
EXTENDS ActiveLoopHistory, MenuCache_proofs

----------------------------------------------------------------------------
(* The learned-skip set                                                    *)

\* Every TTL is a positive number, so a fresh verdict is always honoured at
\* least once and an old enough one never is.
LEMMA TtlBounds ==
    ASSUME NEW expensive \in BOOLEAN, NEW resolved \in BOOLEAN
    PROVE  TtlFor(expensive, resolved) \in 1..ExpensiveRecheckTtl
  BY SkipTtlAssumption DEF TtlFor

\* learned_skip keeps its map well formed (record_negative).
LEMMA RecordNegativeType ==
    ASSUME NEW s, IsSkipMap(s, Apps), NEW a \in Apps, NEW c \in WalkCost
    PROVE  IsSkipMap(RecordNegative(s, a, c), Apps)
  <1> DEFINE r == RecordNegative(s, a, c)
  <1>1. DOMAIN r = DOMAIN s \cup {a}
    BY DEF RecordNegative
  <1>2. [age |-> 0, expensive |-> ClassifyExpensive(c)] \in Verdict
    BY SkipTtlAssumption, WalkCostAssumption DEF Verdict, ClassifyExpensive, WalkCost
  <1>3. \A x \in DOMAIN s \cup {a} : r[x] \in Verdict
    BY <1>2 DEF RecordNegative, IsSkipMap
  <1>4. r = [x \in DOMAIN r |-> r[x]]
    BY DEF RecordNegative
  <1>5. r \in [DOMAIN r -> Verdict]
    BY <1>1, <1>3, <1>4
  <1> QED
    BY <1>1, <1>5 DEF IsSkipMap

\* learned_skip keeps its map well formed (forget, a restriction of it).
LEMMA ForgetType ==
    ASSUME NEW s, IsSkipMap(s, Apps), NEW a
    PROVE  IsSkipMap(Forget(s, a), Apps)
  BY DEF IsSkipMap, Forget

\* The same of clear_expensive.
LEMMA ClearExpensiveType ==
    ASSUME NEW s, IsSkipMap(s, Apps)
    PROVE  IsSkipMap(ClearExpensive(s), Apps)
  BY DEF IsSkipMap, ClearExpensive

\* learned_skip keeps its map well formed (the passing of time).
LEMMA AgeVerdictsType ==
    ASSUME NEW s, IsSkipMap(s, Apps)
    PROVE  IsSkipMap(AgeVerdicts(s), Apps)
  <1> DEFINE r == AgeVerdicts(s)
  <1>1. DOMAIN r = DOMAIN s
    BY DEF AgeVerdicts
  <1>2. ASSUME NEW a \in DOMAIN s
        PROVE  r[a] \in Verdict
    <2> DEFINE ttl == TtlFor(s[a].expensive, FALSE)
               age == IF s[a].age < ttl THEN s[a].age + 1 ELSE s[a].age
    <2>1. /\ s[a] = [age |-> s[a].age, expensive |-> s[a].expensive]
          /\ s[a].age \in 0..ExpensiveRecheckTtl
          /\ s[a].expensive \in BOOLEAN
      BY DEF IsSkipMap, Verdict
    <2>2. ttl \in 1..ExpensiveRecheckTtl
      BY <2>1, TtlBounds
    <2>3. age \in 0..ExpensiveRecheckTtl
      <3> HIDE DEF ttl
      <3> QED
        BY <2>1, <2>2, SkipTtlAssumption
    <2>4. r[a] = [age |-> age, expensive |-> s[a].expensive]
      BY <2>1 DEF AgeVerdicts
    <2> HIDE DEF age
    <2> QED
      BY <2>1, <2>3, <2>4 DEF Verdict
  <1>3. r = [x \in DOMAIN r |-> r[x]]
    BY DEF AgeVerdicts
  <1> QED
    BY <1>1, <1>2, <1>3 DEF IsSkipMap

----------------------------------------------------------------------------
(* The menu cache                                                          *)

\* Every window has a key of the cache (menu_cache::Key).
LEMMA KeyOfType == ASSUME NEW w \in Windows PROVE KeyOf(w) \in Keys
  BY DEF Keys

----------------------------------------------------------------------------
(* What is published                                                       *)

\* The empty payload is well formed and honest.
LEMMA EmptyBodyType ==
    ASSUME NEW s \in Snapshot
    PROVE  /\ EmptyBody(s) \in Body
           /\ EmptyBody(s).snap = s
           /\ Honest(EmptyBody(s)) /\ OfItsWindow(EmptyBody(s))
  BY DEF EmptyBody, Body, MenuSource, Option, Honest, OfItsWindow

\* The fallback payload of a window is well formed and names that window's
\* own app.
LEMMA FallbackBodyType ==
    ASSUME NEW s \in Windows
    PROVE  /\ FallbackBody(s) \in Body
           /\ FallbackBody(s).snap = s
           /\ Honest(FallbackBody(s)) /\ OfItsWindow(FallbackBody(s))
  <1>1. AppOf[s] \in Apps /\ s # NoWindow /\ s \in Snapshot
    BY WindowAssumption DEF Snapshot
  <1>2. CASE FallbackBody(s) = EmptyBody(s)
    BY <1>1, <1>2, EmptyBodyType
  <1>3. CASE FallbackBody(s) # EmptyBody(s)
    <2> DEFINE m == {[app |-> AppOf[s]]}
    <2>1. DesktopFallback /\ FallbackMenu(s) = m
      BY <1>3 DEF FallbackBody, FallbackMenu
    <2>2. m \in Option(Menu \cup Fallback) /\ m # {}
      BY <1>1 DEF Option, Fallback
    <2>3. FallbackBody(s) = [snap |-> s, source |-> "desktop-fallback", menu |-> m]
      BY <2>1, <2>2 DEF FallbackBody
    <2>4. FallbackBody(s) \in Body
      <3> HIDE DEF m
      <3> QED
        BY <1>1, <2>2, <2>3 DEF Body, MenuSource
    <2>5. /\ FallbackBody(s).snap = s /\ FallbackBody(s).menu = m
          /\ FallbackBody(s).source = "desktop-fallback"
      <3> HIDE DEF m
      <3> QED
        BY <2>3
    <2>6. FallbackBody(s).menu = {[app |-> AppOf[FallbackBody(s).snap]]}
      BY <2>5
    <2> HIDE DEF m
    <2>7. Honest(FallbackBody(s)) /\ OfItsWindow(FallbackBody(s))
      BY <1>1, <2>1, <2>2, <2>5, <2>6 DEF Honest, OfItsWindow
    <2> QED
      BY <2>4, <2>5, <2>7
  <1> QED
    BY <1>2, <1>3

\* The eager payload is well formed, truthful about its source, and never a
\* walked menu.
LEMMA EagerBodyType ==
    ASSUME NEW s \in Snapshot
    PROVE  /\ EagerBody(s) \in Body
           /\ EagerBody(s).snap = s
           /\ Honest(EagerBody(s)) /\ OfItsWindow(EagerBody(s))
  <1>1. CASE Skipped(s)
    <2>1. s \in Windows /\ EagerBody(s) = FallbackBody(s)
      BY <1>1 DEF EagerBody, Skipped, Snapshot
    <2> QED
      BY <2>1, FallbackBodyType
  <1>2. CASE ~Skipped(s)
    BY <1>2, EmptyBodyType DEF EagerBody
  <1> QED
    BY <1>1, <1>2

\* The final payload is well formed and truthful about its source; it is of
\* its window when the menu that the resolution returned is.
LEMMA FinalBodyType ==
    ASSUME NEW s \in Snapshot, NEW menu \in Option(Menu), s = NoWindow => menu = {}
    PROVE  /\ FinalBody(s, menu) \in Body
           /\ FinalBody(s, menu).snap = s
           /\ Honest(FinalBody(s, menu))
           /\ (\A m \in menu : m.for = s) => OfItsWindow(FinalBody(s, menu))
  <1> DEFINE usable == {m \in menu : ~IsLazyUnreadable(m)}
  <1>1. CASE s = NoWindow
    <2>1. FinalBody(s, menu) = EmptyBody(s)
      BY <1>1 DEF FinalBody
    <2> QED
      BY <2>1, EmptyBodyType
  <1>2. CASE s # NoWindow /\ usable = {}
    <2>1. FinalBody(s, menu) = FallbackBody(s) /\ s \in Windows
      BY <1>2 DEF FinalBody, Snapshot
    <2> QED
      BY <2>1, FallbackBodyType
  <1>3. CASE s # NoWindow /\ usable # {}
    <2>1. PICK m \in Menu : menu = {m} /\ usable = {m} /\ ~IsLazyUnreadable(m)
      BY <1>3 DEF Option
    <2>2. m.content \in Readable
      BY <2>1 DEF IsLazyUnreadable, Menu, Contents
    <2>3. FinalBody(s, menu) = [snap |-> s, source |-> "atspi", menu |-> {m}]
      BY <1>3, <2>1 DEF FinalBody
    <2>4. {m} \in Option(Menu \cup Fallback)
      BY <2>1 DEF Option
    <2>5. FinalBody(s, menu) \in Body
      BY <2>3, <2>4 DEF Body, MenuSource
    <2>6. Honest(FinalBody(s, menu))
      BY <1>3, <2>2, <2>3 DEF Honest
    <2>7. (\A x \in menu : x.for = s) => OfItsWindow(FinalBody(s, menu))
      BY <2>1, <2>3 DEF OfItsWindow
    <2> QED
      BY <2>3, <2>5, <2>6, <2>7
  <1> QED
    BY <1>1, <1>2, <1>3

\* Whatever all payloads have in common, write_active_json keeps.
LEMMA WriteKeeps ==
    ASSUME NEW S, NEW body \in S, NEW last \in Option(S),
           file \in Option(S), lastBody \in Option(S), pushed \in Option(S),
           WriteActiveJson(body, last)
    PROVE  file' \in Option(S) /\ lastBody' \in Option(S) /\ pushed' \in Option(S)
  <1>1. {body} \in Option(S) /\ {} \in Option(S)
    BY DEF Option
  <1> QED
    BY <1>1 DEF WriteActiveJson, Written, PushIpcUpdate

----------------------------------------------------------------------------
(* The inductive invariant                                                 *)

\* The three variables that hold payloads, as a statement about one set.
Trusted ==
    /\ file \in Option(TrustedBody)
    /\ lastBody \in Option(TrustedBody)
    /\ pushed \in Option(TrustedBody)

\* Each of the three variables holds at most one payload.
LEMMA TrustedIsTyped ==
    TypeOK /\ Published \subseteq TrustedBody => Trusted
  BY DEF TypeOK, Published, Trusted, Option

\* Trusted variables hold only trusted payloads.
LEMMA TrustedIsPublished ==
    Trusted => /\ Published \subseteq TrustedBody
               /\ file \in Option(Body) /\ lastBody \in Option(Body)
               /\ pushed \in Option(Body)
  BY DEF Published, Trusted, Option, TrustedBody

\* Everything but the payloads.
StateInv ==
    /\ pc \in {"down", "waiting", "publishing", "resolving", "walking", "walked"}
    /\ snap \in Snapshot
    /\ walk \in Walk
    /\ chan \in [val : Snapshot, changed : BOOLEAN]
    /\ kick \in BOOLEAN
    /\ IsSkipMap(skip, Apps)
    /\ resolvedOnce \subseteq Apps
    /\ IsCacheMap(cache, Keys, Menu)
    /\ conn \in {"none", "live", "stale"}
    /\ bus \in {"enabled", "disabled", "gone"}
    /\ exposed \in [Windows -> Contents \cup {Nothing}]
    /\ props \in Option(Snapshot)
    /\ WalkInIteration
    /\ CacheOfItsWindow

\* The invariant in the two parts that the proof treats apart.
LEMMA SplitIInv == IInv <=> StateInv /\ Trusted
  BY TrustedIsTyped, TrustedIsPublished DEF IInv, StateInv, TypeOK

\* An empty cache, skip set and walk are well formed.
LEMMA EmptyTypes ==
    /\ IsSkipMap(<<>>, Apps)
    /\ IsCacheMap(<<>>, Keys, Menu)
    /\ NoWalk \in Walk
    /\ NoWalk.menu = {}
    /\ {} \in Option(Snapshot) /\ {} \in Option(TrustedBody)
  <1>1. IsSkipMap(<<>>, Apps) /\ IsCacheMap(<<>>, Keys, Menu)
    BY DEF IsSkipMap, IsCacheMap
  <1>2. NoWalk \in Walk /\ NoWalk.menu = {}
    BY WalkCostAssumption DEF NoWalk, Walk, Option, WalkCost
  <1> QED
    BY <1>1, <1>2 DEF Option

\* The state before the first start of the bridge satisfies the invariant.
LEMMA InitInv == Init => IInv
  <1> SUFFICES ASSUME Init PROVE StateInv /\ Trusted
    BY SplitIInv
  <1>1. Trusted
    BY EmptyTypes DEF Init, Trusted
  <1>2. WalkInIteration /\ CacheOfItsWindow
    BY EmptyTypes DEF Init, WalkInIteration, CacheOfItsWindow
  <1> QED
    BY <1>1, <1>2, EmptyTypes, FaultAssumption DEF Init, StateInv, Snapshot

\* Two windows never share a cache entry.
LEMMA KeyOfInjective ==
    ASSUME NEW v \in Windows, NEW w \in Windows, KeyOf(v) = KeyOf(w)
    PROVE  v = w
  BY DEF KeyOf

\* The trailing write of an iteration.
LEMMA PublishKeeps ==
    ASSUME StateInv, Trusted, NEW menu \in Option(Menu), Publish(menu),
           \A m \in menu : m.for = snap, snap = NoWindow => menu = {}
    PROVE  Trusted'
  <1>1. FinalBody(snap, menu) \in TrustedBody
    BY FinalBodyType DEF StateInv, TrustedBody
  <1>2. WriteActiveJson(FinalBody(snap, menu), lastBody)
    BY DEF Publish
  <1> QED
    BY <1>1, <1>2, WriteKeeps DEF Trusted

\* The eager write of an iteration, after a change or a kick.
LEMMA BeginKeeps ==
    ASSUME StateInv, Trusted, NEW last \in {{}, lastBody}, Begin(last), kick' \in BOOLEAN
    PROVE  StateInv' /\ Trusted'
  <1>1. EagerBody(chan.val) \in TrustedBody
    BY EagerBodyType DEF StateInv, TrustedBody
  <1>2. Trusted'
    BY <1>1, WriteKeeps DEF Begin, Trusted, Option
  <1>3. WalkInIteration' /\ CacheOfItsWindow'
    BY DEF StateInv, Begin, WalkInIteration, CacheOfItsWindow, cacheVars
  <1>4. chan' \in [val : Snapshot, changed : BOOLEAN] /\ snap' \in Snapshot
    BY DEF StateInv, Begin
  <1> QED
    BY <1>2, <1>3, <1>4 DEF StateInv, Begin, cacheVars, busVars

\* The end of the process, which leaves only the environment's state.
LEMMA DieKeeps ==
    ASSUME StateInv, Trusted, Die
    PROVE  StateInv' /\ Trusted'
  <1>1. Trusted'
    BY EmptyTypes DEF Die, Trusted
  <1>2. WalkInIteration' /\ CacheOfItsWindow'
    BY EmptyTypes DEF Die, WalkInIteration, CacheOfItsWindow
  <1> QED
    BY <1>1, <1>2, EmptyTypes DEF Die, StateInv, Snapshot

\* The end of a walk that returned, with a menu of the window it was made for.
LEMMA WalkEndsKeeps ==
    ASSUME StateInv, Trusted,
           NEW ok \in BOOLEAN, NEW menu \in Option(Menu), NEW cost \in WalkCost,
           WalkEnds(ok, menu, cost), \A m \in menu : m.for = snap
    PROVE  StateInv' /\ Trusted'
  <1>1. walk' \in Walk /\ walk'.menu = menu
    BY DEF WalkEnds, Walk, StateInv
  <1> QED
    BY <1>1
       DEF StateInv, WalkEnds, Trusted, WalkInIteration, CacheOfItsWindow,
           wakeVars, cacheVars, busVars, outVars

\* What follows a walk: what it found is cached under the key of the window it
\* was made for, and teaches a verdict on that window's app.
LEMMA WalkReturnsKeeps ==
    ASSUME StateInv, Trusted, WalkReturns
    PROVE  StateInv' /\ Trusted'
  <1> USE DEF StateInv
  <1>1. snap \in Windows /\ AppOf[snap] \in Apps /\ KeyOf(snap) \in Keys
    BY WindowAssumption, KeyOfType DEF WalkReturns, WalkInIteration, Snapshot
  <1>2. walk.menu \in Option(Menu) /\ walk.cost \in WalkCost
        /\ \A m \in walk.menu : m.for = snap
    BY DEF Walk, WalkInIteration
  <1>3. Trusted'
    BY <1>1, <1>2, PublishKeeps, WindowAssumption DEF WalkReturns
  <1>4. IsCacheMap(cache', Keys, Menu) /\ CacheOfItsWindow'
    <2>1. CASE cache' = cache
      BY <2>1 DEF CacheOfItsWindow
    <2>2. CASE cache' = Put(cache, KeyOf(snap), walk.menu)
      <3>1. IsCacheMap(cache', Keys, Menu)
        BY <1>1, <1>2, <2>2, PutType DEF Option
      <3>2. ASSUME NEW w \in Windows, KeyOf(w) \in DOMAIN cache'
            PROVE  \A m \in cache'[KeyOf(w)].menu : m.for = w
        <4>1. CASE w = snap
          BY <1>2, <2>2, <4>1 DEF Put
        <4>2. CASE w # snap
          <5>1. KeyOf(w) # KeyOf(snap)
            BY <1>1, <4>2, KeyOfInjective
          <5>2. KeyOf(w) \in DOMAIN cache /\ cache'[KeyOf(w)] = cache[KeyOf(w)]
            BY <2>2, <3>2, <5>1 DEF Put
          <5> QED
            BY <5>2 DEF CacheOfItsWindow
        <4> QED
          BY <4>1, <4>2
      <3> QED
        BY <3>1, <3>2 DEF CacheOfItsWindow
    <2> QED
      BY <2>1, <2>2 DEF WalkReturns, cacheVars
  <1>5. IsSkipMap(skip', Apps) /\ resolvedOnce' \subseteq Apps
    <2>1. IsSkipMap(Forget(skip, AppOf[snap]), Apps)
      BY ForgetType
    <2>2. IsSkipMap(RecordNegative(skip, AppOf[snap], walk.cost), Apps)
      BY <1>1, <1>2, RecordNegativeType
    <2> QED
      BY <1>1, <2>1, <2>2 DEF WalkReturns, cacheVars
  <1>6. WalkInIteration'
    BY EmptyTypes DEF WalkReturns, Publish, WalkInIteration
  <1> QED
    BY <1>3, <1>4, <1>5, <1>6, EmptyTypes DEF WalkReturns, Publish, wakeVars, busVars

\* The loop's own steps. Each of them is stated of all of the invariant.
LEMMA LoopKeeps ==
    ASSUME StateInv, Trusted, Loop
    PROVE  StateInv' /\ Trusted'
  <1> USE DEF StateInv
  <1>1. CASE Start
    <2>1. EmptyBody(NoWindow) \in TrustedBody
      BY EmptyBodyType DEF TrustedBody, Snapshot
    <2>2. Trusted'
      BY <1>1, <2>1, WriteKeeps, EmptyTypes DEF Start, Trusted
    <2> QED
      BY <1>1, <2>2 DEF Start, WalkInIteration, CacheOfItsWindow, wakeVars, cacheVars
  <1>2. CASE WakeOnChange
    BY <1>2, BeginKeeps DEF WakeOnChange
  <1>3. CASE WakeOnKick
    BY <1>3, BeginKeeps DEF WakeOnKick
  <1>4. CASE PublishProps
    <2>1. props' \in Option(Snapshot)
      BY <1>4 DEF PublishProps, Option
    <2> QED
      BY <1>4, <2>1
         DEF PublishProps, Trusted, WalkInIteration, CacheOfItsWindow,
             wakeVars, cacheVars, busVars
  <1>5. CASE PublishPropsFails
    BY <1>5, DieKeeps DEF PublishPropsFails
  <1>6. CASE ResolveEmpty
    <2>1. Trusted'
      BY <1>6, PublishKeeps DEF ResolveEmpty, Option
    <2> QED
      BY <1>6, <2>1
         DEF ResolveEmpty, Publish, WalkInIteration, CacheOfItsWindow,
             wakeVars, cacheVars, busVars
  <1>7. CASE ResolveCached
    <2> DEFINE menu == cache[KeyOf(snap)].menu
    <2>1. snap \in Windows /\ KeyOf(snap) \in DOMAIN cache
      BY <1>7 DEF ResolveCached, IsHit, Snapshot
    <2>2. menu \in Option(Menu)
      BY <2>1 DEF IsCacheMap, Entry, Option
    <2>3. \A m \in menu : m.for = snap
      BY <2>1 DEF CacheOfItsWindow
    <2>4. Trusted'
      BY <1>7, <2>2, <2>3, PublishKeeps DEF ResolveCached
    <2> QED
      BY <1>7, <2>4
         DEF ResolveCached, Publish, WalkInIteration, CacheOfItsWindow,
             wakeVars, cacheVars, busVars
  <1>8. CASE StartWalk
    <2>1. walk'.menu = {} /\ conn' \in {"none", "live", "stale"}
      BY <1>8 DEF StartWalk, NoWalk
    <2>2. {exposed[w] : w \in Scope(snap)} \in SUBSET (Contents \cup {Nothing})
      BY <1>8 DEF Scope, StartWalk, Snapshot
    <2>3. walk' \in Walk
      BY <1>8, <2>2, EmptyTypes DEF StartWalk, Walk, NoWalk
    <2> QED
      BY <1>8, <2>1, <2>3
         DEF StartWalk, Trusted, WalkInIteration, CacheOfItsWindow,
             wakeVars, cacheVars, outVars
  <1>9. CASE WalkOutcome \/ WalkTimesOut
    <2>1. 0 \in WalkCost /\ FetchBudget \in WalkCost /\ {} \in Option(Menu)
      BY WalkCostAssumption DEF WalkCost, Option
    <2>2. CASE WalkFinds
      <3>1. snap \in Windows
        BY <2>2 DEF WalkFinds, WalkEnds, WalkInIteration, Snapshot
      <3>2. PICK c \in Contents : WalkEnds(TRUE, {[for |-> snap, content |-> c]}, 0)
        BY <2>2 DEF WalkFinds, Walk, Contents
      <3> DEFINE m == [for |-> snap, content |-> c]
      <3>3. m \in Menu
        BY <3>1 DEF Menu
      <3>4. {m} \in Option(Menu) /\ \A x \in {m} : x.for = snap
        BY <3>3 DEF Option
      <3> QED
        BY <2>1, <3>2, <3>4, WalkEndsKeeps
    <2>3. CASE WalkFindsNothing
      <3>1. PICK cost \in WalkCost : WalkEnds(TRUE, {}, cost)
        BY <2>3 DEF WalkFindsNothing
      <3> QED
        BY <2>1, <3>1, WalkEndsKeeps
    <2>4. CASE WalkFails
      BY <2>1, <2>4, WalkEndsKeeps DEF WalkFails
    <2>5. CASE WalkTimesOut
      BY <2>1, <2>5, WalkEndsKeeps DEF WalkTimesOut
    <2> QED
      BY <1>9, <2>2, <2>3, <2>4, <2>5 DEF WalkOutcome
  <1>10. CASE WalkReturns
    BY <1>10, WalkReturnsKeeps
  <1> QED
    BY <1>1, <1>2, <1>3, <1>4, <1>5, <1>6, <1>7, <1>8, <1>9, <1>10
       DEF Loop, Wake, Resolve

\* The steps of the watcher, of the environment and of time.
LEMMA OthersKeep ==
    ASSUME StateInv, Trusted, WatcherPoll \/ Environment \/ Tick
    PROVE  StateInv' /\ Trusted'
  <1> USE DEF StateInv, WalkInIteration, CacheOfItsWindow,
              vars, loopVars, wakeVars, cacheVars, busVars
  <1>1. CASE WatcherPoll
    BY <1>1, ClearExpensiveType DEF WatcherPoll, Trusted, outVars
  <1>2. ASSUME NEW s \in Snapshot, SendSnapshot(s)
        PROVE  StateInv' /\ Trusted'
    BY <1>2 DEF SendSnapshot, Trusted, outVars
  <1>3. CASE RefreshActive
    BY <1>3 DEF RefreshActive, Trusted, outVars
  <1>4. ASSUME NEW w \in Windows, AppChanges(w)
        PROVE  StateInv' /\ Trusted'
    <2>1. PICK c \in Contents \cup {Nothing} :
             /\ exposed' = [exposed EXCEPT ![w] = c]
             /\ walk' = walk \/ walk' = [walk EXCEPT !.reads = @ \cup {c}]
      BY <1>4 DEF AppChanges
    <2>2. walk' \in Walk /\ walk'.menu = walk.menu
      BY <2>1 DEF Walk
    <2> QED
      BY <1>4, <2>1, <2>2 DEF AppChanges, Trusted, outVars
  <1>5. CASE BusDies
    <2>1. walk' \in Walk /\ walk'.menu = walk.menu
      BY <1>5 DEF BusDies, Walk
    <2>2. conn' \in {"none", "live", "stale"}
      BY <1>5 DEF BusDies
    <2> QED
      BY <1>5, <2>1, <2>2 DEF BusDies, Trusted, outVars
  <1>6. CASE BusReturns
    BY <1>6, FaultAssumption DEF BusReturns, Trusted, outVars
  <1>7. CASE Crash
    BY <1>7, DieKeeps DEF Crash
  <1>8. CASE Tick
    <2>1. walk' \in Walk /\ walk'.menu = walk.menu
      BY <1>8 DEF Tick, Walk
    <2>2. IsSkipMap(skip', Apps)
      BY <1>8, AgeVerdictsType DEF Tick
    <2>3. IsCacheMap(cache', Keys, Menu)
      BY <1>8, AgeEntriesType DEF Tick
    <2>4. DOMAIN cache' = DOMAIN cache
          /\ \A k \in DOMAIN cache : cache'[k].menu = cache[k].menu
      BY <1>8, AgeEntriesKeepMenus DEF Tick
    <2> QED
      BY <1>8, <2>1, <2>2, <2>3, <2>4 DEF Tick, Trusted, outVars
  <1> QED
    BY <1>1, <1>2, <1>3, <1>4, <1>5, <1>6, <1>7, <1>8 DEF Environment

\* Every step keeps the invariant.
THEOREM Inductive == IInv /\ [Next]_vars => IInv'
  <1> SUFFICES ASSUME StateInv, Trusted, [Next]_vars
               PROVE  StateInv' /\ Trusted'
    BY SplitIInv, PTL
  <1>1. CASE UNCHANGED vars
    BY <1>1 DEF StateInv, Trusted, WalkInIteration, CacheOfItsWindow,
                vars, loopVars, wakeVars, cacheVars, busVars, outVars
  <1> QED
    BY <1>1, LoopKeeps, OthersKeep DEF Next

\* The inductive invariant holds in every reachable state.
THEOREM InvHolds == Spec => []IInv
  BY InitInv, Inductive, PTL DEF Spec

\* Types of the variables, for every reachable state and every value of the
\* constants.
THEOREM TypeCorrect == Spec => []TypeOK
  <1>1. IInv => TypeOK
    BY DEF IInv
  <1> QED
    BY <1>1, InvHolds, PTL

\* No menu is ever attributed to another window than the one it was walked
\* for (ADR-0030), however many windows, processes and faults.
THEOREM MenusAreOfTheirWindow == Spec => []MenuOfItsWindow
  <1>1. IInv => MenuOfItsWindow
    BY DEF IInv, MenuOfItsWindow, TrustedBody
  <1> QED
    BY <1>1, InvHolds, PTL

\* Every published payload is honest about where its menu comes from (ADR-0031,
\* ADR-0035).
THEOREM ProvenanceIsHonest == Spec => []ProvenanceHonest
  <1>1. IInv => ProvenanceHonest
    BY DEF IInv, ProvenanceHonest, TrustedBody
  <1> QED
    BY <1>1, InvHolds, PTL

----------------------------------------------------------------------------
(* The sentinel and the file                                               *)

\* last_body becomes only what has just been written in full, for every step
\* of the system (write_active_json sets it in the success branch alone).
THEOREM SentinelIsWritten == Spec => SentinelFollowsFile
  <1>1. ASSUME [Next]_vars
        PROVE  lastBody' \notin {lastBody, {}} => file' = lastBody'
    <2>1. ASSUME NEW body, NEW last \in {lastBody, {}}, WriteActiveJson(body, last)
          PROVE  lastBody' \notin {lastBody, {}} => file' = lastBody'
      BY <2>1 DEF WriteActiveJson, Written
    <2>2. CASE Start
      BY <2>1, <2>2 DEF Start
    <2>3. CASE Wake
      BY <2>1, <2>3 DEF Wake, WakeOnChange, WakeOnKick, Begin
    <2>4. CASE ResolveEmpty \/ ResolveCached \/ WalkReturns
      BY <2>1, <2>4 DEF ResolveEmpty, ResolveCached, WalkReturns, Publish
    <2>5. CASE StartWalk \/ PublishProps \/ WalkOutcome \/ WalkTimesOut
      BY <2>5
         DEF StartWalk, PublishProps, WalkOutcome, WalkTimesOut, WalkFinds,
             WalkFindsNothing, WalkFails, WalkEnds, outVars
    <2>6. CASE PublishPropsFails \/ Crash
      BY <2>6 DEF PublishPropsFails, Crash, Die
    <2>7. CASE Environment /\ ~Crash
      BY <2>7
         DEF Environment, SendSnapshot, RefreshActive, AppChanges, BusDies,
             BusReturns, outVars
    <2>8. CASE WatcherPoll \/ Tick \/ UNCHANGED vars
      BY <2>8 DEF WatcherPoll, Tick, vars, outVars
    <2> QED
      BY <1>1, <2>2, <2>3, <2>4, <2>5, <2>6, <2>7, <2>8 DEF Next, Loop, Resolve
  <1> QED
    BY <1>1, PTL DEF Spec, SentinelFollowsFile

----------------------------------------------------------------------------
(* What a settled loop has published                                       *)

\* A write that cannot fail leaves its payload in last_body.
LEMMA WriteSettles ==
    ASSUME "disk" \notin Faults, NEW body, NEW last, WriteActiveJson(body, last)
    PROVE  lastBody' = {body}
  BY DEF WriteActiveJson, Written

\* A payload is about the snapshot it was built from.
LEMMA BodiesAreOfTheirSnapshot ==
    ASSUME NEW s, NEW menu
    PROVE  EagerBody(s).snap = s /\ FinalBody(s, menu).snap = s
  <1>1. EmptyBody(s).snap = s
    BY DEF EmptyBody
  <1>2. FallbackBody(s).snap = s
    BY <1>1 DEF FallbackBody
  <1> QED
    BY <1>1, <1>2 DEF EagerBody, FinalBody

\* The trailing write of an iteration leaves a payload of its snapshot.
LEMMA PublishSettles ==
    ASSUME "disk" \notin Faults, NEW menu, Publish(menu), snap' = snap
    PROVE  \E b \in lastBody' : b.snap = snap'
  BY WriteSettles, BodiesAreOfTheirSnapshot DEF Publish

\* An iteration begins with a payload of the latest snapshot.
LEMMA BeginSettles ==
    ASSUME "disk" \notin Faults, NEW last, Begin(last), TypeOK
    PROVE  CurrentInv'
  <1>1. lastBody' = {EagerBody(chan.val)} /\ snap' = chan.val /\ chan'.val = chan.val
    BY WriteSettles DEF Begin, TypeOK
  <1> QED
    BY <1>1, BodiesAreOfTheirSnapshot DEF Begin, CurrentInv

\* Every step keeps the invariant, if no write fails.
LEMMA CurrentInductive ==
    ASSUME "disk" \notin Faults, TypeOK, CurrentInv, [Next]_vars
    PROVE  CurrentInv'
  <1> USE DEF CurrentInv
  <1>1. CASE Start
    <2>1. lastBody' = {EmptyBody(NoWindow)}
      BY <1>1, WriteSettles DEF Start
    <2> QED
      BY <1>1, <2>1 DEF Start, EmptyBody, wakeVars
  <1>2. CASE Wake
    BY <1>2, BeginSettles DEF Wake, WakeOnChange, WakeOnKick
  <1>3. CASE PublishProps
    BY <1>3 DEF PublishProps, wakeVars
  <1>4. CASE PublishPropsFails \/ Crash
    BY <1>4 DEF PublishPropsFails, Crash, Die
  <1>5. CASE ResolveEmpty
    BY <1>5, PublishSettles DEF ResolveEmpty, Publish, wakeVars
  <1>6. CASE ResolveCached
    BY <1>6, PublishSettles DEF ResolveCached, Publish, wakeVars
  <1>7. CASE WalkReturns
    BY <1>7, PublishSettles DEF WalkReturns, Publish, wakeVars
  <1>8. CASE StartWalk \/ WalkOutcome \/ WalkTimesOut
    BY <1>8
       DEF StartWalk, WalkOutcome, WalkTimesOut, WalkFinds, WalkFindsNothing,
           WalkFails, WalkEnds, wakeVars, outVars
  <1>9. CASE \E s \in Snapshot : SendSnapshot(s)
    BY <1>9 DEF SendSnapshot, loopVars, outVars
  <1>10. CASE RefreshActive \/ BusDies \/ BusReturns \/ WatcherPoll \/ Tick
    BY <1>10
       DEF RefreshActive, BusDies, BusReturns, WatcherPoll, Tick,
           loopVars, wakeVars, outVars
  <1>11. CASE \E w \in Windows : AppChanges(w)
    BY <1>11 DEF AppChanges, loopVars, wakeVars, outVars
  <1>12. CASE UNCHANGED vars
    BY <1>12 DEF vars, loopVars, wakeVars, outVars
  <1> QED
    BY <1>1, <1>2, <1>3, <1>4, <1>5, <1>6, <1>7, <1>8, <1>9, <1>10, <1>11, <1>12
       DEF Next, Loop, Resolve, Environment

\* A loop at rest has published the latest focus, in the payload and on the
\* D-Bus object alike, as long as writes of active.json succeed.
THEOREM SettledLoopIsCurrent ==
    ASSUME "disk" \notin Faults
    PROVE  Spec => []SettledIsCurrent
  <1>1. Init => CurrentInv
    BY DEF Init, CurrentInv
  <1>2. TypeOK /\ CurrentInv /\ [Next]_vars => CurrentInv'
    BY CurrentInductive
  <1>3. CurrentInv => SettledIsCurrent
    BY DEF CurrentInv, SettledIsCurrent
  <1> QED
    BY <1>1, <1>2, <1>3, TypeCorrect, PTL DEF Spec

----------------------------------------------------------------------------
(* The history variables follow the loop                                   *)

\* The history variables restrict nothing: each of their steps is one of the
\* active loop.
LEMMA HistoryFollows == [NextHistory]_histVars => [Next]_vars
  <1>1. NextHistory => Next
    BY DEF NextHistory, Next, Loop, Environment
  <1> QED
    BY <1>1 DEF histVars

\* So whatever holds of the active loop holds with its history.
LEMMA HistoryImplements == SpecHistory => Spec
  <1>1. InitHistory => Init
    BY DEF InitHistory
  <1> QED
    BY <1>1, HistoryFollows, PTL DEF SpecHistory, Spec

GoneType == gone \in [Windows -> [Readable -> 0..GoneMax]]

\* A step that takes no time makes no menu older, and one that is exposed
\* after it counts as exposed now.
LEMMA KeepGoneFacts ==
    ASSUME GoneType, KeepGone
    PROVE  /\ GoneType'
           /\ \A w \in Windows, c \in Readable :
                 /\ gone[w][c] \in Nat /\ gone'[w][c] \in Nat
                 /\ gone'[w][c] <= gone[w][c]
                 /\ exposed'[w] = c => gone'[w][c] = 0
  <1>1. MenuCacheTtl \in Nat /\ GoneMax \in Nat
    BY MenuCacheTtlAssumption DEF GoneMax
  <1>2. ASSUME NEW w \in Windows, NEW c \in Readable
        PROVE  /\ gone[w][c] \in 0..GoneMax
               /\ gone'[w][c] = IF exposed'[w] = c THEN 0 ELSE gone[w][c]
    BY DEF GoneType, KeepGone
  <1>3. GoneType'
    BY <1>1, <1>2 DEF GoneType, KeepGone
  <1> QED
    BY <1>1, <1>2, <1>3

\* A tick makes a menu older by one tick at most.
LEMMA AgeGoneFacts ==
    ASSUME GoneType, AgeGone
    PROVE  /\ GoneType'
           /\ \A w \in Windows, c \in Readable :
                 /\ gone[w][c] \in Nat /\ gone'[w][c] \in Nat
                 /\ gone'[w][c] <= gone[w][c] + 1
  <1>1. MenuCacheTtl \in Nat /\ GoneMax \in Nat
    BY MenuCacheTtlAssumption DEF GoneMax
  <1>2. ASSUME NEW w \in Windows, NEW c \in Readable
        PROVE  /\ gone[w][c] \in 0..GoneMax
               /\ gone'[w][c] = IF exposed'[w] = c THEN 0
                                ELSE IF gone[w][c] < GoneMax THEN gone[w][c] + 1
                                ELSE gone[w][c]
    BY DEF GoneType, AgeGone
  <1>3. \A w \in Windows, c \in Readable : gone'[w][c] \in 0..GoneMax
    BY <1>1, <1>2
  <1>4. GoneType'
    BY <1>2, <1>3 DEF GoneType, AgeGone
  <1> QED
    BY <1>1, <1>2, <1>4

\* What a cached or a walked menu is, as far as its age is concerned.
LEMMA MenusOfState ==
    ASSUME IInv
    PROVE  /\ \A w \in Windows : KeyOf(w) \in DOMAIN cache =>
                 /\ cache[KeyOf(w)].age \in Nat
                 /\ \A m \in cache[KeyOf(w)].menu : m \in Menu
           /\ \A m \in walk.menu : m \in Menu /\ snap \in Windows /\ pc = "walked"
  <1>1. TypeOK /\ WalkInIteration
    BY DEF IInv
  <1>2. ASSUME NEW w \in Windows, KeyOf(w) \in DOMAIN cache
        PROVE  /\ cache[KeyOf(w)].age \in Nat
               /\ \A m \in cache[KeyOf(w)].menu : m \in Menu
    <2>1. cache[KeyOf(w)] \in Entry(Menu)
      BY <1>1, <1>2 DEF TypeOK, IsCacheMap
    <2> QED
      BY <2>1, MenuCacheTtlAssumption DEF Entry
  <1>3. \A m \in walk.menu : m \in Menu
    BY <1>1 DEF TypeOK, Walk, Option
  <1>4. \A m \in walk.menu : snap \in Windows /\ pc = "walked"
    BY <1>1 DEF TypeOK, WalkInIteration, Snapshot
  <1> QED
    BY <1>2, <1>3, <1>4

\* ExposedWithin in the state after a step.
ExposedAfter(w, c, n) == \E x \in Scope(w) : gone'[x][c] <= n

\* A menu that a walk for a window could have read stays that old while no
\* time passes, and a tick makes it one tick older at most.
LEMMA ExposedFacts ==
    ASSUME GoneType, NEW w \in Windows, NEW c \in Readable, NEW n \in Nat,
           ExposedWithin(w, c, n)
    PROVE  /\ KeepGone => ExposedAfter(w, c, n)
           /\ AgeGone => ExposedAfter(w, c, n + 1)
           /\ \A k \in Nat : n <= k => ExposedWithin(w, c, k)
  <1>1. PICK x \in Scope(w) : gone[x][c] <= n
    BY DEF ExposedWithin
  <1>2. x \in Windows /\ gone[x][c] \in Nat
    BY MenuCacheTtlAssumption DEF GoneType, GoneMax, Scope
  <1>3. ASSUME KeepGone PROVE gone'[x][c] <= n
    BY <1>1, <1>2, <1>3, KeepGoneFacts
  <1>4. ASSUME AgeGone PROVE gone'[x][c] <= n + 1
    BY <1>1, <1>2, <1>4, AgeGoneFacts
  <1>5. \A k \in Nat : n <= k => gone[x][c] <= k
    BY <1>1, <1>2
  <1> QED
    BY <1>1, <1>3, <1>4, <1>5 DEF ExposedWithin, ExposedAfter, Scope

\* What a window exposes after a step could have been read then.
LEMMA ExposedNow ==
    ASSUME GoneType, KeepGone, NEW w \in Windows, NEW x \in Scope(w),
           exposed'[x] \in Readable
    PROVE  ExposedAfter(w, exposed'[x], 0)
  <1>1. x \in Windows
    BY DEF Scope
  <1>2. gone'[x][exposed'[x]] = 0
    BY <1>1, KeepGoneFacts
  <1> QED
    BY <1>2 DEF ExposedWithin, ExposedAfter, Scope

\* A step that takes no time and leaves the cache alone.
LEMMA CacheStaysRecent ==
    ASSUME IInv, GoneType, CacheIsRecent, KeepGone, cache' = cache
    PROVE  CacheIsRecent'
  <1> SUFFICES ASSUME NEW w \in Windows, IsHit(cache, KeyOf(w)),
                      NEW m \in cache[KeyOf(w)].menu, m.content \in Readable
               PROVE  ExposedAfter(w, m.content, cache[KeyOf(w)].age + 1)
    BY DEF CacheIsRecent, KeyOf, IsHit, ExposedWithin, ExposedAfter, Scope
  <1>1. ExposedWithin(w, m.content, cache[KeyOf(w)].age + 1)
    BY DEF CacheIsRecent
  <1>2. cache[KeyOf(w)].age + 1 \in Nat
    BY MenusOfState DEF IsHit
  <1> DEFINE n == cache[KeyOf(w)].age + 1
  <1>3. n' = n
    OBVIOUS
  <1> HIDE DEF n
  <1> QED
    BY <1>1, <1>2, <1>3, ExposedFacts DEF n

\* A step that takes no time and drops the walk or leaves what it read and
\* found alone.
LEMMA WalkStaysRecent ==
    ASSUME IInv, GoneType, ReadsAreRecent, WalkIsRecent, KeepGone, snap' = snap,
           walk'.menu = {} \/ walk'.menu = walk.menu,
           walk'.reads = {} \/ (walk'.reads = walk.reads /\ walk'.ticked = walk.ticked /\ pc' = pc)
    PROVE  ReadsAreRecent' /\ WalkIsRecent'
  <1>1. WalkIsRecent'
    <2> SUFFICES ASSUME NEW m \in walk.menu, m.content \in Readable
                 PROVE  ExposedAfter(snap, m.content, 1)
      BY DEF WalkIsRecent, ExposedWithin, ExposedAfter, Scope
    <2> QED
      BY MenusOfState, ExposedFacts DEF WalkIsRecent
  <1>2. ReadsAreRecent'
    <2> SUFFICES ASSUME NEW c \in walk.reads \cap Readable,
                        walk'.ticked = walk.ticked, pc' = pc
                 PROVE  pc = "walking" /\ ExposedAfter(snap, c, IF walk.ticked THEN 1 ELSE 0)
      BY DEF ReadsAreRecent, ExposedWithin, ExposedAfter, Scope
    <2>1. pc = "walking" /\ snap \in Windows
      BY DEF ReadsAreRecent, IInv, TypeOK, WalkInIteration, Snapshot
    <2>2. ExposedWithin(snap, c, IF walk.ticked THEN 1 ELSE 0)
      BY DEF ReadsAreRecent
    <2> QED
      BY <2>1, <2>2, ExposedFacts
  <1> QED
    BY <1>1, <1>2

\* A walk is cached in the iteration that ran it.
LEMMA PutStaysRecent ==
    ASSUME IInv, GoneType, CacheIsRecent, WalkIsRecent, KeepGone, snap \in Windows,
           cache' = Put(cache, KeyOf(snap), walk.menu)
    PROVE  CacheIsRecent'
  <1> SUFFICES ASSUME NEW w \in Windows, IsHit(cache, KeyOf(w))',
                      NEW m \in cache'[KeyOf(w)].menu, m.content \in Readable
               PROVE  ExposedAfter(w, m.content, cache'[KeyOf(w)].age + 1)
    BY DEF CacheIsRecent, KeyOf, ExposedWithin, ExposedAfter, Scope
  <1>1. CASE w = snap
    <2>1. cache'[KeyOf(w)] = [menu |-> walk.menu, age |-> 0]
      BY <1>1 DEF Put
    <2>2. m \in walk.menu /\ cache'[KeyOf(w)].age = 0
      BY <2>1
    <2>3. ExposedWithin(w, m.content, 1)
      BY <1>1, <2>2 DEF WalkIsRecent
    <2>4. ExposedAfter(w, m.content, 1)
      BY <2>3, ExposedFacts
    <2> QED
      BY <2>2, <2>4
  <1>2. CASE w # snap
    <2>1. KeyOf(w) # KeyOf(snap)
      BY <1>2, KeyOfInjective
    <2>2. KeyOf(w) \in DOMAIN cache /\ cache'[KeyOf(w)] = cache[KeyOf(w)]
      BY <2>1 DEF Put, IsHit
    <2>3. IsHit(cache, KeyOf(w)) /\ m \in cache[KeyOf(w)].menu
      BY <2>2 DEF IsHit, KeyOf
    <2> DEFINE n == cache[KeyOf(w)].age + 1
    <2>4. ExposedWithin(w, m.content, n) /\ n \in Nat
      BY <2>2, <2>3, MenusOfState DEF CacheIsRecent
    <2>5. cache'[KeyOf(w)].age + 1 = n
      BY <2>2
    <2> HIDE DEF n
    <2>6. ExposedAfter(w, m.content, n)
      BY <2>4, ExposedFacts
    <2> QED
      BY <2>5, <2>6 DEF ExposedWithin, ExposedAfter, Scope
  <1> QED
    BY <1>1, <1>2

\* A tick makes an entry and what it holds older alike.
LEMMA AgingStaysRecent ==
    ASSUME IInv, GoneType, CacheIsRecent, AgeGone, cache' = AgeEntries(cache)
    PROVE  CacheIsRecent'
  <1> SUFFICES ASSUME NEW w \in Windows, IsHit(cache', KeyOf(w)),
                      NEW m \in cache'[KeyOf(w)].menu, m.content \in Readable
               PROVE  ExposedAfter(w, m.content, cache'[KeyOf(w)].age + 1)
    BY DEF CacheIsRecent, KeyOf, ExposedWithin, ExposedAfter, Scope
  <1> DEFINE e == cache[KeyOf(w)]
  <1>1. KeyOf(w) \in DOMAIN cache
    BY DEF IsHit, AgeEntries
  <1>2. e.age \in Nat /\ e = [menu |-> e.menu, age |-> e.age]
    <2>1. e \in Entry(Menu)
      BY <1>1 DEF IInv, TypeOK, IsCacheMap
    <2> QED
      BY <2>1, MenuCacheTtlAssumption DEF Entry
  <1>3. /\ cache'[KeyOf(w)].age = IF e.age <= MenuCacheTtl THEN e.age + 1 ELSE e.age
        /\ cache'[KeyOf(w)].menu = e.menu
    BY <1>1, <1>2 DEF AgeEntries
  <1>4. ~(cache'[KeyOf(w)].age > MenuCacheTtl)
    BY DEF IsHit, IsFresh
  <1> HIDE DEF e
  <1>5. cache'[KeyOf(w)].age = e.age + 1 /\ ~(e.age > MenuCacheTtl) /\ m \in e.menu
    BY <1>2, <1>3, <1>4, MenuCacheTtlAssumption
  <1>6. ExposedWithin(w, m.content, e.age + 1)
    BY <1>1, <1>5 DEF CacheIsRecent, IsHit, IsFresh, e
  <1>7. e.age + 1 \in Nat
    BY <1>2
  <1>8. ExposedAfter(w, m.content, (e.age + 1) + 1)
    BY <1>6, <1>7, ExposedFacts
  <1> QED
    BY <1>5, <1>8 DEF ExposedWithin, ExposedAfter, Scope

\* The type and the ages of the history variable.
HistoryInv ==
    /\ GoneType
    /\ CacheIsRecent
    /\ ReadsAreRecent
    /\ WalkIsRecent

\* The invariant in the two parts that the proof treats apart.
LEMMA SplitIInvHistory == IInvHistory <=> IInv /\ HistoryInv
  BY DEF IInvHistory, HistoryInv, TypeOKHistory, GoneType, IInv

\* Nothing has been cached or read at the start.
LEMMA InitHistoryInv == InitHistory => HistoryInv
  <1> SUFFICES ASSUME InitHistory PROVE HistoryInv
    OBVIOUS
  <1>1. GoneMax \in Nat
    BY MenuCacheTtlAssumption DEF GoneMax
  <1>2. GoneType
    BY <1>1 DEF InitHistory, GoneType
  <1>3. CacheIsRecent /\ ReadsAreRecent /\ WalkIsRecent
    BY DEF InitHistory, Init, NoWalk, CacheIsRecent, ReadsAreRecent, WalkIsRecent, IsHit
  <1> QED
    BY <1>2, <1>3 DEF HistoryInv

\* A step that leaves the cache, and the walk and its window, alone.
LEMMA QuietHistoryKeeps ==
    ASSUME IInv, HistoryInv, KeepGone, cache' = cache, snap' = snap,
           walk'.menu = {} \/ walk'.menu = walk.menu,
           walk'.reads = {} \/ (walk'.reads = walk.reads /\ walk'.ticked = walk.ticked /\ pc' = pc)
    PROVE  HistoryInv'
  BY CacheStaysRecent, WalkStaysRecent, KeepGoneFacts DEF HistoryInv

\* No walk is in progress, or has been, once the step is done.
LEMMA NoWalkHistoryKeeps ==
    ASSUME IInv, HistoryInv, KeepGone, CacheIsRecent', walk'.menu = {}, walk'.reads = {}
    PROVE  HistoryInv'
  BY KeepGoneFacts DEF HistoryInv, ReadsAreRecent, WalkIsRecent

\* Outside of a walk nothing has been read or found.
LEMMA IdleWalk ==
    ASSUME IInv, ReadsAreRecent, pc \notin {"walking", "walked"}
    PROVE  walk.menu = {} /\ walk.reads \cap Readable = {}
  BY DEF IInv, WalkInIteration, ReadsAreRecent

\* A walk starts with what the windows in its scope expose.
LEMMA StartWalkHistoryKeeps ==
    ASSUME IInv, HistoryInv, KeepGone, StartWalk
    PROVE  HistoryInv'
  <1>1. snap \in Windows /\ snap' = snap /\ exposed' = exposed /\ cache' = cache
    BY DEF IInv, TypeOK, StartWalk, Snapshot, cacheVars
  <1>2. walk'.menu = {} /\ ~walk'.ticked /\ pc' = "walking"
        /\ walk'.reads \subseteq {exposed[x] : x \in Scope(snap)}
    BY DEF StartWalk, NoWalk
  <1>3. ASSUME NEW c \in walk'.reads \cap Readable
        PROVE  ExposedAfter(snap, c, 0)
    <2>1. PICK x \in Scope(snap) : c = exposed'[x]
      BY <1>1, <1>2
    <2> QED
      BY <1>1, <2>1, ExposedNow DEF HistoryInv
  <1>4. ReadsAreRecent' /\ WalkIsRecent'
    BY <1>1, <1>2, <1>3 DEF ReadsAreRecent, WalkIsRecent, ExposedWithin, ExposedAfter, Scope
  <1> QED
    BY <1>1, <1>4, CacheStaysRecent, KeepGoneFacts DEF HistoryInv

\* A menu that appears under a walk may be read by it.
LEMMA AppChangesHistoryKeeps ==
    ASSUME IInv, HistoryInv, KeepGone, NEW w \in Windows, AppChanges(w)
    PROVE  HistoryInv'
  <1>1. PICK c \in (Contents \cup {Nothing}) \ {exposed[w]} :
           /\ exposed' = [exposed EXCEPT ![w] = c]
           /\ walk' = IF pc = "walking" /\ walk.link = "live" /\ w \in Scope(snap)
                      THEN [walk EXCEPT !.reads = @ \cup {c}] ELSE walk
    BY DEF AppChanges
  <1>2. snap' = snap /\ pc' = pc /\ cache' = cache
    BY DEF AppChanges, cacheVars
  <1>3. CASE walk' = walk
    BY <1>2, <1>3, QuietHistoryKeeps
  <1>4. CASE walk' # walk
    <2>1. pc = "walking" /\ w \in Scope(snap) /\ walk' = [walk EXCEPT !.reads = @ \cup {c}]
      BY <1>1, <1>4
    <2>2. snap \in Windows /\ exposed'[w] = c /\ walk \in Walk
      BY <1>1, <2>1 DEF IInv, TypeOK, WalkInIteration, Snapshot
    <2>3. walk'.menu = walk.menu /\ walk'.ticked = walk.ticked
          /\ walk'.reads = walk.reads \cup {c}
      BY <2>1, <2>2 DEF Walk
    <2> DEFINE n == IF walk.ticked THEN 1 ELSE 0
    <2>4. n \in Nat /\ n' = n
      BY <2>3
    <2>5. ASSUME NEW d \in walk'.reads \cap Readable
          PROVE  ExposedAfter(snap, d, n)
      <3>1. CASE d = c
        <4>1. gone'[w][c] = 0
          BY <2>2, <2>5, <3>1, KeepGoneFacts DEF HistoryInv
        <4> QED
          BY <2>1, <3>1, <4>1 DEF ExposedAfter
      <3>2. CASE d \in walk.reads
        <4>1. ExposedWithin(snap, d, n)
          BY <2>5, <3>2 DEF HistoryInv, ReadsAreRecent
        <4>2. d \in Readable /\ GoneType
          BY <2>5 DEF HistoryInv
        <4> HIDE DEF n
        <4> QED
          BY <2>2, <2>4, <4>1, <4>2, ExposedFacts
      <3> QED
        BY <2>3, <2>5, <3>1, <3>2
    <2>6. ReadsAreRecent'
      BY <1>2, <2>1, <2>3, <2>5 DEF ReadsAreRecent, ExposedWithin, ExposedAfter, Scope
    <2>7. WalkIsRecent'
      BY <2>1, <2>3 DEF IInv, WalkInIteration, WalkIsRecent
    <2> QED
      BY <1>2, <2>6, <2>7, CacheStaysRecent, KeepGoneFacts DEF HistoryInv
  <1> QED
    BY <1>3, <1>4

\* A walk that finds a menu has read it, or a part of it that is not readable.
LEMMA WalkFindsHistoryKeeps ==
    ASSUME IInv, HistoryInv, KeepGone, WalkFinds
    PROVE  HistoryInv'
  <1>1. snap \in Windows /\ walk \in Walk
    BY DEF IInv, TypeOK, WalkInIteration, WalkFinds, WalkEnds, Snapshot
  <1>2. PICK c \in walk.reads \ {Nothing}, content \in Contents :
           /\ content = c \/ content \in Lazy
           /\ WalkEnds(TRUE, {[for |-> snap, content |-> content]}, 0)
    BY <1>1 DEF WalkFinds, Walk, Contents
  <1>3. snap' = snap /\ cache' = cache
    BY <1>2 DEF WalkEnds, cacheVars
  <1>4. walk'.menu = {[for |-> snap, content |-> content]} /\ walk'.reads = {}
    BY <1>1, <1>2 DEF WalkEnds, Walk
  <1>5. ASSUME content \in Readable
        PROVE  ExposedAfter(snap, content, 1)
    <2>1. content = c
      BY <1>2, <1>5, WindowAssumption
    <2>2. ExposedWithin(snap, c, IF walk.ticked THEN 1 ELSE 0)
      BY <1>5, <2>1 DEF HistoryInv, ReadsAreRecent
    <2>3. ExposedWithin(snap, c, 1)
      BY <1>1, <1>5, <2>1, <2>2, ExposedFacts DEF HistoryInv
    <2> QED
      BY <1>1, <1>5, <2>1, <2>3, ExposedFacts DEF HistoryInv
  <1>6. ReadsAreRecent' /\ WalkIsRecent'
    BY <1>3, <1>4, <1>5 DEF ReadsAreRecent, WalkIsRecent, ExposedWithin, ExposedAfter, Scope
  <1> QED
    BY <1>3, <1>6, CacheStaysRecent, KeepGoneFacts DEF HistoryInv

\* A tick may pass under a walk, once.
LEMMA TickHistoryKeeps ==
    ASSUME IInv, HistoryInv, AgeGone, Tick
    PROVE  HistoryInv'
  <1>1. walk \in Walk /\ snap' = snap /\ pc' = pc /\ pc # "walked"
    BY DEF IInv, TypeOK, Tick
  <1>2. walk'.menu = {} /\ walk'.reads = walk.reads
        /\ walk'.ticked = (pc = "walking")
    BY <1>1 DEF Tick, Walk, IInv, WalkInIteration
  <1>3. ASSUME NEW c \in walk.reads \cap Readable
        PROVE  pc = "walking" /\ ExposedAfter(snap, c, 1)
    <2>1. pc = "walking" /\ ~walk.ticked /\ snap \in Windows
      BY <1>3 DEF HistoryInv, ReadsAreRecent, Tick, IInv, TypeOK, WalkInIteration, Snapshot
    <2>2. ExposedWithin(snap, c, 0)
      BY <1>3, <2>1 DEF HistoryInv, ReadsAreRecent
    <2>3. ExposedAfter(snap, c, 0 + 1)
      BY <1>3, <2>1, <2>2, ExposedFacts DEF HistoryInv
    <2> QED
      BY <2>1, <2>3
  <1>4. ReadsAreRecent' /\ WalkIsRecent'
    BY <1>1, <1>2, <1>3 DEF ReadsAreRecent, WalkIsRecent, ExposedWithin, ExposedAfter, Scope
  <1>5. CacheIsRecent'
    BY AgingStaysRecent DEF HistoryInv, Tick
  <1> QED
    BY <1>4, <1>5, AgeGoneFacts DEF HistoryInv

\* Every step keeps the invariant.
LEMMA HistoryInductive ==
    ASSUME IInv, HistoryInv, [NextHistory]_histVars
    PROVE  HistoryInv'
  <1>1. TypeOK /\ WalkInIteration /\ walk \in Walk
    BY DEF IInv, TypeOK
  <1>2. CASE WalkFinds /\ KeepGone
    BY <1>2, WalkFindsHistoryKeeps
  <1>3. CASE (WalkFindsNothing \/ WalkFails \/ WalkTimesOut) /\ KeepGone
    <2>1. walk'.menu = {} /\ walk'.reads = {} /\ snap' = snap /\ cache' = cache
      BY <1>1, <1>3 DEF WalkFindsNothing, WalkFails, WalkTimesOut, WalkEnds, Walk, cacheVars
    <2> QED
      BY <1>3, <2>1, QuietHistoryKeeps
  <1>4. CASE (PublishPropsFails \/ Crash) /\ KeepGone
    <2>1. walk'.menu = {} /\ walk'.reads = {} /\ cache' = <<>>
      BY <1>4 DEF PublishPropsFails, Crash, Die, NoWalk
    <2>2. CacheIsRecent'
      BY <2>1 DEF CacheIsRecent, IsHit
    <2> QED
      BY <1>4, <2>1, <2>2, NoWalkHistoryKeeps
  <1>5. CASE WalkReturns /\ KeepGone
    <2>1. snap \in Windows /\ walk'.menu = {} /\ walk'.reads = {}
      BY <1>1, <1>5 DEF WalkReturns, WalkInIteration, TypeOK, Snapshot, NoWalk
    <2>2. cache' = cache \/ cache' = Put(cache, KeyOf(snap), walk.menu)
      BY <1>5 DEF WalkReturns, cacheVars
    <2>3. CacheIsRecent'
      BY <1>5, <2>1, <2>2, CacheStaysRecent, PutStaysRecent DEF HistoryInv
    <2> QED
      BY <1>5, <2>1, <2>3, NoWalkHistoryKeeps
  <1>6. CASE (WatcherPoll \/ RefreshActive \/ BusReturns
              \/ (\E s \in Snapshot : SendSnapshot(s))) /\ KeepGone
    BY <1>6, QuietHistoryKeeps
       DEF WatcherPoll, RefreshActive, BusReturns, SendSnapshot, loopVars, cacheVars
  <1>7. CASE (Start \/ Wake \/ PublishProps \/ ResolveEmpty \/ ResolveCached) /\ KeepGone
    <2>1. walk' = walk /\ cache' = cache /\ pc \notin {"walking", "walked"}
      BY <1>7
         DEF Start, Wake, WakeOnChange, WakeOnKick, Begin, PublishProps, ResolveEmpty,
             ResolveCached, cacheVars
    <2>2. walk.menu = {} /\ walk.reads \cap Readable = {}
      BY <2>1, IdleWalk DEF HistoryInv
    <2>3. ReadsAreRecent' /\ WalkIsRecent'
      BY <2>1, <2>2 DEF ReadsAreRecent, WalkIsRecent
    <2> QED
      BY <1>7, <2>1, <2>3, CacheStaysRecent, KeepGoneFacts DEF HistoryInv
  <1>8. CASE StartWalk /\ KeepGone
    BY <1>8, StartWalkHistoryKeeps
  <1>9. CASE (\E w \in Windows : AppChanges(w)) /\ KeepGone
    BY <1>9, AppChangesHistoryKeeps
  <1>10. CASE BusDies /\ KeepGone
    <2>1. /\ walk'.menu = walk.menu /\ walk'.reads = walk.reads /\ walk'.ticked = walk.ticked
          /\ pc' = pc /\ snap' = snap /\ cache' = cache
      BY <1>1, <1>10 DEF BusDies, Walk, cacheVars
    <2> QED
      BY <1>10, <2>1, QuietHistoryKeeps
  <1>11. CASE Tick /\ AgeGone
    BY <1>11, TickHistoryKeeps
  <1>12. CASE UNCHANGED histVars
    <2>1. UNCHANGED <<gone, cache, walk, snap, pc>>
      BY <1>12 DEF histVars, vars, loopVars, cacheVars
    <2> QED
      BY <2>1
         DEF HistoryInv, GoneType, CacheIsRecent, ReadsAreRecent, WalkIsRecent, KeyOf, IsHit,
             ExposedWithin, ExposedAfter, Scope
  <1> QED
    BY <1>2, <1>3, <1>4, <1>5, <1>6, <1>7, <1>8, <1>9, <1>10, <1>11, <1>12
       DEF NextHistory, Loop, Resolve, WalkOutcome, Environment

\* The invariant of the loop together with its history.
THEOREM HistoryInvariant == SpecHistory => []IInvHistory
  <1>1. InitHistory => HistoryInv
    BY InitHistoryInv
  <1>2. IInv /\ HistoryInv /\ [NextHistory]_histVars => HistoryInv'
    BY HistoryInductive
  <1>3. SpecHistory => []IInv
    BY HistoryImplements, InvHolds, PTL
  <1>4. SpecHistory => []HistoryInv
    BY <1>1, <1>2, <1>3, PTL DEF SpecHistory
  <1> QED
    BY <1>3, <1>4, SplitIInvHistory, PTL

----------------------------------------------------------------------------
(* How old a published menu may be                                         *)

\* A write publishes one payload at most.
LEMMA WritePublishesOne ==
    ASSUME NEW body, NEW last \in {lastBody, {}}, WriteActiveJson(body, last)
    PROVE  NewlyPublished \subseteq {body}
  BY DEF WriteActiveJson, Written, PushIpcUpdate, NewlyPublished

\* A payload without a walked menu never claims one.
LEMMA UnwalkedBodies ==
    ASSUME NEW s
    PROVE  /\ EmptyBody(s).source # "atspi"
           /\ EagerBody(s).source # "atspi"
           /\ FinalBody(s, {}).source # "atspi"
  <1>1. EmptyBody(s).source # "atspi"
    BY DEF EmptyBody
  <1>2. FallbackBody(s).source # "atspi"
    BY <1>1 DEF FallbackBody
  <1> QED
    BY <1>1, <1>2 DEF EagerBody, FinalBody

\* The final payload shows a readable menu that the resolution returned.
LEMMA WalkedBody ==
    ASSUME NEW s, NEW menu, FinalBody(s, menu).source = "atspi"
    PROVE  /\ FinalBody(s, menu).snap = s
           /\ FinalBody(s, menu).menu = {m \in menu : ~IsLazyUnreadable(m)}
  <1> DEFINE usable == {m \in menu : ~IsLazyUnreadable(m)}
  <1>1. EmptyBody(s).source # "atspi" /\ FallbackBody(s).source # "atspi"
    BY DEF EmptyBody, FallbackBody
  <1>2. FinalBody(s, menu) = [snap |-> s, source |-> "atspi", menu |-> usable]
    BY <1>1 DEF FinalBody
  <1> HIDE DEF usable
  <1> QED
    BY <1>2 DEF usable

\* The trailing write publishes a menu no older than what was resolved.
LEMMA PublishIsRecent ==
    ASSUME NEW menu, Publish(menu),
           \A m \in menu : m \in Menu,
           \A m \in menu : m.content \in Readable =>
                ExposedWithin(snap, m.content, MenuCacheTtl + 1),
           NEW b \in NewlyPublished, b.source = "atspi"
    PROVE  RecentMenu(b)
  <1>1. b = FinalBody(snap, menu)
    BY WritePublishesOne DEF Publish
  <1>2. b.snap = snap /\ b.menu = {m \in menu : ~IsLazyUnreadable(m)}
    BY <1>1, WalkedBody
  <1>3. \A m \in b.menu : m \in menu /\ m.content \in Readable
    BY <1>2 DEF IsLazyUnreadable, Menu, Contents
  <1> QED
    BY <1>2, <1>3 DEF RecentMenu

\* What the loop publishes as an application's menu, from the cache too, the
\* application exposed MENU_CACHE_TTL ago at most, plus the walk: no sequence
\* of hits, kicks, verdicts or restarts makes an entry last longer.
THEOREM PublishesRecentMenus == SpecHistory => PublishedMenuIsRecent
  <1>1. ASSUME IInvHistory, [NextHistory]_histVars, NEW b \in NewlyPublished, b.source = "atspi"
        PROVE  RecentMenu(b)
    <2>1. IInv /\ HistoryInv /\ MenuCacheTtl \in Nat
      BY <1>1, SplitIInvHistory, MenuCacheTtlAssumption
    <2>2. CASE ResolveCached
      <3>1. snap \in Windows /\ IsHit(cache, KeyOf(snap)) /\ KeyOf(snap) \in DOMAIN cache
        BY <2>1, <2>2 DEF ResolveCached, IInv, TypeOK, Snapshot, IsHit
      <3>2. Publish(cache[KeyOf(snap)].menu)
        BY <2>2 DEF ResolveCached
      <3>3. \A m \in cache[KeyOf(snap)].menu :
               m \in Menu /\ (m.content \in Readable => ExposedWithin(snap, m.content, MenuCacheTtl + 1))
        <4>1. cache[KeyOf(snap)].age \in Nat /\ ~(cache[KeyOf(snap)].age > MenuCacheTtl)
          BY <2>1, <3>1, MenusOfState DEF IsHit, IsFresh
        <4>2. cache[KeyOf(snap)].age + 1 \in Nat /\ MenuCacheTtl + 1 \in Nat
              /\ cache[KeyOf(snap)].age + 1 <= MenuCacheTtl + 1
          BY <2>1, <4>1
        <4>3. \A m \in cache[KeyOf(snap)].menu :
                 m.content \in Readable =>
                    ExposedWithin(snap, m.content, cache[KeyOf(snap)].age + 1)
          BY <2>1, <3>1 DEF HistoryInv, CacheIsRecent
        <4> QED
          BY <2>1, <3>1, <4>1, <4>2, <4>3, MenusOfState, ExposedFacts DEF HistoryInv
      <3> QED
        BY <1>1, <3>2, <3>3, PublishIsRecent
    <2>3. CASE WalkReturns
      <3>1. Publish(walk.menu)
        BY <2>3 DEF WalkReturns
      <3>2. \A m \in walk.menu :
               m \in Menu /\ (m.content \in Readable => ExposedWithin(snap, m.content, MenuCacheTtl + 1))
        BY <2>1, MenusOfState, ExposedFacts DEF HistoryInv, WalkIsRecent
      <3> QED
        BY <1>1, <3>1, <3>2, PublishIsRecent
    <2>4. CASE ResolveEmpty
      BY <1>1, <2>4, WritePublishesOne, UnwalkedBodies DEF ResolveEmpty, Publish
    <2>5. CASE Start
      BY <1>1, <2>5, WritePublishesOne, UnwalkedBodies DEF Start, NewlyPublished, WriteActiveJson, Written, PushIpcUpdate
    <2>6. CASE Wake
      BY <1>1, <2>6, WritePublishesOne, UnwalkedBodies DEF Wake, WakeOnChange, WakeOnKick, Begin
    <2>7. CASE lastBody' \in {lastBody, {}} /\ pushed' = pushed
      BY <1>1, <2>7 DEF NewlyPublished
    <2>8. CASE PublishProps \/ StartWalk \/ WalkOutcome \/ WalkTimesOut \/ WatcherPoll
               \/ RefreshActive \/ BusDies \/ BusReturns \/ Tick \/ PublishPropsFails \/ Crash
               \/ (\E s \in Snapshot : SendSnapshot(s)) \/ (\E w \in Windows : AppChanges(w))
               \/ UNCHANGED histVars
      BY <2>7, <2>8
         DEF PublishProps, StartWalk, WalkOutcome, WalkTimesOut, WalkFinds, WalkFindsNothing,
             WalkFails, WalkEnds, WatcherPoll, RefreshActive, BusDies, BusReturns, Tick,
             PublishPropsFails, Crash, Die, SendSnapshot, AppChanges, histVars, vars, outVars
    <2> QED
      BY <1>1, <2>2, <2>3, <2>4, <2>5, <2>6, <2>8
         DEF NextHistory, Loop, Resolve, Environment
  <1>2. IInvHistory /\ [NextHistory]_histVars
          => (\A b \in NewlyPublished : b.source = "atspi" => RecentMenu(b))
    BY <1>1
  <1> QED
    BY <1>2, HistoryInvariant, PTL DEF SpecHistory, PublishedMenuIsRecent

=============================================================================
