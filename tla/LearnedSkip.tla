---------------------------- MODULE LearnedSkip ----------------------------
(***************************************************************************)
(* bridge/src/atspi.rs, mod learned_skip: the self-learned set of app-ids  *)
(* whose AT-SPI walk found no menubar, so that the active loop does not    *)
(* walk them again on every focus event.                                   *)
(*                                                                         *)
(* The two statics are values here, held in variables by the module that   *)
(* extends this one:                                                       *)
(*   skip          the HashMap SKIP, a function from the app-ids that have *)
(*                 a verdict to that verdict,                              *)
(*   resolvedOnce  the HashSet RESOLVED_ONCE.                              *)
(* An Instant is kept as an age in ticks that stops growing once the age   *)
(* makes no difference any more (AgeVerdicts).                             *)
(***************************************************************************)
EXTENDS Naturals

CONSTANTS
    RecheckTtl,           \* RECHECK_TTL, 300 s
    ExpensiveRecheckTtl,  \* EXPENSIVE_RECHECK_TTL, 1800 s
    ExpensiveResolvedTtl, \* EXPENSIVE_RESOLVED_TTL, 30 s
    ExpensiveWalk,        \* EXPENSIVE_WALK, 750 ms, in units of walk cost
    FetchBudget           \* FETCH_BUDGET, 2500 ms, in units of walk cost

\* The orderings are the ones the unit tests of learned_skip assert.
ASSUME SkipTtlAssumption ==
    /\ RecheckTtl \in Nat \ {0}
    /\ ExpensiveRecheckTtl \in Nat
    /\ ExpensiveResolvedTtl \in Nat \ {0}
    /\ RecheckTtl < ExpensiveRecheckTtl
    /\ ExpensiveResolvedTtl < ExpensiveRecheckTtl

ASSUME WalkCostAssumption ==
    /\ ExpensiveWalk \in Nat \ {0}
    /\ FetchBudget \in Nat
    /\ ExpensiveWalk <= FetchBudget

WalkCost == 0..FetchBudget

Verdict == [age : 0..ExpensiveRecheckTtl, expensive : BOOLEAN]

\* The values SKIP may have over the app-ids in A.
IsSkipMap(skip, A) ==
    /\ DOMAIN skip \subseteq A
    /\ skip \in [DOMAIN skip -> Verdict]

----------------------------------------------------------------------------

\* Fault: the verdict of an app that never resolved a menubar is permanent,
\* as it was before issue #174.
SkipDecision_Permanent(expensive, resolved, age) ==
    \/ expensive /\ ~resolved
    \/ age < (IF expensive THEN ExpensiveResolvedTtl ELSE RecheckTtl)

\* ttl_for
TtlFor(expensive, resolved) ==
    CASE ~expensive              -> RecheckTtl
      [] expensive /\ resolved   -> ExpensiveResolvedTtl
      [] expensive /\ ~resolved  -> ExpensiveRecheckTtl

\* skip_decision: a verdict is honoured strictly before its TTL.
SkipDecision(expensive, resolved, age) == age < TtlFor(expensive, resolved)

\* classify_expensive: the boundary counts as expensive.
ClassifyExpensive(cost) == cost >= ExpensiveWalk

\* should_skip
ShouldSkip(skip, resolvedOnce, app) ==
    /\ app \in DOMAIN skip
    /\ SkipDecision(skip[app].expensive, app \in resolvedOnce, skip[app].age)

\* record_negative: HashMap::insert, so an older verdict is replaced.
RecordNegative(skip, app, cost) ==
    [a \in DOMAIN skip \cup {app} |->
        IF a = app
        THEN [age |-> 0, expensive |-> ClassifyExpensive(cost)]
        ELSE skip[a]]

\* forget, the SKIP half; the caller adds app to RESOLVED_ONCE.
Forget(skip, app) == [a \in DOMAIN skip \ {app} |-> skip[a]]

\* clear_expensive
ClearExpensive(skip) ==
    [a \in {x \in DOMAIN skip : ~skip[x].expensive} |-> skip[a]]

\* A tick of Instant::elapsed. An age past the longest TTL its verdict can
\* be compared with is not told apart from that TTL.
AgeVerdicts(skip) ==
    [a \in DOMAIN skip |->
        [skip[a] EXCEPT !.age =
            IF @ < TtlFor(skip[a].expensive, FALSE) THEN @ + 1 ELSE @]]

=============================================================================
