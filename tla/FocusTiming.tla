---------------------------- MODULE FocusTiming ----------------------------
(***************************************************************************)
(* FocusPipeline with a clock that only observes, for its real-time        *)
(* promise. Time passes in ticks; what FocusPipeline's Tick waits for is   *)
(* done without delay.                                                     *)
(***************************************************************************)
EXTENDS FocusPipeline

VARIABLE
    calm  \* ticks since niri last failed the bridge, or came up

timingVars == <<vars, calm>>

CalmMax == BackoffMax + 1

\* Types of the variables, the clock included.
TypeOKTiming ==
    /\ TypeOK
    /\ calm \in 0..CalmMax

InitTiming == Init /\ calm = 0

NextTiming ==
    \/ /\ Step
       /\ calm' = IF ~up \/ eof \/ (task = "awaiting" /\ task' = "sleeping") THEN 0 ELSE calm
    \/ /\ Tick
       /\ calm' = IF ~up \/ eof THEN 0 ELSE IF calm < CalmMax THEN calm + 1 ELSE calm

SpecTiming == InitTiming /\ [][NextTiming]_timingVars

FairSpecTiming == SpecTiming /\ Fairness

----------------------------------------------------------------------------

\* The bar is not blank for longer than the ceiling: however many sessions
\* failed before, the bridge is connected again BACKOFF_MAX after niri last
\* gave it a reason not to be.
ReconnectsInTime == up /\ calm > BackoffMax => task \in {"awaiting", "driving"}

----------------------------------------------------------------------------
(* Why it holds.                                                           *)

\* A sleep ends within the ceiling of the last failure, and nothing is waited
\* for between the sleep and the connection.
SleepsInTime ==
    /\ task = "sleeping" => calm + timer <= BackoffMax
    /\ task = "connecting" => calm <= BackoffMax

IInvTiming == TypeOKTiming /\ SleepsInTime

=============================================================================
