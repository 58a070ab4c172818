--------------------------- MODULE FocusStillness ---------------------------
(***************************************************************************)
(* FocusPipeline with a clock that only observes, for what is said of the  *)
(* debounce and does not hold.                                             *)
(***************************************************************************)
EXTENDS FocusPipeline

VARIABLE
    since  \* ticks since niri.rs last sent a focus value, up to Debounce

stillnessVars == <<vars, since>>

InitStillness == Init /\ since = 0

NextStillness ==
    \/ /\ Step
       /\ since' = IF focusChan'.changed /\ focusChan' # focusChan THEN 0 ELSE since
    \/ /\ Tick
       /\ since' = IF since < Debounce THEN since + 1 ELSE since

FairSpecStillness == InitStillness /\ [][NextStillness]_stillnessVars /\ Fairness

----------------------------------------------------------------------------

\* What docs/adr/ADR-0009-debouncing-policy.md says of the debounce: "wait
\* 75 ms; if no further focus event arrives, emit. If another arrives, restart
\* the timer". So nothing is published before the focus was still for as long.
PublishedAfterStillness == [][PublishActive => since = Debounce]_stillnessVars

=============================================================================
