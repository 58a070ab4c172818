----------------------------- MODULE FocusFeed -----------------------------
(***************************************************************************)
(* What the focus pipeline promises, without sessions, events, channels or *)
(* timers: a display that lags behind the truth. It may miss values and    *)
(* skip values, but it shows only values the truth had, and in the order   *)
(* the truth had them.                                                     *)
(***************************************************************************)
EXTENDS Naturals, Sequences

CONSTANTS Values, Initial

VARIABLES
    truth,    \* the present value
    underway, \* values the truth had since the one shown, oldest first
    shown     \* the value displayed

vars == <<truth, underway, shown>>

Init == truth = Initial /\ underway = <<>> /\ shown = Initial

\* The truth changes and the change is observed.
Observe ==
    /\ truth' \in Values
    /\ underway' = Append(underway, truth')
    /\ UNCHANGED shown

\* The truth changes and nobody observes it.
Miss ==
    /\ truth' \in Values
    /\ UNCHANGED <<underway, shown>>

\* The present value is observed again.
Resync ==
    /\ underway' = Append(underway, truth)
    /\ UNCHANGED <<truth, shown>>

\* A value is superseded by a later one.
Skip ==
    /\ Len(underway) > 1
    /\ underway' = Tail(underway)
    /\ UNCHANGED <<truth, shown>>

Show ==
    /\ underway # <<>>
    /\ shown' = Head(underway)
    /\ underway' = Tail(underway)
    /\ UNCHANGED truth

Next == Observe \/ Miss \/ Resync \/ Skip \/ Show

Spec == Init /\ [][Next]_vars

=============================================================================
