------------------------ MODULE MCActiveLoopHistory ------------------------
(* Instances of ActiveLoopHistory for TLC.                                 *)
EXTENDS ActiveLoopHistory, TLC

\* Every window belongs to one process of one app.
OneApp == [w \in Windows |-> CHOOSE a \in Apps : TRUE]
OneProcess == [w \in Windows |-> CHOOSE p \in Pids : TRUE]

\* No window is named by the specification.
Interchangeable == Permutations(Windows)

=============================================================================
