---------------------------- MODULE MCActiveLoop ----------------------------
(* Instances of ActiveLoop for TLC.                                        *)
EXTENDS ActiveLoop

\* Every window is an app and a process of its own: Apps and Pids are Windows.
OwnApp == [w \in Windows |-> w]

=============================================================================
