---------------------------- MODULE MCTargetTasks ----------------------------
(* Instance of TargetTasks for TLC.  Isolated and owned tasks have nothing in *)
(* common but the process they run in: states with both are left out.  None   *)
(* of the fair actions leads to one.                                          *)
EXTENDS TargetTasks

KindsApart == \A t \in Isolated, u \in Owned : ~(Admitted(t) /\ Admitted(u))
=============================================================================
