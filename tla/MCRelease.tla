------------------------------ MODULE MCRelease ------------------------------
(* Instance of Release for TLC.                                              *)
EXTENDS Release, TLC

Symmetry == Permutations(Threads) \cup Permutations(Requests) \cup Permutations(Commits)

=============================================================================
