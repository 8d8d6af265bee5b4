----------------------------- MODULE MCBenchmark -----------------------------
(* Instance of Benchmark for TLC: two seeds of one case, and another case.   *)
EXTENDS Benchmark, TLC

CONSTANTS a1, a2, b1

MCCaseOf == a1 :> "a" @@ a2 :> "a" @@ b1 :> "b"

=============================================================================
