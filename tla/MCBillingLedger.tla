--------------------------- MODULE MCBillingLedger ---------------------------
(* Instance of BillingLedger for TLC: u1 has credits and two operations that  *)
(* compete for them, u3 an old debt that the migration clears, u2 registers   *)
(* with an invite.                                                            *)
EXTENDS BillingLedger, TLC

CONSTANTS u1, u2, u3, o1, o2, c1, c2

MCOwner == [o \in {o1, o2} |-> u1]

(* Three credits: two budgets of 2 do not fit, but do once a charge of 1 is   *)
(* settled.                                                                   *)
MCLegacy == [u \in {u1, u3} |-> IF u = u1 THEN 3 ELSE -1]

(* Costs in quarters of a credit: 1 rounds to nothing and 1 + 1, a half, to a *)
(* credit, unlike two costs rounded by themselves; 10 exceeds the budget.     *)
MCCosts == {1, 10}

MCChanges == {-2}

(* Operations of one user are interchangeable, and so are calls.              *)
Symmetry == Permutations({o1, o2}) \cup Permutations({c1, c2})
=============================================================================
