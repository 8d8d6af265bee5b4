------------------------------- MODULE Money -------------------------------
(***************************************************************************)
(* Sums and roundings of the v2 credit ledger                              *)
(* (executor/app/platform/credits/ledger.py).  Amounts are natural numbers *)
(* of centipoints.  The exact cost of a model call is a natural number of  *)
(* sub-cents, Scale of them to the centipoint, because the code adds the   *)
(* costs of all calls as exact decimals and rounds only once, when the     *)
(* operation is settled.                                                   *)
(***************************************************************************)
EXTENDS Integers, FiniteSets

(***************************************************************************)
(* SUM(f) over the rows S, as the number of units the rows hold together.  *)
(* Each row x contributes f[x] distinct pairs, so nothing is recursive and *)
(* the laws of the sum follow from those of Cardinality.                   *)
(***************************************************************************)
Units(S, f) == UNION {{x} \X (1..f[x]) : x \in S}

Total(S, f) == Cardinality(Units(S, f))

Least(a, b) == IF a <= b THEN a ELSE b

(* Decimal.quantize(Decimal(1), ROUND_HALF_UP) of n / d, for naturals.      *)
HalfUp(n, d) == (2 * n + d) \div (2 * d)

=============================================================================
