--------------------------- MODULE VersionRegister ---------------------------
(***************************************************************************)
(* What the platform promises those who release versions of the writing    *)
(* agent, without packages, locks, notifications or crashes.               *)
(*                                                                         *)
(* The history of versions only grows and one of its versions is in        *)
(* production.  A request names a commit and may name the version it       *)
(* expects in production.  It is decided once: it makes its commit the     *)
(* newest version and puts that in production, or it is refused while      *)
(* another version than the expected one is in production, or it fails.    *)
(***************************************************************************)
EXTENDS Integers, Sequences

CONSTANTS Commits, Requests, None

VARIABLES
  versions,     \* the commits of versions 1, 2, ...
  production,   \* the version in production, 0 for none
  order,        \* the commit and the expected version (or 0) of each request
  result        \* of each request: "none", "open", "applied", "refused", "failed"

vars == <<versions, production, order, result>>

Orders == [commit : Commits, expect : Nat]

NoOrder == [commit |-> None, expect |-> 0]

Init ==
  /\ versions \in Seq(Commits)
  /\ production \in 0..Len(versions)
  /\ order = [r \in Requests |-> NoOrder]
  /\ result = [r \in Requests |-> "none"]

Ask(r, decision) ==
  /\ result[r] = "none"
  /\ order'[r] \in Orders
  /\ order' = [order EXCEPT ![r] = order'[r]]
  /\ result' = [result EXCEPT ![r] = decision]
  /\ UNCHANGED <<versions, production>>

Apply(r) ==
  /\ result[r] = "open"
  /\ order[r].expect \in {0, production}
  /\ versions' = Append(versions, order[r].commit)
  /\ production' = Len(versions) + 1
  /\ result' = [result EXCEPT ![r] = "applied"]
  /\ UNCHANGED order

Refuse(r) ==
  /\ result[r] = "open"
  /\ order[r].expect \notin {0, production}
  /\ result' = [result EXCEPT ![r] = "refused"]
  /\ UNCHANGED <<versions, production, order>>

Fail(failed) ==
  /\ \A r \in failed : result[r] = "open"
  /\ result' = [r \in Requests |-> IF r \in failed THEN "failed" ELSE result[r]]
  /\ UNCHANGED <<versions, production, order>>

Next ==
  \/ \E r \in Requests : Ask(r, "open") \/ Ask(r, "failed") \/ Apply(r) \/ Refuse(r)
  \/ \E failed \in SUBSET Requests : Fail(failed)

Spec == Init /\ [][Next]_vars

=============================================================================
