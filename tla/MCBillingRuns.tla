---------------------------- MODULE MCBillingRuns ----------------------------
(* Instance of BillingRuns for TLC: a chat operation and a target operation   *)
(* of one user, in one conversation, and another chat that evicts their runs. *)
EXTENDS BillingRuns, TLC

CONSTANTS u1, chat, target, other, d1, d2

MCOwner == [o \in Operations |-> u1]

MCThread == [o \in Operations |-> IF o = other THEN "t2" ELSE "t1"]

MCLegacy == [u \in {u1} |-> Cardinality(Operations)]
MCChanges == {-1}

Symmetry == Permutations({d1, d2})

(* An administrator's adjustment meets a run without failures only.           *)
AdjustedUndisturbed ==
  (\E r \in Requests : Posted(<<"adjust", r>>)) => faults = 0 /\ crashes = 0

(* The other chat comes while a copy of the first is loading and the runs of  *)
(* both operations are completed: one of them must go.  It is looked at until *)
(* its own source would start.                                                *)
OtherEvicts ==
  /\ \E i \in Copies : prep[other][i] = "unsent"
  /\ prep[other] # [i \in Copies |-> "unsent"] => mode = "serving" /\ crashes = 0
  /\ Loading(other) => run[chat].pc = "done" /\ run[target].pc = "done" /\ Loading(chat)
  /\ status[other] # "none" => run[target].pc = "done"
  /\ run[other].pc \in {"absent", "queued"} /\ other \notin asked

(* A target is sent again in the life of the process it was first sent to: to *)
(* a later process the copy is a replay or a first delivery.                  *)
SentAgainAtOnce ==
  (\A i \in Copies : prep[target][i] # "unsent") => crashes = 0

=============================================================================
