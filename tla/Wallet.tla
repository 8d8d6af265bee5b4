------------------------------- MODULE Wallet -------------------------------
(***************************************************************************)
(* What billing promises a user, without databases, calls or crashes.      *)
(*                                                                         *)
(* Every user has a balance.  An operation first puts a hold on a part of  *)
(* the balance that no other hold claims, and is closed once: at most the  *)
(* held amount is paid and the rest becomes available again.  Money added  *)
(* is available at once, money taken away must be available.               *)
(*                                                                         *)
(* BillingLedger implements this specification, and BillingRuns, the       *)
(* running service, implements BillingLedger.                              *)
(***************************************************************************)
EXTENDS Money

CONSTANTS
  Users,
  Operations,
  Owner        \* the user who pays for an operation

VARIABLES
  balance,     \* what each user has, held parts included
  phase,       \* "free", "held" or "closed" for each operation
  amount,      \* the amount an operation holds or held
  paid         \* what a closed operation cost its owner

vars == <<balance, phase, amount, paid>>

Held(u) == {o \in Operations : Owner[o] = u /\ phase[o] = "held"}

Available(u) == balance[u] - Total(Held(u), amount)

Init ==
  /\ balance \in [Users -> Nat]
  /\ phase = [o \in Operations |-> "free"]
  /\ amount = [o \in Operations |-> 0]
  /\ paid = [o \in Operations |-> 0]

(* The new amount of o is positive and was available.                      *)
Hold(o) ==
  /\ phase[o] = "free"
  /\ amount'[o] \in Nat \ {0}
  /\ amount'[o] <= Available(Owner[o])
  /\ amount' = [amount EXCEPT ![o] = amount'[o]]
  /\ phase' = [phase EXCEPT ![o] = "held"]
  /\ UNCHANGED <<balance, paid>>

Close(o) ==
  /\ phase[o] = "held"
  /\ paid'[o] \in 0..amount[o]
  /\ paid' = [paid EXCEPT ![o] = paid'[o]]
  /\ balance' = [balance EXCEPT ![Owner[o]] = @ - paid'[o]]
  /\ phase' = [phase EXCEPT ![o] = "closed"]
  /\ UNCHANGED amount

(* Credits are added, or taken from the available part.                    *)
Change(u) ==
  /\ balance'[u] \in Nat
  /\ balance'[u] >= Total(Held(u), amount)
  /\ balance' = [balance EXCEPT ![u] = balance'[u]]
  /\ UNCHANGED <<phase, amount, paid>>

Next ==
  \/ \E o \in Operations : Hold(o) \/ Close(o)
  \/ \E u \in Users : Change(u)

Spec == Init /\ [][Next]_vars

=============================================================================
