---------------------------- MODULE BillingLedger ----------------------------
(***************************************************************************)
(* The v2 credit ledger of the executor, as the tables of                  *)
(* executor/app/platform/credits/ledger.py hold it.  Every public method   *)
(* of BillingLedger runs in one database transaction under the database    *)
(* lock, so each is one action here; the callers, who may call any method  *)
(* at any time from the event loop or from a worker thread, are left open. *)
(* BillingRuns says who calls what, and adds the settlement receipts, the  *)
(* recovery scan and the crashes.                                          *)
(*                                                                         *)
(* An operation stands for one (user_id, request_id) pair, the pair that   *)
(* the table keeps unique: rows are never deleted, so the pair and the row *)
(* are the same thing.  The price snapshot of a row is not modelled: a     *)
(* recorded call carries the cost that the snapshot gives it, 0 when its   *)
(* usage is unknown or the call is a free retry.                           *)
(***************************************************************************)
EXTENDS Money

CONSTANTS
  Users,       \* users who have an account or may register
  Existing,    \* the users present when the v2 ledger is created
  Legacy,      \* users.credits_balance, in centipoints, at that moment
  Operations,
  Owner,       \* the user of an operation
  Calls,       \* call ids
  Costs,       \* possible costs of one call, in sub-cents
  Scale,       \* sub-cents in a centipoint
  Budgets,     \* budgets a user may confirm
  Requests,    \* request ids of administrators
  Changes,     \* amounts an administrator may add or take
  Codes,       \* invite codes
  Grants,      \* credits an invite code may carry
  None         \* no outcome, no user

Final == {"completed", "stopped", "budget_exhausted", "failed"}

ASSUME OperationsAssumption == IsFiniteSet(Operations) /\ Owner \in [Operations -> Users]
ASSUME MigrationAssumption == Existing \subseteq Users /\ Legacy \in [Existing -> Int]
ASSUME CostsAssumption == Costs \subseteq Nat /\ Scale \in Nat \ {0}
ASSUME AmountsAssumption ==
  Budgets \subseteq Nat \ {0} /\ Changes \subseteq Int \ {0} /\ Grants \subseteq Nat
ASSUME NoneAssumption == None \notin Final /\ None \notin Users

VARIABLES
  accounts,    \* users with a row in users and in billing_wallets
  wallet,      \* billing_wallets.balance
  status,      \* billing_operations.status, "none" without a row
  budget,      \* billing_operations.budget
  consumed,    \* billing_operations.consumed, in sub-cents
  charged,     \* billing_operations.charged
  calls,       \* billing_calls: the recorded calls of an operation
  saved,       \* billing_results: operations with a stored result
  intent,      \* billing_finalizations: the outcome an operation must get
  entries,     \* billing_entries: the statement
  invite       \* invite_codes and billing_invite_grants

ledgerVars == <<accounts, wallet, status, budget, consumed, charged, calls, saved,
                intent, entries, invite>>

-----------------------------------------------------------------------------
Pending(o) == status[o] \in {"reserved", "running", "processing"}

(* _reserved: the budgets of the user's operations that are not final.      *)
Reserved(u) == Total({o \in Operations : Owner[o] = u /\ Pending(o)}, budget)

CostOf(rows) == Total(rows, [r \in rows |-> r.cost])

(* exhausted: the exact cost has reached the budget.                        *)
Exhausted(o) == consumed[o] >= budget[o] * Scale

(* What settle takes for an operation that ends with the given outcome.     *)
Charge(o, outcome) ==
  IF outcome = "failed" THEN 0 ELSE Least(budget[o], HalfUp(consumed[o], Scale))

(* request_id is UNIQUE in billing_entries.                                 *)
Posted(key) == \E e \in entries : e.key = key

Entry(key, u, n) == [key |-> key, user |-> u, amount |-> n]

(* __init__ and _wallet: an old debt is cleared by an entry of its own.     *)
LedgerInit ==
  /\ accounts = Existing
  /\ wallet = [u \in Users |-> IF u \in Existing /\ Legacy[u] > 0 THEN Legacy[u] ELSE 0]
  /\ entries = {Entry(<<"migration", u>>, u, -Legacy[u]) : u \in {v \in Existing : Legacy[v] < 0}}
  /\ status = [o \in Operations |-> "none"]
  /\ budget = [o \in Operations |-> 0]
  /\ consumed = [o \in Operations |-> 0]
  /\ charged = [o \in Operations |-> 0]
  /\ calls = [o \in Operations |-> {}]
  /\ saved = {}
  /\ intent = [o \in Operations |-> None]
  /\ invite = [c \in Codes |-> [issued |-> None, grant |-> 0, usedBy |-> None]]

-----------------------------------------------------------------------------
(* reserve: a request id seen before changes nothing (it returns the row,   *)
(* or a conflict when the content differs).                                 *)
Reserve(o, b) ==
  /\ status[o] = "none"
  /\ Owner[o] \in accounts
  /\ wallet[Owner[o]] - Reserved(Owner[o]) >= b
  /\ status' = [status EXCEPT ![o] = "reserved"]
  /\ budget' = [budget EXCEPT ![o] = b]
  /\ UNCHANGED <<accounts, wallet, consumed, charged, calls, saved, intent, entries, invite>>

Started(o) ==
  /\ status[o] \in {"reserved", "running"}
  /\ status' = [status EXCEPT ![o] = "running"]
  /\ UNCHANGED <<accounts, wallet, budget, consumed, charged, calls, saved, intent, entries, invite>>

(* Mutant of RecordCall: a response that arrives late is recorded.          *)
RecordLateCall(o, c, k) ==
  /\ status[o] # "none" /\ \A r \in calls[o] : r.id # c
  /\ calls' = [calls EXCEPT ![o] = @ \cup {[id |-> c, cost |-> k]}]
  /\ consumed' = [consumed EXCEPT ![o] = CostOf(calls'[o])]
  /\ UNCHANGED <<accounts, wallet, status, budget, charged, saved, intent, entries, invite>>

(* Mutant of RecordCall: the cost is added even to a call id known already. *)
RecordCallTwice(o, c, k) ==
  /\ Pending(o) /\ consumed[o] + k <= 10
  /\ calls' = [calls EXCEPT ![o] =
                 IF \E r \in @ : r.id = c THEN @ ELSE @ \cup {[id |-> c, cost |-> k]}]
  /\ consumed' = [consumed EXCEPT ![o] = @ + k]
  /\ UNCHANGED <<accounts, wallet, status, budget, charged, saved, intent, entries, invite>>

(* record_call: ignored once the operation is final; INSERT OR IGNORE keeps *)
(* the first cost of a call id; consumed is summed again from the rows.     *)
RecordCall(o, c, k) ==
  /\ Pending(o)
  /\ calls' = [calls EXCEPT ![o] =
                 IF \E r \in @ : r.id = c THEN @ ELSE @ \cup {[id |-> c, cost |-> k]}]
  /\ consumed' = [consumed EXCEPT ![o] = CostOf(calls'[o])]
  /\ UNCHANGED <<accounts, wallet, status, budget, charged, saved, intent, entries, invite>>

(* _finalization: the intent is replaced; only a pending operation is moved.*)
SetIntent(o, outcome) ==
  /\ intent' = [intent EXCEPT ![o] = outcome]
  /\ status' = [status EXCEPT ![o] = IF Pending(o) THEN "processing" ELSE @]

(* The transaction at the start of finish.                                  *)
Finalize(o, outcome) ==
  /\ status[o] # "none"
  /\ SetIntent(o, outcome)
  /\ UNCHANGED <<accounts, wallet, budget, consumed, charged, calls, saved, entries, invite>>

(* Mutant of SaveResult: the result is stored without its intent.           *)
SaveResultOnly(o) ==
  /\ status[o] # "none"
  /\ saved' = saved \cup {o}
  /\ UNCHANGED <<accounts, wallet, status, budget, consumed, charged, calls, intent, entries, invite>>

SaveResult(o) ==
  /\ status[o] # "none"
  /\ saved' = saved \cup {o}
  /\ SetIntent(o, "completed")
  /\ UNCHANGED <<accounts, wallet, budget, consumed, charged, calls, entries, invite>>

(* Mutant of SettleFirst: a settled operation is settled again.             *)
SettleAnew(o, outcome) ==
  /\ status[o] # "none"
  /\ LET charge == Charge(o, outcome) IN
       /\ wallet' = [wallet EXCEPT ![Owner[o]] = @ - charge]
       /\ entries' = entries \cup {Entry(<<"settle", o>>, Owner[o], -charge)}
       /\ charged' = [charged EXCEPT ![o] = charge]
  /\ status' = [status EXCEPT ![o] = outcome]

(* settle: the first outcome is charged and posted, any later one only      *)
(* removes the intent.                                                      *)
SettleFirst(o, outcome) ==
  /\ Pending(o)
  /\ ~Posted(<<"settle", o>>)
  /\ LET charge == Charge(o, outcome) IN
       /\ wallet' = [wallet EXCEPT ![Owner[o]] = @ - charge]
       /\ entries' = entries \cup {Entry(<<"settle", o>>, Owner[o], -charge)}
       /\ charged' = [charged EXCEPT ![o] = charge]
  /\ status' = [status EXCEPT ![o] = outcome]

SettleAgain(o) ==
  /\ status[o] \in Final
  /\ UNCHANGED <<wallet, entries, charged, status>>

Settle(o, outcome) ==
  /\ SettleFirst(o, outcome) \/ SettleAgain(o)
  /\ intent' = [intent EXCEPT ![o] = None]
  /\ UNCHANGED <<accounts, budget, consumed, calls, saved, invite>>

-----------------------------------------------------------------------------
(* Mutant of Adjust: a deduction may take reserved credits.                 *)
AdjustReserved(r, u, n) ==
  /\ u \in accounts
  /\ ~Posted(<<"adjust", r>>)
  /\ wallet[u] + n >= 0
  /\ wallet' = [wallet EXCEPT ![u] = @ + n]
  /\ entries' = entries \cup {Entry(<<"adjust", r>>, u, n)}
  /\ UNCHANGED <<accounts, status, budget, consumed, charged, calls, saved, intent, invite>>

(* adjust: a request id is applied once, and never touches reserved money.  *)
Adjust(r, u, n) ==
  /\ u \in accounts
  /\ ~Posted(<<"adjust", r>>)
  /\ wallet[u] + n - Reserved(u) >= 0
  /\ wallet' = [wallet EXCEPT ![u] = @ + n]
  /\ entries' = entries \cup {Entry(<<"adjust", r>>, u, n)}
  /\ UNCHANGED <<accounts, status, budget, consumed, charged, calls, saved, intent, invite>>

(* create_invites: a request issues its codes once.                         *)
CreateInvites(r, codes, g) ==
  /\ codes # {}
  /\ \A c \in Codes : invite[c].issued # r
  /\ \A c \in codes : invite[c].issued = None
  /\ invite' = [c \in Codes |-> IF c \in codes
                                THEN [issued |-> r, grant |-> g, usedBy |-> None]
                                ELSE invite[c]]
  /\ UNCHANGED <<accounts, wallet, status, budget, consumed, charged, calls, saved, intent, entries>>

(* Mutant of RegisterInvited: the grant leaves no entry.                    *)
RegisterUnposted(u, c) ==
  /\ u \notin accounts
  /\ invite[c].issued # None /\ invite[c].usedBy = None
  /\ accounts' = accounts \cup {u}
  /\ invite' = [invite EXCEPT ![c].usedBy = u]
  /\ wallet' = [wallet EXCEPT ![u] = invite[c].grant]
  /\ UNCHANGED <<status, budget, consumed, charged, calls, saved, intent, entries>>

(* register_invited with _grant_invite, in one transaction.                 *)
RegisterInvited(u, c) ==
  /\ u \notin accounts
  /\ invite[c].issued # None /\ invite[c].usedBy = None
  /\ accounts' = accounts \cup {u}
  /\ invite' = [invite EXCEPT ![c].usedBy = u]
  /\ LET g == invite[c].grant IN
       /\ wallet' = [wallet EXCEPT ![u] = g]
       /\ entries' = entries \cup {Entry(<<"invite", c>>, u, n) : n \in {g} \ {0}}
  /\ UNCHANGED <<status, budget, consumed, charged, calls, saved, intent>>

OperationStep(o) ==
  \/ \E b \in Budgets : Reserve(o, b)
  \/ Started(o)
  \/ \E c \in Calls, k \in Costs : RecordCall(o, c, k)
  \/ SaveResult(o)
  \/ \E outcome \in Final : Finalize(o, outcome) \/ Settle(o, outcome)

AdminStep ==
  \/ \E r \in Requests, u \in Users, n \in Changes : Adjust(r, u, n)
  \/ \E r \in Requests, codes \in SUBSET Codes, g \in Grants : CreateInvites(r, codes, g)
  \/ \E u \in Users, c \in Codes : RegisterInvited(u, c)

LedgerNext == (\E o \in Operations : OperationStep(o)) \/ AdminStep

LedgerSpec == LedgerInit /\ [][LedgerNext]_ledgerVars

-----------------------------------------------------------------------------
Keys == ({"migration"} \X Users) \cup ({"settle"} \X Operations)
          \cup ({"adjust"} \X Requests) \cup ({"invite"} \X Codes)

(* Every table holds rows of its type, and no balance is ever negative: the *)
(* CHECK(balance >= 0) of billing_wallets never fires.                      *)
TypeOK ==
  /\ accounts \subseteq Users
  /\ wallet \in [Users -> Nat]
  /\ status \in [Operations -> {"none", "reserved", "running", "processing"} \cup Final]
  /\ budget \in [Operations -> Nat]
  /\ consumed \in [Operations -> Nat]
  /\ charged \in [Operations -> Nat]
  /\ calls \in [Operations -> SUBSET [id : Calls, cost : Costs]]
  /\ saved \subseteq Operations
  /\ intent \in [Operations -> Final \cup {None}]
  /\ entries \subseteq [key : Keys, user : Users, amount : Int]
  /\ invite \in [Codes -> [issued : Requests \cup {None}, grant : Grants \cup {0},
                           usedBy : Users \cup {None}]]

(* No user ever owes: what is reserved is covered by the balance, whatever  *)
(* mix of reservations, settlements and administrator deductions happened   *)
(* (test_concurrent_reservations, test_budget_caps_charge_and_never_creates *)
(* _debt).                                                                  *)
Solvent == \A u \in Users : Reserved(u) <= wallet[u]

(* The exact cost is rounded half up, once, and capped by the budget, here  *)
(* without the formula of settle: a charge exceeds the cost by half a credit*)
(* at most, and falls short of it by half a credit only when it is the      *)
(* budget.                                                                  *)
FairlyCharged(o) ==
  /\ charged[o] <= budget[o]
  /\ 2 * (Scale * charged[o] - consumed[o]) <= Scale
  /\ charged[o] = budget[o] \/ 2 * (consumed[o] - Scale * charged[o]) < Scale

(* The statement a user reads adds up: the calls shown for an operation     *)
(* explain its consumption, an operation is charged exactly once, fairly and*)
(* nothing if it failed, and the charge on the operation is the one posted. *)
StatementAddsUp ==
  \A o \in Operations :
    /\ consumed[o] = CostOf(calls[o])
    /\ Posted(<<"settle", o>>) <=> status[o] \in Final
    /\ status[o] \in Final =>
         /\ IF status[o] = "failed" THEN charged[o] = 0 ELSE FairlyCharged(o)
         /\ Entry(<<"settle", o>>, Owner[o], -charged[o]) \in entries

Credits(u) == {e \in entries : e.user = u /\ e.amount > 0}
Debits(u) == {e \in entries : e.user = u /\ e.amount < 0}

(* The balance is the migrated balance plus every posted entry: no credit   *)
(* appears or disappears without an audit row.                              *)
Reconciled ==
  \A u \in Users :
    wallet[u] = (IF u \in Existing THEN Legacy[u] ELSE 0)
                + Total(Credits(u), [e \in Credits(u) |-> e.amount])
                - Total(Debits(u), [e \in Debits(u) |-> -e.amount])

(* A stored settlement intent closes execution: such an operation is never  *)
(* seen as reserved or running, so can_continue refuses the next call.      *)
IntentClosesExecution ==
  \A o \in Operations : intent[o] # None => status[o] \in {"processing"} \cup Final

(* A settled operation never changes again: no later outcome, call or       *)
(* replayed request alters what the user was told.                          *)
FinalIsFrozen ==
  [][\A o \in Operations : status[o] \in Final =>
       /\ status'[o] = status[o] /\ charged'[o] = charged[o]
       /\ calls'[o] = calls[o] /\ budget'[o] = budget[o]]_ledgerVars

(* The ledger implements Wallet: a pending operation is a hold, a final one *)
(* is closed, and everything else is a change of available credits.         *)
Phase(o) ==
  IF Pending(o) THEN "held" ELSE IF status[o] \in Final THEN "closed" ELSE "free"

W == INSTANCE Wallet WITH balance <- wallet, amount <- budget, paid <- charged,
                          phase <- [o \in Operations |-> Phase(o)]

ImplementsWallet == W!Spec

=============================================================================
