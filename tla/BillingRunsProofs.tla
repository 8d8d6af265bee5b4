------------------------- MODULE BillingRunsProofs -------------------------
(***************************************************************************)
(* The running service implements the ledger, for any operations, copies   *)
(* of requests, failures and crashes; so what BillingProofs proves of the  *)
(* ledger holds for the service.  And what users read of their operations  *)
(* is true.                                                                *)
(*                                                                         *)
(* A step of the service hands to finish and settle what it reads from fin,*)
(* from a receipt or from a stored intent.  Control says that these hold an*)
(* outcome whenever they are read: while a scan works on receipts or       *)
(* intents nothing else is inside finish or request_stop.                  *)
(***************************************************************************)
EXTENDS BillingRuns, BillingProofs

FinOK ==
  \/ fin = Idle
  \/ fin \in [at : {"receipt", "finalize", "settle", "unlink"}, op : Operations, outcome : Final]

ScanOK ==
  \/ scan = NoScan
  \/ scan \in [at : {"receipts", "unlink", "intents", "orphans"}, todo : SUBSET Operations,
               current : Operations \cup {None}, active : SUBSET Operations,
               held : SUBSET Operations]

Control ==
  /\ receipt \in [Operations -> Final \cup {None}]
  /\ admitted \subseteq Operations
  /\ FinOK
  /\ ScanOK
  /\ mode = "down" => LoopFree
  /\ scan # NoScan => stopping = {}
  /\ scan.at \in {"receipts", "unlink", "intents"} => fin = Idle
  /\ scan.at \in {"receipts", "unlink"} => \A o \in scan.todo : receipt[o] # None
  /\ scan.at = "unlink" => scan.current \in Operations \ scan.todo
  /\ scan.at = "intents" => \A o \in scan.todo : intent[o] # None

ServiceInv == LedgerInv /\ Control

Allowed == [LedgerNext]_ledgerVars

-----------------------------------------------------------------------------
(* Steps that leave the loop where it is.                                   *)
LEMMA ControlCalm ==
  ASSUME Control, UNCHANGED <<receipt, fin, scan, stopping, mode>>,
         UNCHANGED intent \/ LoopFree,
         UNCHANGED admitted \/ \E o \in Operations : admitted' = admitted \cup {o}
  PROVE  Control'
BY DEF Control, FinOK, ScanOK, LoopFree, NoScan

(* A coroutine that calls finish.                                           *)
LEMMA ControlFinish ==
  ASSUME Control, NEW o \in Operations, NEW outcome \in Final,
         LoopFree, mode # "down", Finish(o, outcome),
         UNCHANGED <<receipt, scan, stopping, mode>>,
         UNCHANGED admitted \/ \E p \in Operations : admitted' = admitted \cup {p}
  PROVE  Control'
BY DEF Control, FinOK, ScanOK, LoopFree, NoScan, Idle, Finish

LEMMA EndingFinal ==
  ASSUME NEW o, NEW outcome \in Final
  PROVE  Ending(o, outcome) \in Final
BY DEF Ending, Final

(* reserve, or the row that exists: a step of the ledger.                   *)
LEMMA ReserveAllowed ==
  ASSUME NEW o \in Operations, FindOrReserve(o)
  PROVE  Allowed /\ UNCHANGED intent
BY DEF FindOrReserve, Allowed, LedgerNext, OperationStep, Reserve, ledgerVars

LEMMA SettleAllowed ==
  ASSUME NEW o \in Operations, NEW outcome \in Final, Settle(o, outcome)
  PROVE  Allowed
BY DEF Allowed, LedgerNext, OperationStep

-----------------------------------------------------------------------------
(* finish, one write at a time.                                             *)
LEMMA FinishSteps ==
  ASSUME ServiceInv, FinishStep
  PROVE  Control' /\ Allowed
<1> USE DEF ServiceInv
<1>1. fin # Idle /\ mode # "down"
  BY DEF FinishStep, FinishReceipt, FinishIntent, FinishSettle, FinishUnlink, Idle,
         Control, LoopFree
<1>2. fin \in [at : {"receipt", "finalize", "settle", "unlink"}, op : Operations, outcome : Final]
  BY <1>1 DEF Control, FinOK
<1>3. scan = NoScan \/ scan.at = "orphans"
  BY <1>1 DEF Control, ScanOK, NoScan
<1>4. scan' = scan /\ stopping' = stopping /\ mode' = mode /\ admitted' = admitted
  BY DEF FinishStep, FinishReceipt, FinishIntent, FinishSettle, FinishUnlink, disk
<1>5. receipt' \in [Operations -> Final \cup {None}]
  BY <1>2 DEF FinishStep, FinishReceipt, FinishIntent, FinishSettle, FinishUnlink, Control, disk
<1>6. FinOK'
  BY <1>2 DEF FinishStep, FinishReceipt, FinishIntent, FinishSettle, FinishUnlink, FinOK, Return
<1>7. Control'
  BY <1>1, <1>3, <1>4, <1>5, <1>6 DEF Control, ScanOK, NoScan
<1>8. Allowed
  <2>1. CASE FinishReceipt \/ FinishUnlink
    BY <2>1 DEF FinishReceipt, FinishUnlink, Allowed
  <2>2. CASE FinishIntent
    BY <1>2, <2>2 DEF FinishIntent, Allowed, LedgerNext, OperationStep
  <2>3. CASE FinishSettle
    BY <1>2, <2>3, SettleAllowed DEF FinishSettle, Allowed
  <2> QED BY <2>1, <2>2, <2>3 DEF FinishStep
<1> QED BY <1>7, <1>8

-----------------------------------------------------------------------------
(* recover: what it reads from a receipt or an intent is an outcome.        *)
LEMMA ScanBegins ==
  ASSUME ServiceInv, Scan
  PROVE  Control' /\ Allowed
<1>1. scan' = BeginScan /\ fin = Idle /\ stopping = {} /\ mode # "down"
      /\ UNCHANGED <<ledgerVars, receipt, admitted, mode, fin, stopping>>
  BY DEF Scan, LoopFree, disk
<1>2. ScanOK'
  BY <1>1 DEF ScanOK, BeginScan, Active
<1>3. /\ scan'.at = "receipts"
      /\ \A o \in scan'.todo : receipt[o] # None
  BY <1>1 DEF BeginScan
<1> QED BY <1>1, <1>2, <1>3 DEF ServiceInv, Control, FinOK, Allowed

LEMMA ScanReceipts ==
  ASSUME ServiceInv,
         \/ \E o \in Operations : ScanReceipt(o) \/ ScanUnreadable(o)
         \/ ScanUnlink \/ ScanAborts \/ ScanToIntents
  PROVE  Control' /\ Allowed
<1> USE DEF ServiceInv, Control, Allowed
<1>1. scan.at \in {"receipts", "unlink"}
  BY DEF ScanReceipt, ScanUnreadable, ScanUnlink, ScanAborts, ScanToIntents
<1>2. fin = Idle /\ scan # NoScan /\ stopping = {} /\ mode # "down"
  BY <1>1 DEF NoScan, LoopFree
<1>3. scan \in [at : {"receipts", "unlink", "intents", "orphans"}, todo : SUBSET Operations,
                current : Operations \cup {None}, active : SUBSET Operations,
                held : SUBSET Operations]
  BY <1>2 DEF ScanOK
<1>4. ASSUME NEW o \in Operations, ScanReceipt(o) PROVE Control' /\ Allowed
  <2>1. receipt[o] \in Final
    BY <1>4 DEF ScanReceipt
  <2>2. Allowed
    BY <1>4, <2>1, SettleAllowed DEF ScanReceipt
  <2> QED BY <1>1, <1>2, <1>3, <1>4, <2>2 DEF ScanReceipt, FinOK, ScanOK, NoScan, LoopFree, disk
<1>5. ASSUME NEW o \in Operations, ScanUnreadable(o) PROVE Control' /\ Allowed
  BY <1>1, <1>2, <1>3, <1>5 DEF ScanUnreadable, FinOK, ScanOK, NoScan, LoopFree, disk
<1>6. CASE ScanUnlink
  <2>1. receipt' = [receipt EXCEPT ![scan.current] = None] /\ scan.at = "unlink"
    BY <1>6 DEF ScanUnlink
  <2> QED BY <1>1, <1>2, <1>3, <1>6, <2>1 DEF ScanUnlink, FinOK, ScanOK, NoScan, LoopFree
<1>7. CASE ScanAborts
  BY <1>1, <1>2, <1>3, <1>7 DEF ScanAborts, FinOK, ScanOK, NoScan, LoopFree, disk
<1>8. CASE ScanToIntents
  BY <1>1, <1>2, <1>3, <1>8 DEF ScanToIntents, FinOK, ScanOK, NoScan, LoopFree, ledgerVars, disk
<1> QED BY <1>4, <1>5, <1>6, <1>7, <1>8

LEMMA ScanRest ==
  ASSUME ServiceInv,
         \/ \E o \in Operations : ScanIntent(o) \/ ScanOrphan(o)
         \/ ScanToOrphans \/ ScanEnd
  PROVE  Control' /\ Allowed
<1> USE DEF ServiceInv, Control, Allowed
<1>1. scan.at = "intents" \/ (scan.at = "orphans" /\ fin = Idle)
  BY DEF ScanIntent, ScanOrphan, ScanToOrphans, ScanEnd
<1>2. fin = Idle /\ scan # NoScan /\ stopping = {} /\ mode # "down"
  BY <1>1 DEF NoScan, LoopFree
<1>3. scan \in [at : {"receipts", "unlink", "intents", "orphans"}, todo : SUBSET Operations,
                current : Operations \cup {None}, active : SUBSET Operations,
                held : SUBSET Operations]
  BY <1>2 DEF ScanOK
<1>4. ASSUME NEW o \in Operations, ScanIntent(o) PROVE Control' /\ Allowed
  <2>1. intent[o] \in Final /\ intent \in [Operations -> Final \cup {None}]
    BY <1>4 DEF ScanIntent, LedgerInv, TypeOK
  <2>2. Allowed
    BY <1>4, <2>1, SettleAllowed DEF ScanIntent
  <2>3. \A p \in Operations \ {o} : intent'[p] = intent[p]
    BY <1>4, <2>1 DEF ScanIntent, Settle, ledgerVars
  <2>4. UNCHANGED <<receipt, admitted, fin, stopping, mode>>
    BY <1>4 DEF ScanIntent, disk
  <2>5. /\ scan.at = "intents" /\ scan'.at = "intents" /\ scan' # NoScan
        /\ scan'.todo = scan.todo \ {o} /\ ScanOK'
    <3>1. CASE scan' = [scan EXCEPT !.todo = @ \ {o}, !.held = @ \ {o}]
      BY <1>3, <1>4, <3>1 DEF ScanIntent, ScanOK, NoScan
    <3>2. CASE scan' = [scan EXCEPT !.todo = @ \ {o}]
      BY <1>3, <1>4, <3>2 DEF ScanIntent, ScanOK, NoScan
    <3> QED BY <1>4, <3>1, <3>2 DEF ScanIntent
  <2>6. FinOK' /\ (mode' = "down" => LoopFree')
    BY <1>2, <2>4 DEF FinOK, Idle
  <2>7. \A p \in scan'.todo : intent'[p] # None
    BY <1>3, <2>3, <2>5
  <2> QED BY <1>2, <2>2, <2>4, <2>5, <2>6, <2>7
<1>5. ASSUME NEW o \in Operations, ScanOrphan(o) PROVE Control' /\ Allowed
  BY <1>1, <1>2, <1>3, <1>5 DEF ScanOrphan, Finish, Final, FinOK, ScanOK, NoScan, LoopFree, disk
<1>6. CASE ScanToOrphans
  BY <1>1, <1>2, <1>3, <1>6 DEF ScanToOrphans, FinOK, ScanOK, NoScan, LoopFree, disk
<1>7. CASE ScanEnd
  BY <1>1, <1>2, <1>3, <1>7 DEF ScanEnd, FinOK, ScanOK, NoScan, LoopFree, disk
<1> QED BY <1>4, <1>5, <1>6, <1>7

-----------------------------------------------------------------------------
(* Requests: one coroutine admits or rejects, another is sent away.         *)
LEMMA RequestSteps ==
  ASSUME ServiceInv, NEW o \in Operations, NEW i \in Copies, Request(o, i)
  PROVE  Control' /\ Allowed
<1> USE DEF ServiceInv
<1>1. CASE Deliver(o, i) \/ PreparationStopped(o, i) \/ PreparationRefused(o, i)
  BY <1>1, ControlCalm DEF Deliver, PreparationStopped, PreparationRefused, Allowed, ledgerVars, disk
<1>2. CASE AdmitChat(o, i)
  BY <1>2, ControlCalm, ReserveAllowed DEF AdmitChat, disk
<1>3. CASE AdmitTarget(o, i)
  BY <1>3, ControlCalm, ReserveAllowed DEF AdmitTarget
<1>4. CASE RejectTarget(o, i)
  BY <1>4, ControlFinish, ReserveAllowed DEF RejectTarget, Resumes, Final, disk
<1> QED BY <1>1, <1>2, <1>3, <1>4 DEF Request

(* Execution: the task of a run, and its calls in worker threads.           *)
LEMMA ExecutionSteps ==
  ASSUME ServiceInv, NEW o \in Operations, Execution(o)
  PROVE  Control' /\ Allowed
<1> USE DEF ServiceInv
<1>1. CASE StartRun(o)
  <2>1. LoopFree /\ mode # "down" /\ UNCHANGED <<receipt, admitted, scan, stopping, mode>>
    BY <1>1 DEF StartRun, disk
  <2>2. CASE UNCHANGED fin /\ (Started(o) \/ UNCHANGED ledgerVars)
    BY <2>1, <2>2, ControlCalm DEF Allowed, LedgerNext, OperationStep
  <2>3. CASE Finish(o, "failed") /\ UNCHANGED ledgerVars
    BY <2>1, <2>3, ControlFinish DEF Allowed, Final
  <2> QED BY <1>1, <2>2, <2>3 DEF StartRun
<1>2. ASSUME NEW c \in Calls, BeforeCall(o, c) \/ CallFails(o, c) PROVE Control' /\ Allowed
  BY <1>2, ControlCalm DEF BeforeCall, CallFails, Allowed, ledgerVars, disk
<1>3. ASSUME NEW c \in Calls, CallReturns(o, c) PROVE Control' /\ Allowed
  BY <1>3, ControlCalm DEF CallReturns, RecordCall, Allowed, LedgerNext, OperationStep,
                           ledgerVars, disk
<1>4. CASE BudgetExhausted(o) \/ SourceClosed(o)
  BY <1>4, ControlCalm DEF BudgetExhausted, SourceClosed, Allowed, ledgerVars, disk
<1>5. CASE SourceFinal(o)
  <2>1. Ending(o, "completed") \in Final
    BY EndingFinal DEF Final
  <2> QED BY <1>5, <2>1, ControlFinish DEF SourceFinal, Executing, Allowed, LedgerNext,
                                           OperationStep, disk
<1>6. CASE SourceFails(o) \/ SourceStopped(o)
  <2>1. Ending(o, "failed") \in Final /\ Ending(o, "stopped") \in Final
    BY EndingFinal DEF Final
  <2> QED BY <1>6, <2>1, ControlFinish DEF SourceFails, SourceStopped, Executing, Allowed, disk
<1>7. CASE CancelDelivered(o)
  <2>1. /\ LoopFree /\ mode # "down" /\ UNCHANGED <<receipt, admitted, scan, stopping, mode>>
        /\ UNCHANGED ledgerVars
    BY <1>7 DEF CancelDelivered, disk
  <2>2. CASE UNCHANGED fin
    BY <2>1, <2>2, ControlCalm DEF Allowed
  <2>3. ASSUME NEW outcome \in {"stopped", "failed"}, Finish(o, Ending(o, outcome))
        PROVE Control' /\ Allowed
    BY <2>1, <2>3, EndingFinal, ControlFinish DEF Allowed, Final
  <2> QED BY <1>7, <2>2, <2>3 DEF CancelDelivered
<1> QED BY <1>1, <1>2, <1>3, <1>4, <1>5, <1>6, <1>7 DEF Execution

(* The stop endpoints.                                                      *)
LEMMA StopSteps ==
  ASSUME ServiceInv, Stop
  PROVE  Control' /\ Allowed
<1> USE DEF ServiceInv
<1>1. ASSUME NEW t, NEW selected, NEW targets, RequestStop(t, selected, targets)
      PROVE Control' /\ Allowed
  BY <1>1 DEF RequestStop, Control, FinOK, ScanOK, LoopFree, Allowed, ledgerVars
<1>2. ASSUME NEW o \in Operations, StopVisit(o) PROVE Control' /\ Allowed
  BY <1>2 DEF StopVisit, Finish, Final, Control, FinOK, ScanOK, LoopFree, NoScan, Idle,
              Allowed, ledgerVars, disk
<1> QED BY <1>1, <1>2 DEF Stop

(* The life of the process, orderly and otherwise.                          *)
LEMMA ProcessSteps ==
  ASSUME ServiceInv, Process
  PROVE  Control' /\ Allowed
<1> USE DEF ServiceInv
<1>1. CASE Shutdown \/ Close
  BY <1>1 DEF Shutdown, Close, Control, FinOK, ScanOK, LoopFree, NoScan, Allowed, ledgerVars, disk
<1>2. CASE Exit \/ Crash
  BY <1>2 DEF Exit, Crash, Down, Control, FinOK, ScanOK, LoopFree, NoScan, Allowed, disk
<1>3. CASE Start
  <2>1. /\ LoopFree /\ mode' = "starting"
        /\ UNCHANGED <<ledgerVars, receipt, admitted, fin, stopping>>
    BY <1>3 DEF Start, Control, disk
  <2>2. PICK resumed \in SUBSET {o \in admitted \ saved : Pending(o)} :
          scan' = [BeginScan EXCEPT !.active = resumed]
    BY <1>3 DEF Start
  <2>3. scan' = [at |-> "receipts", todo |-> {o \in Operations : receipt[o] # None},
                 current |-> None, active |-> resumed, held |-> {}]
    BY <2>2 DEF BeginScan
  <2>4. resumed \subseteq Operations
    BY <2>2 DEF Control
  <2> QED BY <2>1, <2>3, <2>4 DEF Control, FinOK, ScanOK, LoopFree, Allowed
<1> QED BY <1>1, <1>2, <1>3 DEF Process

LEMMA AdministrationSteps ==
  ASSUME ServiceInv, Administration
  PROVE  Control' /\ Allowed
<1>1. UNCHANGED intent
  BY DEF Administration, AdminStep, Adjust, CreateInvites, RegisterInvited
<1> QED BY <1>1, ControlCalm
        DEF ServiceInv, Administration, Allowed, LedgerNext, disk, proc

-----------------------------------------------------------------------------
LEMMA ServiceInit == Init => ServiceInv /\ LedgerInit
<1>1. Init => LedgerInit /\ LedgerInv
  BY LedgerInvInit DEF Init
<1>2. Init => Control
  BY DEF Init, Control, FinOK, ScanOK, LoopFree, NoScan
<1> QED BY <1>1, <1>2 DEF ServiceInv

LEMMA ServiceStep == ServiceInv /\ [Next]_vars => ServiceInv' /\ [LedgerNext]_ledgerVars
<1> SUFFICES ASSUME ServiceInv, [Next]_vars PROVE Control' /\ Allowed
  BY LedgerInvStep DEF ServiceInv, Allowed
<1>1. CASE UNCHANGED vars
  BY <1>1, ControlCalm DEF ServiceInv, Allowed, vars, disk, proc, ledgerVars
<1>2. CASE FinishStep
  BY <1>2, FinishSteps
<1>3. CASE Scan \/ ScanStep
  BY <1>3, ScanBegins, ScanReceipts, ScanRest DEF ScanStep
<1>4. ASSUME NEW o \in Operations, NEW i \in Copies, Request(o, i) PROVE Control' /\ Allowed
  BY <1>4, RequestSteps
<1>5. ASSUME NEW o \in Operations, Execution(o) PROVE Control' /\ Allowed
  BY <1>5, ExecutionSteps
<1>6. CASE Stop \/ Process \/ Administration
  BY <1>6, StopSteps, ProcessSteps, AdministrationSteps
<1> QED BY <1>1, <1>2, <1>3, <1>4, <1>5, <1>6 DEF Next

(* Whatever requests, stops, failures, crashes and recoveries come in which *)
(* order, the service does to the ledger only what the ledger allows.       *)
THEOREM ServiceImplementsLedger == Spec => ImplementsLedger
BY ServiceInit, ServiceStep, PTL DEF Spec, ImplementsLedger, LedgerSpec

(* No user of the running service ever owes.                                *)
THEOREM ServiceNobodyOwes == Spec => []Solvent
BY ServiceImplementsLedger, NobodyOwes, PTL DEF ImplementsLedger

(* The statement of every user of the running service adds up.              *)
THEOREM ServiceStatement == Spec => []StatementAddsUp
BY ServiceImplementsLedger, StatementCorrect, PTL DEF ImplementsLedger

(* The statement explains every balance of the running service.             *)
THEOREM ServiceReconciles == Spec => []Reconciled
BY ServiceImplementsLedger, BalancesReconcile, PTL DEF ImplementsLedger

(* The running service implements the wallet that users are promised.       *)
THEOREM ServiceImplementsWallet == Spec => ImplementsWallet
BY ServiceImplementsLedger, LedgerImplementsWallet, PTL DEF ImplementsLedger

-----------------------------------------------------------------------------
(* What a user reads about an operation is true: an outcome is earned when  *)
(* it is handed to finish, and stays earned on its way through the receipt  *)
(* and the intent to the status, however many processes it takes.           *)

RunType ==
  [pc : {"absent", "queued", "running", "done", "dead"}, started : BOOLEAN, stopped : BOOLEAN,
   cancelled : BOOLEAN, exhausted : BOOLEAN, cancelling : BOOLEAN]

Known(o) == status[o] # "none"

Earned(o, outcome) ==
  /\ outcome = "completed" => o \in saved
  /\ outcome = "stopped" => o \in asked
  /\ outcome = "budget_exhausted" => Exhausted(o)

RunsEarned ==
  /\ run \in [Operations -> RunType]
  /\ stopFile \subseteq asked
  /\ stopping \subseteq Operations \cap asked
  /\ \A o \in Operations :
       /\ run[o].pc # "absent" \/ o \in stopping => Known(o)
       /\ run[o].stopped => o \in asked
       /\ run[o].exhausted => Known(o) /\ Exhausted(o)

RowsEarned ==
  \A o \in Operations :
    /\ Earned(o, status[o])
    /\ receipt[o] # None => Known(o) /\ Earned(o, receipt[o])
    /\ intent[o] # None => Known(o) /\ Earned(o, intent[o])

LoopEarned ==
  /\ fin # Idle => Known(fin.op) /\ Earned(fin.op, fin.outcome)
  /\ scan.at = "orphans" => \A o \in scan.todo : Known(o)

OutcomeInv == StatementInv /\ Control /\ RunsEarned /\ RowsEarned /\ LoopEarned

-----------------------------------------------------------------------------
(* Rows are never deleted, and a budget never changes.                      *)
LEMMA KnownStays ==
  ASSUME LedgerInv, Allowed, NEW o \in Operations, Known(o)
  PROVE  Known(o)' /\ budget'[o] = budget[o]
<1> USE DEF Known, LedgerInv
<1>1. CASE UNCHANGED ledgerVars
  BY <1>1 DEF ledgerVars
<1>2. ASSUME NEW p \in Operations, OperationStep(p) PROVE Known(o)' /\ budget'[o] = budget[o]
  <2>1. CASE \E b \in Budgets : Reserve(p, b)
    BY <2>1 DEF Reserve, TypeOK
  <2>2. CASE Started(p) \/ \E c \in Calls, k \in Costs : RecordCall(p, c, k)
    BY <2>2 DEF Started, RecordCall, TypeOK
  <2>3. CASE SaveResult(p) \/ \E outcome \in Final : Finalize(p, outcome)
    BY <2>3 DEF SaveResult, Finalize, SetIntent, TypeOK
  <2>4. CASE \E outcome \in Final : Settle(p, outcome)
    BY <2>4 DEF Settle, SettleFirst, SettleAgain, TypeOK, Final
  <2> QED BY <1>2, <2>1, <2>2, <2>3, <2>4 DEF OperationStep
<1>3. CASE AdminStep
  BY <1>3 DEF AdminStep, Adjust, CreateInvites, RegisterInvited
<1> QED BY <1>1, <1>2, <1>3 DEF Allowed, LedgerNext

(* Consumption only grows: the sum is taken over more calls.                *)
LEMMA ConsumedGrows ==
  ASSUME StatementInv, Allowed, NEW o \in Operations
  PROVE  consumed[o] \in Nat /\ consumed'[o] \in Nat /\ consumed[o] <= consumed'[o]
<1> USE DEF StatementInv, LedgerInv
<1>1. consumed[o] \in Nat /\ consumed'[o] \in Nat
  BY LedgerInvStep DEF Allowed, TypeOK
<1>2. CASE UNCHANGED consumed
  BY <1>1, <1>2
<1>3. ASSUME NEW p \in Operations, NEW c \in Calls, NEW k \in Costs, RecordCall(p, c, k)
      PROVE consumed[o] <= consumed'[o]
  <2>1. CASE p # o
    BY <1>1, <1>3, <2>1 DEF RecordCall, TypeOK
  <2>2. CASE p = o
    <3>1. consumed[o] = CostOf(calls[o]) /\ consumed'[o] = CostOf(calls'[o])
      BY <1>3, <2>2 DEF Statements, Consistent, RecordCall, TypeOK
    <3>2. CASE calls'[o] = calls[o]
      BY <1>1, <3>1, <3>2
    <3>3. CASE calls'[o] = calls[o] \cup {[id |-> c, cost |-> k]} /\ \A r \in calls[o] : r.id # c
      <4> DEFINE row == [id |-> c, cost |-> k]
                 f == [r \in calls[o] \cup {row} |-> r.cost]
      <4>1. row \notin calls[o] /\ IsFiniteSet(calls[o])
        BY <3>3 DEF CallsFinite
      <4>2. \A r \in calls[o] \cup {row} : f[r] \in Nat
        <5>1. calls[o] \subseteq [id : Calls, cost : Costs]
          BY DEF TypeOK
        <5>2. \A r \in calls[o] \cup {row} : r.cost \in Nat
          BY <5>1, CostsAssumption
        <5> QED BY <5>2
      <4>3. Total(calls[o] \cup {row}, f) = Total(calls[o], f) + f[row]
        BY <4>1, <4>2, TotalAdd
      <4>4. Total(calls[o], f) = CostOf(calls[o])
        <5>1. \A r \in calls[o] : f[r] = [q \in calls[o] |-> q.cost][r]
          OBVIOUS
        <5> QED BY <5>1, TotalSame DEF CostOf
      <4>5. Total(calls[o] \cup {row}, f) = CostOf(calls'[o])
        BY <3>3 DEF CostOf
      <4>6. f[row] \in Nat
        BY <4>2
      <4> HIDE DEF f, row
      <4> QED BY <1>1, <3>1, <4>3, <4>4, <4>5, <4>6
    <3> QED BY <1>3, <2>2, <3>2, <3>3 DEF RecordCall, TypeOK
  <2> QED BY <2>1, <2>2
<1>4. UNCHANGED consumed \/ \E p \in Operations, c \in Calls, k \in Costs : RecordCall(p, c, k)
  BY DEF Allowed, ledgerVars, LedgerNext, OperationStep, Reserve, Started, SaveResult, Finalize,
         Settle, SettleFirst, SettleAgain, AdminStep, Adjust, CreateInvites, RegisterInvited
<1> QED BY <1>1, <1>2, <1>3, <1>4

(* An outcome that is earned stays earned.                                  *)
LEMMA EarnedStays ==
  ASSUME StatementInv, Allowed, asked \subseteq asked', NEW o \in Operations, Known(o),
         NEW outcome, Earned(o, outcome)
  PROVE  Known(o)' /\ Earned(o, outcome)'
<1>1. Known(o)' /\ budget'[o] = budget[o]
  BY KnownStays DEF StatementInv
<1>2. Exhausted(o) => Exhausted(o)'
  <2>1. budget[o] * Scale \in Nat
    BY CostsAssumption DEF StatementInv, LedgerInv, TypeOK
  <2> QED BY <1>1, <2>1, ConsumedGrows DEF Exhausted
<1>3. saved \subseteq saved'
  BY DEF Allowed, ledgerVars, LedgerNext, OperationStep, Reserve, Started, RecordCall, SaveResult,
         Finalize, Settle, AdminStep, Adjust, CreateInvites, RegisterInvited
<1> QED BY <1>1, <1>2, <1>3 DEF Earned

-----------------------------------------------------------------------------
(* What the rows say stays earned, if whatever a step writes is earned.     *)
LEMMA RowsKept ==
  ASSUME OutcomeInv, Allowed, asked \subseteq asked',
         \A o \in Operations :
           /\ status'[o] = status[o] \/ status'[o] \notin Final \/ Earned(o, status[o])'
           /\ receipt'[o] \in {receipt[o], None} \/ (Known(o)' /\ Earned(o, receipt[o])')
           /\ intent'[o] \in {intent[o], None} \/ (Known(o)' /\ Earned(o, intent[o])')
  PROVE  RowsEarned'
<1> SUFFICES ASSUME NEW o \in Operations
             PROVE  /\ Earned(o, status[o])'
                    /\ receipt'[o] # None => Known(o)' /\ Earned(o, receipt[o])'
                    /\ intent'[o] # None => Known(o)' /\ Earned(o, intent[o])'
  BY DEF RowsEarned
<1> USE DEF OutcomeInv, RowsEarned
<1>1. Earned(o, status[o])'
  <2>1. CASE status'[o] \notin Final
    BY <2>1 DEF Earned, Final
  <2>2. CASE status'[o] = status[o] /\ status[o] \in Final
    <3>1. Known(o) /\ Earned(o, status[o])
      BY <2>2 DEF Known, Final
    <3> QED BY <2>2, <3>1, EarnedStays DEF Earned
  <2> QED BY <2>1, <2>2
<1>2. receipt'[o] # None => Known(o)' /\ Earned(o, receipt[o])'
  BY EarnedStays DEF Earned
<1>3. intent'[o] # None => Known(o)' /\ Earned(o, intent[o])'
  BY EarnedStays DEF Earned
<1> QED BY <1>1, <1>2, <1>3

(* A settlement by an earned outcome.                                       *)
LEMMA RowsSettled ==
  ASSUME OutcomeInv, NEW o \in Operations, NEW outcome \in Final, Settle(o, outcome),
         Known(o), Earned(o, outcome), UNCHANGED <<receipt, asked>>
  PROVE  RowsEarned'
<1> USE DEF OutcomeInv, StatementInv, LedgerInv
<1>1. Allowed
  BY SettleAllowed
<1>2. Earned(o, outcome)'
  BY <1>1, EarnedStays
<1>3. \A p \in Operations : status'[p] = status[p] \/ (p = o /\ status'[p] = outcome)
  BY DEF Settle, SettleFirst, SettleAgain, TypeOK
<1>4. \A p \in Operations : intent'[p] \in {intent[p], None}
  BY DEF Settle, TypeOK
<1>5. \A p \in Operations : status'[p] = status[p] \/ Earned(p, status[p])'
  BY <1>2, <1>3 DEF Earned
<1> QED BY <1>1, <1>4, <1>5, RowsKept

(* A stored intent that is earned.                                          *)
LEMMA RowsIntended ==
  ASSUME OutcomeInv, Allowed, NEW o \in Operations, NEW outcome \in Final, SetIntent(o, outcome),
         Known(o)', Earned(o, outcome)', UNCHANGED <<receipt, asked>>
  PROVE  RowsEarned'
<1> USE DEF OutcomeInv, StatementInv, LedgerInv
<1>1. \A p \in Operations : status'[p] = status[p] \/ status'[p] \notin Final
  BY DEF SetIntent, TypeOK, Final
<1>2. \A p \in Operations : intent'[p] = intent[p] \/ (p = o /\ intent'[p] = outcome)
  BY DEF SetIntent, TypeOK
<1>3. \A p \in Operations : intent'[p] = intent[p] \/ (Known(p)' /\ Earned(p, intent[p])')
  BY <1>2 DEF Earned
<1> QED BY <1>1, <1>3, RowsKept

(* The runs: what a step adds to them is earned.                            *)
LEMMA RunsKept ==
  ASSUME OutcomeInv, Allowed, asked \subseteq asked',
         run' \in [Operations -> RunType],
         stopFile' \subseteq asked', stopping' \subseteq Operations \cap asked',
         \A o \in Operations :
           /\ run'[o].pc # "absent" => run[o].pc # "absent" \/ Known(o)'
           /\ o \in stopping' => Known(o)'
           /\ run'[o].stopped => run[o].stopped \/ o \in asked'
           /\ run'[o].exhausted => run[o].exhausted \/ (Known(o)' /\ Exhausted(o)')
  PROVE  RunsEarned'
<1> USE DEF OutcomeInv, StatementInv
<1>1. \A o \in Operations : Known(o) => Known(o)'
  BY KnownStays
<1>2. \A o \in Operations : Known(o) /\ Exhausted(o) => Exhausted(o)'
  <2> SUFFICES ASSUME NEW o \in Operations, Known(o), Exhausted(o) PROVE Exhausted(o)'
    OBVIOUS
  <2>1. Earned(o, "budget_exhausted")
    BY DEF Earned
  <2> QED BY <2>1, EarnedStays DEF Earned
<1> QED BY <1>1, <1>2 DEF RunsEarned

LEMMA RunsSame ==
  ASSUME OutcomeInv, Allowed, UNCHANGED <<run, stopFile, stopping, asked>>
  PROVE  RunsEarned'
<1>1. \A o \in Operations : Known(o) => Known(o)'
  BY KnownStays DEF OutcomeInv, StatementInv
<1> QED BY <1>1, RunsKept DEF OutcomeInv, RunsEarned

(* The loop: finish is called with an earned outcome or goes on with one.   *)
LEMMA LoopKept ==
  ASSUME OutcomeInv, Allowed, asked \subseteq asked',
         \/ fin' = Idle
         \/ fin # Idle /\ fin'.op = fin.op /\ fin'.outcome = fin.outcome
         \/ Known(fin.op)' /\ Earned(fin.op, fin.outcome)',
         scan'.at = "orphans" =>
           (scan.at = "orphans" /\ scan'.todo \subseteq scan.todo) \/ \A o \in scan'.todo : Known(o)'
  PROVE  LoopEarned'
<1> USE DEF OutcomeInv
<1>1. fin' # Idle => (Known(fin.op) /\ Earned(fin.op, fin.outcome))'
  <2>1. CASE fin # Idle /\ fin'.op = fin.op /\ fin'.outcome = fin.outcome
    <3>1. fin.op \in Operations /\ Known(fin.op) /\ Earned(fin.op, fin.outcome)
      BY <2>1 DEF Control, FinOK, LoopEarned
    <3>2. \A o \in Operations, outcome \in Final :
            Known(o) /\ Earned(o, outcome) => Known(o)' /\ Earned(o, outcome)'
      BY EarnedStays
    <3>3. fin.outcome \in Final
      BY <2>1 DEF Control, FinOK
    <3> QED BY <2>1, <3>1, <3>2, <3>3 DEF Known, Earned, Exhausted
  <2> QED BY <2>1
<1>2. scan'.at = "orphans" => \A o \in scan'.todo : Known(o)'
  <2>1. CASE scan'.at = "orphans" /\ scan.at = "orphans" /\ scan'.todo \subseteq scan.todo
    <3>1. scan.todo \subseteq Operations
      BY <2>1 DEF Control, ScanOK, NoScan
    <3>2. \A o \in Operations : Known(o) => Known(o)'
      BY KnownStays DEF StatementInv
    <3> QED BY <2>1, <3>1, <3>2 DEF LoopEarned
  <2> QED BY <2>1
<1> QED BY <1>1, <1>2 DEF LoopEarned

(* What every step does beside the ledger.                                  *)
Outcomes == RunsEarned /\ RowsEarned /\ LoopEarned

LEMMA ReturnKept ==
  ASSUME OutcomeInv, Allowed, fin # Idle, Return, UNCHANGED <<stopFile, stopping, asked>>
  PROVE  RunsEarned'
<1>1. run' \in [Operations -> RunType]
  BY DEF OutcomeInv, RunsEarned, Return, RunType, Control, FinOK
<1>2. \A o \in Operations :
        /\ run'[o].pc # "absent" => run[o].pc # "absent"
        /\ run'[o].stopped = run[o].stopped /\ run'[o].exhausted = run[o].exhausted
  BY DEF OutcomeInv, RunsEarned, Return, RunType
<1>3. \A o \in Operations : Known(o) => Known(o)'
  BY KnownStays DEF OutcomeInv, StatementInv
<1> QED BY <1>1, <1>2, <1>3, RunsKept DEF OutcomeInv, RunsEarned

(* What finish was called with is earned in the next state too.             *)
LEMMA FinishedEarned ==
  ASSUME OutcomeInv, Allowed, fin # Idle, asked \subseteq asked'
  PROVE  /\ fin.op \in Operations /\ fin.outcome \in Final
         /\ Known(fin.op) /\ Earned(fin.op, fin.outcome)
         /\ \A o \in Operations : o = fin.op => Known(o)' /\
              \A outcome \in Final : outcome = fin.outcome => Earned(o, outcome)'
<1>1. fin.op \in Operations /\ fin.outcome \in Final
  BY DEF OutcomeInv, Control, FinOK
<1>2. Known(fin.op) /\ Earned(fin.op, fin.outcome)
  BY DEF OutcomeInv, LoopEarned
<1> QED BY <1>1, <1>2, EarnedStays, KnownStays DEF OutcomeInv, StatementInv

LEMMA FinishOutcomes ==
  ASSUME OutcomeInv, Allowed, FinishStep
  PROVE  Outcomes'
<1>1. fin # Idle /\ UNCHANGED <<stopFile, stopping, asked, scan>>
  BY DEF FinishStep, FinishReceipt, FinishIntent, FinishSettle, FinishUnlink, Idle, disk
<1>2. PICK o \in Operations, outcome \in Final :
        /\ o = fin.op /\ outcome = fin.outcome
        /\ Known(o) /\ Earned(o, outcome) /\ Known(o)' /\ Earned(o, outcome)'
  BY <1>1, FinishedEarned
<1>3. RunsEarned'
  BY <1>1, RunsSame, ReturnKept
     DEF FinishStep, FinishReceipt, FinishIntent, FinishSettle, FinishUnlink
<1>4. LoopEarned'
  <2>1. fin' = Idle \/ (fin'.op = fin.op /\ fin'.outcome = fin.outcome)
    BY <1>1 DEF FinishStep, FinishReceipt, FinishIntent, FinishSettle, FinishUnlink, Return,
                OutcomeInv, Control, FinOK
  <2> QED BY <1>1, <2>1, LoopKept
<1>5. RowsEarned'
  <2>1. CASE FinishReceipt
    <3>1. \A p \in Operations : status'[p] = status[p] /\ intent'[p] = intent[p]
      BY <2>1 DEF FinishReceipt, ledgerVars
    <3>2. \A p \in Operations : receipt'[p] = receipt[p] \/ (p = o /\ receipt'[p] = outcome)
      BY <1>2, <2>1 DEF FinishReceipt, OutcomeInv, Control
    <3>3. \A p \in Operations : receipt'[p] = receipt[p] \/ (Known(p)' /\ Earned(p, receipt[p])')
      BY <1>2, <3>2 DEF Earned
    <3> QED BY <1>1, <3>1, <3>3, RowsKept
  <2>2. CASE UNCHANGED <<ledgerVars, receipt>>
    BY <1>1, <2>2, RowsKept DEF ledgerVars
  <2>3. CASE FinishIntent
    <3>1. UNCHANGED receipt
      BY <2>3 DEF FinishIntent, disk
    <3>2. CASE SetIntent(o, outcome)
      BY <1>1, <1>2, <3>1, <3>2, RowsIntended
    <3> QED BY <1>2, <2>2, <2>3, <3>1, <3>2 DEF FinishIntent, Finalize
  <2>4. CASE FinishSettle
    <3>1. UNCHANGED receipt
      BY <2>4 DEF FinishSettle, disk
    <3> QED BY <1>1, <1>2, <2>2, <2>4, <3>1, RowsSettled DEF FinishSettle
  <2>5. CASE FinishUnlink
    <3>1. \A p \in Operations : receipt'[p] \in {receipt[p], None}
      BY <2>5 DEF FinishUnlink, OutcomeInv, Control
    <3> QED BY <1>1, <2>5, <3>1, RowsKept DEF FinishUnlink, ledgerVars
  <2> QED BY <2>1, <2>3, <2>4, <2>5 DEF FinishStep
<1> QED BY <1>3, <1>4, <1>5 DEF Outcomes

(* A step that calls finish, or leaves the loop, with the rows as they are. *)
LEMMA FinishCalled ==
  ASSUME OutcomeInv, Allowed, asked \subseteq asked', NEW o \in Operations, NEW outcome \in Final,
         Finish(o, outcome), Known(o)', Earned(o, outcome)',
         scan' = scan \/ (scan'.at = "orphans" /\ scan.at = "orphans" /\ scan'.todo \subseteq scan.todo)
  PROVE  LoopEarned'
<1>1. fin'.op = o /\ fin'.outcome = outcome
  BY DEF Finish
<1>2. (Known(fin.op) /\ Earned(fin.op, fin.outcome))'
  BY <1>1 DEF Known, Earned, Exhausted
<1> QED BY <1>2, LoopKept

LEMMA LoopIdle ==
  ASSUME OutcomeInv, Allowed, asked \subseteq asked', fin' = fin \/ fin' = Idle,
         scan'.at # "orphans" \/ scan' = scan
  PROVE  LoopEarned'
BY LoopKept

LEMMA RowsSame ==
  ASSUME OutcomeInv, Allowed, asked \subseteq asked', UNCHANGED <<receipt, intent>>,
         \A o \in Operations : status'[o] = status[o] \/ status'[o] \notin Final
  PROVE  RowsEarned'
BY RowsKept

LEMMA ScanOutcomes ==
  ASSUME OutcomeInv, Allowed, Scan \/ ScanStep
  PROVE  Outcomes'
<1>1. asked' = asked /\ stopFile' = stopFile /\ stopping' = stopping
  BY DEF Scan, ScanStep, ScanReceipt, ScanUnreadable, ScanIntent, ScanOrphan, ScanUnlink,
         ScanAborts, ScanToIntents, ScanToOrphans, ScanEnd, disk
<1>2. RunsEarned'
  <2>1. CASE UNCHANGED run
    BY <1>1, <2>1, RunsSame
  <2>2. CASE run' = [o \in Operations |-> NoRun]
    BY <1>1, <2>2, RunsKept, KnownStays DEF RunType, NoRun, OutcomeInv, RunsEarned, StatementInv
  <2> QED BY <2>1, <2>2
          DEF Scan, ScanStep, ScanReceipt, ScanUnreadable, ScanIntent, ScanOrphan, ScanUnlink,
              ScanAborts, ScanToIntents, ScanToOrphans, ScanEnd
<1>3. CASE Scan \/ ScanAborts \/ ScanToIntents \/ ScanEnd
           \/ \E o \in Operations : ScanUnreadable(o)
  <2>1. UNCHANGED <<ledgerVars, receipt, fin>>
    BY <1>3 DEF Scan, ScanUnreadable, ScanAborts, ScanToIntents, ScanEnd, disk
  <2>2. scan'.at # "orphans"
    <3>1. CASE \E o \in Operations : ScanUnreadable(o)
      BY <3>1 DEF ScanUnreadable, OutcomeInv, Control, ScanOK, NoScan
    <3>2. CASE Scan \/ ScanAborts \/ ScanToIntents \/ ScanEnd
      <4>1. CASE ScanToIntents
        BY <4>1 DEF ScanToIntents, OutcomeInv, Control, ScanOK, NoScan
      <4> QED BY <3>2, <4>1 DEF Scan, BeginScan, ScanAborts, ScanEnd, NoScan
    <3> QED BY <1>3, <3>1, <3>2
  <2> QED BY <1>1, <1>2, <2>1, <2>2, RowsSame, LoopIdle DEF Outcomes, ledgerVars
<1>4. ASSUME NEW o \in Operations, ScanReceipt(o) PROVE Outcomes'
  <2>1. /\ receipt[o] \in Final /\ Known(o) /\ Earned(o, receipt[o])
        /\ Settle(o, receipt[o]) /\ UNCHANGED <<receipt, fin>>
    BY <1>4 DEF ScanReceipt, OutcomeInv, Control, RowsEarned, disk
  <2>2. RowsEarned'
    BY <1>1, <2>1, RowsSettled
  <2>3. scan'.at # "orphans"
    BY <1>4 DEF ScanReceipt, OutcomeInv, Control, ScanOK, NoScan
  <2> QED BY <1>1, <1>2, <2>1, <2>2, <2>3, LoopIdle DEF Outcomes
<1>5. CASE ScanUnlink
  <2>1. UNCHANGED <<ledgerVars, fin>> /\ \A o \in Operations : receipt'[o] \in {receipt[o], None}
    BY <1>5 DEF ScanUnlink, OutcomeInv, Control
  <2>2. scan'.at # "orphans"
    BY <1>5 DEF ScanUnlink, OutcomeInv, Control, ScanOK, NoScan
  <2> QED BY <1>1, <1>2, <2>1, <2>2, RowsKept, LoopIdle DEF Outcomes, ledgerVars
<1>6. ASSUME NEW o \in Operations, ScanIntent(o) PROVE Outcomes'
  <2>1. /\ intent[o] \in Final /\ Known(o) /\ Earned(o, intent[o])
        /\ UNCHANGED <<receipt, fin>>
        /\ Settle(o, intent[o]) \/ UNCHANGED ledgerVars
    BY <1>6 DEF ScanIntent, OutcomeInv, StatementInv, LedgerInv, TypeOK, Control, RowsEarned, disk
  <2>2. RowsEarned'
    <3>1. CASE Settle(o, intent[o])
      BY <1>1, <2>1, <3>1, RowsSettled
    <3>2. CASE UNCHANGED ledgerVars
      BY <1>1, <2>1, <3>2, RowsSame DEF ledgerVars
    <3> QED BY <2>1, <3>1, <3>2
  <2>3. scan'.at # "orphans"
    BY <1>6 DEF ScanIntent, OutcomeInv, Control, ScanOK, NoScan
  <2> QED BY <1>1, <1>2, <2>1, <2>2, <2>3, LoopIdle DEF Outcomes
<1>7. CASE ScanToOrphans
  <2>1. UNCHANGED <<ledgerVars, receipt, fin>>
    BY <1>7 DEF ScanToOrphans, disk
  <2>2. scan'.todo \subseteq {o \in Operations : Pending(o)}
    BY <1>7 DEF ScanToOrphans, OutcomeInv, Control, ScanOK, NoScan
  <2>3. \A o \in scan'.todo : Known(o)'
    BY <2>1, <2>2 DEF Pending, Known, ledgerVars
  <2> QED BY <1>1, <1>2, <2>1, <2>3, RowsSame, LoopKept DEF Outcomes, ledgerVars
<1>8. ASSUME NEW o \in Operations, ScanOrphan(o) PROVE Outcomes'
  <2>1. Known(o) /\ UNCHANGED <<ledgerVars, receipt>> /\ Finish(o, "failed")
    BY <1>8 DEF ScanOrphan, OutcomeInv, LoopEarned, disk
  <2>2. Known(o)' /\ Earned(o, "failed")'
    BY <2>1, KnownStays DEF Earned, OutcomeInv, StatementInv
  <2>3. scan'.at = "orphans" /\ scan.at = "orphans" /\ scan'.todo \subseteq scan.todo
    BY <1>8 DEF ScanOrphan, OutcomeInv, Control, ScanOK, NoScan
  <2>4. "failed" \in Final
    BY DEF Final
  <2> QED BY <1>1, <1>2, <2>1, <2>2, <2>3, <2>4, RowsSame, FinishCalled DEF Outcomes, ledgerVars
<1> QED BY <1>3, <1>4, <1>5, <1>6, <1>7, <1>8 DEF ScanStep

(* Admission: what is submitted has a row.                                  *)
LEMMA ReserveKnown ==
  ASSUME OutcomeInv, NEW o \in Operations, FindOrReserve(o)
  PROVE  /\ Known(o)' /\ UNCHANGED intent
         /\ \A p \in Operations : status'[p] = status[p] \/ status'[p] \notin Final
BY DEF FindOrReserve, Reserve, Known, Final, OutcomeInv, StatementInv, LedgerInv, TypeOK, ledgerVars

LEMMA SubmitKept ==
  ASSUME OutcomeInv, Allowed, NEW o \in Operations, Submit(o) \/ UNCHANGED run, Known(o)',
         UNCHANGED <<stopFile, stopping, asked>>
  PROVE  RunsEarned'
<1>1. CASE UNCHANGED run
  BY <1>1, RunsSame
<1>2. CASE Submit(o) /\ ~UNCHANGED run
  <2> DEFINE runs == [run EXCEPT ![o].pc = IF status[o] \in Final THEN "done" ELSE "queued"]
  <2>1. PICK gone \in SUBSET Operations :
          run' = [p \in Operations |-> IF p \in gone THEN NoRun ELSE runs[p]]
    BY <1>2 DEF Submit, Evicted
  <2>2. runs \in [Operations -> RunType]
    BY DEF OutcomeInv, RunsEarned, RunType
  <2>3. \A p \in Operations : /\ runs[p].pc # "absent" => run[p].pc # "absent" \/ p = o
                              /\ runs[p].stopped = run[p].stopped
                              /\ runs[p].exhausted = run[p].exhausted
    BY DEF OutcomeInv, RunsEarned, RunType
  <2> HIDE DEF runs
  <2>4. run' \in [Operations -> RunType]
    BY <2>1, <2>2 DEF RunType, NoRun
  <2>5. \A p \in Operations : /\ run'[p].pc # "absent" => run[p].pc # "absent" \/ p = o
                              /\ run'[p].stopped => run[p].stopped
                              /\ run'[p].exhausted => run[p].exhausted
    BY <2>1, <2>3 DEF NoRun
  <2>6. \A p \in Operations : (p = o \/ Known(p)) => Known(p)'
    BY KnownStays DEF OutcomeInv, StatementInv
  <2> QED BY <2>4, <2>5, <2>6, RunsKept DEF OutcomeInv, RunsEarned
<1> QED BY <1>1, <1>2

LEMMA RequestOutcomes ==
  ASSUME OutcomeInv, Allowed, NEW o \in Operations, NEW i \in Copies, Request(o, i)
  PROVE  Outcomes'
<1>1. UNCHANGED <<receipt, stopFile, stopping, asked, scan>>
  BY DEF Request, Deliver, PreparationStopped, PreparationRefused, AdmitChat, AdmitTarget,
         RejectTarget, disk
<1>2. CASE Deliver(o, i) \/ PreparationStopped(o, i) \/ PreparationRefused(o, i)
  <2>1. UNCHANGED <<ledgerVars, fin>>
    BY <1>2 DEF Deliver, PreparationStopped, PreparationRefused
  <2>2. UNCHANGED run \/ (Submit(o) /\ Known(o)')
    BY <1>2, <2>1 DEF Deliver, PreparationStopped, PreparationRefused, Known, Final, ledgerVars
  <2> QED BY <1>1, <2>1, <2>2, SubmitKept, RunsSame, RowsSame, LoopIdle DEF Outcomes, ledgerVars
<1>3. CASE AdmitChat(o, i) \/ AdmitTarget(o, i)
  <2>1. FindOrReserve(o) /\ UNCHANGED fin /\ (Submit(o) \/ UNCHANGED run)
    BY <1>3 DEF AdmitChat, AdmitTarget
  <2> QED BY <1>1, <2>1, ReserveKnown, SubmitKept, RowsSame, LoopIdle DEF Outcomes
<1>4. CASE RejectTarget(o, i)
  <2>1. FindOrReserve(o) /\ UNCHANGED run /\ Finish(o, "failed")
    BY <1>4 DEF RejectTarget
  <2>2. Earned(o, "failed")' /\ "failed" \in Final
    BY DEF Earned, Final
  <2> QED BY <1>1, <2>1, <2>2, ReserveKnown, RunsSame, RowsSame, FinishCalled DEF Outcomes
<1> QED BY <1>2, <1>3, <1>4 DEF Request

(* The outcome of a source, whether or not its budget was used up.          *)
LEMMA EndingEarned ==
  ASSUME OutcomeInv, Allowed, asked \subseteq asked', NEW o \in Operations,
         run[o].pc # "absent", NEW outcome \in Final, Earned(o, outcome)'
  PROVE  \E e \in Final : e = Ending(o, outcome) /\ Known(o)' /\ Earned(o, e)'
<1>1. Known(o) /\ Known(o)'
  BY KnownStays DEF OutcomeInv, RunsEarned, StatementInv
<1>2. CASE run[o].exhausted
  <2>1. Earned(o, "budget_exhausted")
    BY <1>2 DEF OutcomeInv, RunsEarned, Earned
  <2>2. Earned(o, "budget_exhausted")'
    BY <1>1, <2>1, EarnedStays DEF OutcomeInv
  <2> QED BY <1>1, <1>2, <2>2 DEF Ending, Final
<1>3. CASE ~run[o].exhausted
  BY <1>1, <1>3 DEF Ending
<1> QED BY <1>2, <1>3

(* A task that ends: finish is called, and the runs are as they were.       *)
LEMMA SourceEnds ==
  ASSUME OutcomeInv, Allowed, NEW o \in Operations, run[o].pc # "absent",
         NEW outcome \in Final, Finish(o, Ending(o, outcome)), Earned(o, outcome)',
         UNCHANGED <<run, stopFile, stopping, asked, scan>>
  PROVE  RunsEarned' /\ LoopEarned'
<1>1. PICK e \in Final : e = Ending(o, outcome) /\ Known(o)' /\ Earned(o, e)'
  BY EndingEarned
<1>2. Finish(o, e)
  BY <1>1
<1> QED BY <1>1, <1>2, RunsSame, FinishCalled

LEMMA ExecutionOutcomes ==
  ASSUME OutcomeInv, Allowed, NEW o \in Operations, Execution(o)
  PROVE  Outcomes'
<1>1. UNCHANGED <<receipt, stopFile, stopping, asked, scan>>
  BY DEF Execution, StartRun, BeforeCall, CallReturns, CallFails, BudgetExhausted, SourceFinal,
         SourceFails, SourceStopped, SourceClosed, CancelDelivered, disk
<1>2. \A p \in Operations : Known(p) => Known(p)'
  BY KnownStays DEF OutcomeInv, StatementInv
<1>3. \A p \in Operations : run[p].pc # "absent" => Known(p)'
  BY <1>2 DEF OutcomeInv, RunsEarned
<1>4. CASE StartRun(o)
  <2>1. /\ run' = [run EXCEPT ![o].pc = "running", ![o].started = TRUE]
        /\ run[o].pc # "absent"
    BY <1>4 DEF StartRun
  <2>2. /\ run' \in [Operations -> RunType]
        /\ \A p \in Operations : /\ run'[p].pc # "absent" => run[p].pc # "absent"
                                 /\ run'[p].stopped = run[p].stopped
                                 /\ run'[p].exhausted = run[p].exhausted
    <3>1. run \in [Operations -> RunType] /\ [run[o] EXCEPT !.pc = "running", !.started = TRUE] \in RunType
      BY DEF OutcomeInv, RunsEarned, RunType
    <3>2. run' = [run EXCEPT ![o] = [run[o] EXCEPT !.pc = "running", !.started = TRUE]]
      BY <2>1
    <3>3. run' \in [Operations -> RunType]
      BY <3>1, <3>2
    <3>4. \A p \in Operations \ {o} : run'[p] = run[p]
      BY <3>1, <3>2
    <3>5. run'[o].stopped = run[o].stopped /\ run'[o].exhausted = run[o].exhausted
      BY <3>1, <3>2 DEF RunType
    <3> QED BY <2>1, <3>3, <3>4, <3>5
  <2>3. RunsEarned'
    BY <1>1, <1>2, <2>2, RunsKept DEF OutcomeInv, RunsEarned
  <2>4. RowsEarned'
    <3>1. Started(o) \/ UNCHANGED ledgerVars
      BY <1>4 DEF StartRun
    <3>2. UNCHANGED intent /\ \A p \in Operations : status'[p] = status[p] \/ status'[p] \notin Final
      BY <3>1 DEF Started, Final, ledgerVars, OutcomeInv, StatementInv, LedgerInv, TypeOK
    <3> QED BY <1>1, <3>2, RowsSame
  <2>5. LoopEarned'
    <3>1. UNCHANGED fin \/ Finish(o, "failed")
      BY <1>4 DEF StartRun
    <3>2. Earned(o, "failed")' /\ "failed" \in Final /\ Known(o)'
      BY <1>3, <2>1 DEF Earned, Final
    <3> QED BY <1>1, <3>1, <3>2, LoopIdle, FinishCalled
  <2> QED BY <2>3, <2>4, <2>5 DEF Outcomes
<1>5. ASSUME NEW c \in Calls, BeforeCall(o, c) \/ CallReturns(o, c) \/ CallFails(o, c)
      PROVE  Outcomes'
  <2>1. UNCHANGED <<run, fin, status, intent>>
    BY <1>5 DEF BeforeCall, CallReturns, CallFails, RecordCall, ledgerVars
  <2> QED BY <1>1, <2>1, RunsSame, RowsSame, LoopIdle DEF Outcomes
<1>6. CASE BudgetExhausted(o) \/ SourceClosed(o)
  <2>1. UNCHANGED <<ledgerVars, fin>>
    BY <1>6 DEF BudgetExhausted, SourceClosed
  <2>2. run' \in [Operations -> RunType]
    <3>1. run \in [Operations -> RunType]
      BY DEF OutcomeInv, RunsEarned
    <3>2. /\ [run[o] EXCEPT !.exhausted = TRUE] \in RunType
          /\ [run[o] EXCEPT !.pc = "done"] \in RunType
      BY <3>1 DEF RunType
    <3>3. CASE run' = [run EXCEPT ![o].exhausted = TRUE]
      <4>1. run' = [run EXCEPT ![o] = [run[o] EXCEPT !.exhausted = TRUE]]
        BY <3>3
      <4> QED BY <3>1, <3>2, <4>1
    <3>4. CASE run' = [run EXCEPT ![o].pc = "done"]
      <4>1. run' = [run EXCEPT ![o] = [run[o] EXCEPT !.pc = "done"]]
        BY <3>4
      <4> QED BY <3>1, <3>2, <4>1
    <3>5. \/ run' = [run EXCEPT ![o].exhausted = TRUE]
          \/ run' = [run EXCEPT ![o].pc = "done"]
      BY <1>6 DEF BudgetExhausted, SourceClosed
    <3> QED BY <3>3, <3>4, <3>5
  <2>3. \A p \in Operations :
          /\ run'[p].pc # "absent" => run[p].pc # "absent"
          /\ run'[p].stopped = run[p].stopped
          /\ run'[p].exhausted => run[p].exhausted \/ (Known(p) /\ Exhausted(p))
    <3>1. CASE BudgetExhausted(o)
      <4>1. run' = [run EXCEPT ![o].exhausted = TRUE] /\ Exhausted(o) /\ Known(o)
        BY <3>1 DEF BudgetExhausted, Gate, CanContinue, Known
      <4>2. run \in [Operations -> RunType] /\ (run[o].pc # "absent" \/ run[o].pc = "absent")
        BY DEF OutcomeInv, RunsEarned
      <4> QED BY <4>1, <4>2 DEF RunType
    <3>2. CASE SourceClosed(o)
      <4>1. run' = [run EXCEPT ![o].pc = "done"] /\ run[o].pc # "absent"
        BY <3>2 DEF SourceClosed, Executing
      <4>2. run \in [Operations -> RunType]
        BY DEF OutcomeInv, RunsEarned
      <4> QED BY <4>1, <4>2 DEF RunType
    <3> QED BY <1>6, <3>1, <3>2
  <2>4. \A p \in Operations : Known(p) /\ Exhausted(p) => Known(p)' /\ Exhausted(p)'
    BY <2>1 DEF Known, Exhausted, ledgerVars
  <2>5. RunsEarned'
    BY <1>1, <1>2, <2>2, <2>3, <2>4, RunsKept DEF OutcomeInv, RunsEarned
  <2> QED BY <1>1, <2>1, <2>5, RowsSame, LoopIdle DEF Outcomes, ledgerVars
<1>7. CASE SourceFinal(o)
  <2>1. /\ run[o].pc # "absent" /\ UNCHANGED run
        /\ SetIntent(o, "completed") /\ saved' = saved \cup {o}
        /\ Finish(o, Ending(o, "completed"))
    BY <1>7 DEF SourceFinal, Executing, SaveResult
  <2>2. Earned(o, "completed")' /\ "completed" \in Final
    BY <2>1 DEF Earned, Final
  <2> QED BY <1>1, <1>3, <2>1, <2>2, RowsIntended, SourceEnds DEF Outcomes
<1>8. CASE SourceFails(o) \/ SourceStopped(o)
  <2>1. PICK outcome \in Final : Finish(o, Ending(o, outcome)) /\ Earned(o, outcome)'
    BY <1>1, <1>8 DEF SourceFails, SourceStopped, Earned, Final, OutcomeInv, RunsEarned
  <2>2. run[o].pc # "absent" /\ UNCHANGED <<ledgerVars, run>>
    BY <1>8 DEF SourceFails, SourceStopped, Executing
  <2> QED BY <1>1, <2>1, <2>2, SourceEnds, RowsSame DEF Outcomes, ledgerVars
<1>9. CASE CancelDelivered(o)
  <2>1. UNCHANGED ledgerVars
    BY <1>9 DEF CancelDelivered
  <2>2. CASE run[o].pc = "running" /\ UNCHANGED run
             /\ Finish(o, Ending(o, IF run[o].stopped THEN "stopped" ELSE "failed"))
    <3>1. PICK outcome \in Final : Finish(o, Ending(o, outcome)) /\ Earned(o, outcome)'
      BY <1>1, <2>2 DEF Earned, Final, OutcomeInv, RunsEarned
    <3> QED BY <1>1, <2>1, <2>2, <3>1, SourceEnds, RowsSame DEF Outcomes, ledgerVars
  <2>3. CASE run[o].pc = "queued" /\ run' = [run EXCEPT ![o].pc = "dead"] /\ UNCHANGED fin
    <3>1. /\ run' \in [Operations -> RunType]
          /\ \A p \in Operations : /\ run'[p].pc # "absent" => run[p].pc # "absent"
                                   /\ run'[p].stopped = run[p].stopped
                                   /\ run'[p].exhausted = run[p].exhausted
      BY <2>3 DEF OutcomeInv, RunsEarned, RunType
    <3>2. RunsEarned'
      BY <1>1, <1>2, <3>1, RunsKept DEF OutcomeInv, RunsEarned
    <3> QED BY <1>1, <2>1, <2>3, <3>2, RowsSame, LoopIdle DEF Outcomes, ledgerVars
  <2> QED BY <1>9, <2>2, <2>3 DEF CancelDelivered
<1> QED BY <1>4, <1>5, <1>6, <1>7, <1>8, <1>9 DEF Execution

LEMMA StopOutcomes ==
  ASSUME OutcomeInv, Allowed, Stop
  PROVE  Outcomes'
<1>1. UNCHANGED <<ledgerVars, receipt, scan>>
  BY DEF Stop, RequestStop, StopVisit, disk
<1>2. \A p \in Operations : run[p].pc # "absent" \/ p \in stopping => Known(p)'
  BY KnownStays DEF OutcomeInv, RunsEarned, StatementInv
<1>3. ASSUME NEW t, NEW selected \in SUBSET Operations, NEW targets, RequestStop(t, selected, targets)
      PROVE  Outcomes'
  <2>1. /\ asked' = asked \cup selected /\ stopping' = selected
        /\ stopFile' = stopFile \cup targets /\ targets \subseteq selected
        /\ \A p \in selected : run[p].pc # "absent"
        /\ UNCHANGED <<run, fin>>
    BY <1>3 DEF RequestStop, Active
  <2>2. RunsEarned'
    BY <1>1, <1>2, <2>1, RunsKept DEF OutcomeInv, RunsEarned
  <2> QED BY <1>1, <2>1, <2>2, RowsSame, LoopIdle DEF Outcomes, ledgerVars
<1>4. ASSUME NEW o \in Operations, StopVisit(o) PROVE Outcomes'
  <2>1. /\ o \in asked /\ stopping' = stopping \ {o} /\ UNCHANGED <<asked, stopFile>>
        /\ run' = [run EXCEPT ![o].stopped = TRUE, ![o].cancelling = TRUE,
                              ![o].cancelled = run[o].started]
        /\ UNCHANGED fin \/ Finish(o, "stopped")
    BY <1>4 DEF StopVisit, OutcomeInv, RunsEarned, disk
  <2>2. /\ run' \in [Operations -> RunType]
        /\ \A p \in Operations : /\ run'[p].pc = run[p].pc
                                 /\ run'[p].stopped => run[p].stopped \/ p = o
                                 /\ run'[p].exhausted = run[p].exhausted
    <3>1. run \in [Operations -> RunType]
      BY DEF OutcomeInv, RunsEarned
    <3> DEFINE r == [run[o] EXCEPT !.stopped = TRUE, !.cancelling = TRUE,
                                   !.cancelled = run[o].started]
    <3>2. r \in RunType /\ r.pc = run[o].pc /\ r.exhausted = run[o].exhausted
      BY <3>1 DEF RunType
    <3>3. \A p \in Operations : run'[p] = IF p = o THEN r ELSE run[p]
      BY <2>1, <3>1 DEF RunType
    <3>4. run' = [p \in Operations |-> run'[p]]
      BY <2>1, <3>1
    <3> HIDE DEF r
    <3>5. \A p \in Operations : run'[p] \in RunType
      BY <3>1, <3>2, <3>3
    <3>6. run' \in [Operations -> RunType]
      BY <3>4, <3>5
    <3> QED BY <3>2, <3>3, <3>6
  <2>3. RunsEarned'
    BY <1>2, <2>1, <2>2, RunsKept DEF OutcomeInv, RunsEarned
  <2>4. Known(o)' /\ Earned(o, "stopped")' /\ "stopped" \in Final
    BY <1>2, <1>4, <2>1 DEF StopVisit, Earned, Final
  <2> QED BY <1>1, <2>1, <2>3, <2>4, RowsSame, LoopIdle, FinishCalled DEF Outcomes, ledgerVars
<1> QED BY <1>3, <1>4 DEF Stop

LEMMA ProcessOutcomes ==
  ASSUME OutcomeInv, Allowed, Process
  PROVE  Outcomes'
<1>1. UNCHANGED <<ledgerVars, receipt, stopFile, asked>> /\ (fin' = fin \/ fin' = Idle)
      /\ (stopping' = stopping \/ stopping' = {})
  BY DEF Process, Shutdown, Close, Exit, Crash, Down, Start, disk
<1>2. scan'.at # "orphans" \/ scan' = scan
  <2>1. CASE Start
    <3>1. PICK resumed : scan' = [BeginScan EXCEPT !.active = resumed]
      BY <2>1 DEF Start
    <3> QED BY <3>1 DEF BeginScan
  <2> QED BY <2>1 DEF Process, Shutdown, Close, Exit, Crash, Down, NoScan
<1>3. \A p \in Operations : Known(p) => Known(p)'
  BY KnownStays DEF OutcomeInv, StatementInv
<1>4. /\ run' \in [Operations -> RunType]
      /\ \A p \in Operations : /\ run'[p].pc # "absent" => run[p].pc # "absent" \/ Known(p)
                               /\ run'[p].stopped => run[p].stopped
                               /\ run'[p].exhausted => run[p].exhausted
  <2>1. CASE Shutdown \/ Close
    <3>1. run \in [Operations -> RunType]
      BY DEF OutcomeInv, RunsEarned
    <3>2. \A S \in {Targets, Operations} :
            /\ Cancelling(S) \in [Operations -> RunType]
            /\ \A p \in Operations : /\ Cancelling(S)[p].pc = run[p].pc
                                     /\ Cancelling(S)[p].stopped = run[p].stopped
                                     /\ Cancelling(S)[p].exhausted = run[p].exhausted
      BY <3>1 DEF Cancelling, RunType
    <3>3. CASE Shutdown
      BY <3>2, <3>3 DEF Shutdown
    <3>4. CASE Close
      <4> DEFINE next == Cancelling(Operations)
      <4>1. run' = [p \in Operations |->
                     [next[p] EXCEPT !.cancelled = @ \/ (p \in Active /\ run[p].started)]]
        BY <3>4 DEF Close
      <4>2. /\ next \in [Operations -> RunType]
            /\ \A p \in Operations : /\ next[p].pc = run[p].pc
                                     /\ next[p].stopped = run[p].stopped
                                     /\ next[p].exhausted = run[p].exhausted
        BY <3>2
      <4> HIDE DEF next
      <4> QED BY <3>1, <4>1, <4>2 DEF RunType
    <3> QED BY <2>1, <3>3, <3>4
  <2>2. CASE Exit \/ Crash
    <3>1. run' = [p \in Operations |-> NoRun]
      BY <2>2 DEF Exit, Crash, Down
    <3> QED BY <3>1 DEF NoRun, RunType
  <2>3. CASE Start
    <3>1. PICK resumed \in SUBSET {p \in admitted \ saved : Pending(p)} :
            run' = [p \in Operations |->
                     IF p \in resumed THEN [NoRun EXCEPT !.pc = "queued"] ELSE NoRun]
      BY <2>3 DEF Start
    <3>2. \A p \in resumed : Known(p)
      BY DEF Pending, Known
    <3> QED BY <3>1, <3>2 DEF NoRun, RunType
  <2> QED BY <2>1, <2>2, <2>3 DEF Process
<1>5. RunsEarned'
  BY <1>1, <1>3, <1>4, RunsKept DEF OutcomeInv, RunsEarned
<1> QED BY <1>1, <1>2, <1>5, RowsSame, LoopIdle DEF Outcomes, ledgerVars

LEMMA AdministrationOutcomes ==
  ASSUME OutcomeInv, Allowed, Administration
  PROVE  Outcomes'
<1>1. UNCHANGED <<status, intent, receipt, run, stopFile, stopping, asked, fin, scan>>
  BY DEF Administration, AdminStep, Adjust, CreateInvites, RegisterInvited, disk, proc
<1> QED BY <1>1, RunsSame, RowsSame, LoopIdle DEF Outcomes

-----------------------------------------------------------------------------
LEMMA OutcomeInit == Init => OutcomeInv
<1> SUFFICES ASSUME Init PROVE OutcomeInv
  OBVIOUS
<1>1. StatementInv
  BY StatementInit DEF Init
<1>2. Control
  BY ServiceInit DEF ServiceInv
<1>3. RunsEarned
  BY DEF Init, RunsEarned, RunType, NoRun
<1>4. RowsEarned
  BY DEF Init, LedgerInit, RowsEarned, Earned
<1>5. LoopEarned
  BY DEF Init, LoopEarned, NoScan
<1> QED BY <1>1, <1>2, <1>3, <1>4, <1>5 DEF OutcomeInv

LEMMA OutcomeStep == OutcomeInv /\ [Next]_vars => OutcomeInv'
<1> SUFFICES ASSUME OutcomeInv, [Next]_vars PROVE OutcomeInv'
  OBVIOUS
<1>1. Control' /\ Allowed
  BY ServiceStep DEF OutcomeInv, StatementInv, ServiceInv, Allowed
<1>2. StatementInv'
  BY <1>1, StatementInvStep DEF OutcomeInv, Allowed
<1>3. Outcomes'
  <2>1. CASE UNCHANGED vars
    BY <1>1, <2>1, RunsSame, RowsSame, LoopIdle
       DEF Outcomes, vars, disk, proc, ledgerVars
  <2>2. CASE FinishStep \/ Scan \/ ScanStep \/ Stop \/ Process \/ Administration
    BY <1>1, <2>2, FinishOutcomes, ScanOutcomes, StopOutcomes, ProcessOutcomes,
       AdministrationOutcomes
  <2>3. ASSUME NEW o \in Operations, NEW i \in Copies, Request(o, i) PROVE Outcomes'
    BY <1>1, <2>3, RequestOutcomes
  <2>4. ASSUME NEW o \in Operations, Execution(o) PROVE Outcomes'
    BY <1>1, <2>4, ExecutionOutcomes
  <2> QED BY <2>1, <2>2, <2>3, <2>4 DEF Next
<1> QED BY <1>1, <1>2, <1>3 DEF OutcomeInv, Outcomes

(* What the user reads is true: "completed" comes with a stored result,     *)
(* "stopped" only after a stop request, "budget used up" only when it was,  *)
(* across every failure, crash and recovery of the service.                 *)
THEOREM OutcomesAreTrue == Spec => []StatusIsEarned
<1>1. OutcomeInv => StatusIsEarned
  BY DEF OutcomeInv, RowsEarned, Earned, StatusIsEarned
<1> QED BY <1>1, OutcomeInit, OutcomeStep, PTL DEF Spec

-----------------------------------------------------------------------------
(* What OutcomeInv leaves open of RunsTypeOK.                               *)
Places ==
  /\ admitted \subseteq Targets /\ stopFile \subseteq admitted
  /\ mode \in {"down", "starting", "serving", "draining", "closing"}
  /\ prep \in [Operations -> [Copies -> {"unsent", "loading", "cancelled", "gone"}]]
  /\ inflight \in [Operations -> SUBSET Calls]

LEMMA PlacesCalm == ASSUME Places, UNCHANGED <<admitted, stopFile, mode, prep, inflight>> PROVE Places'
BY DEF Places

LEMMA PlacesStep == Places /\ [Next]_vars => Places'
<1> SUFFICES ASSUME Places, [Next]_vars PROVE Places'
  OBVIOUS
<1>1. CASE UNCHANGED vars \/ Administration
  BY <1>1, PlacesCalm DEF Administration, vars, disk, proc
<1>2. CASE FinishStep
  BY <1>2, PlacesCalm DEF FinishStep, FinishReceipt, FinishIntent, FinishSettle, FinishUnlink, disk
<1>3. CASE Scan \/ ScanStep
  <2>1. UNCHANGED <<admitted, stopFile, prep, inflight>>
    BY <1>3 DEF Scan, ScanStep, ScanReceipt, ScanUnlink, ScanAborts, ScanUnreadable, ScanToIntents,
      ScanIntent, ScanToOrphans, ScanOrphan, ScanEnd, disk
  <2>2. mode' \in {mode, "down", "serving"}
    BY <1>3 DEF Scan, ScanStep, ScanReceipt, ScanUnlink, ScanAborts, ScanUnreadable, ScanToIntents,
      ScanIntent, ScanToOrphans, ScanOrphan, ScanEnd, disk
  <2> QED BY <2>1, <2>2 DEF Places
<1>4. ASSUME NEW o \in Operations, NEW i \in Copies, Request(o, i) PROVE Places'
  <2>1. admitted' \in {admitted, admitted \cup {o}} /\ (o \in Targets \/ UNCHANGED admitted)
    BY <1>4 DEF Request, Deliver, PreparationStopped, PreparationRefused, AdmitChat, AdmitTarget,
      RejectTarget, disk
  <2>2. UNCHANGED <<stopFile, mode, inflight>>
    BY <1>4 DEF Request, Deliver, PreparationStopped, PreparationRefused, AdmitChat, AdmitTarget,
      RejectTarget, disk
  <2>3. \E s \in {"loading", "gone"} : prep' = [prep EXCEPT ![o][i] = s]
    BY <1>4 DEF Request, Deliver, PreparationStopped, PreparationRefused, AdmitChat, AdmitTarget,
      RejectTarget, Resumes
  <2>4. prep' \in [Operations -> [Copies -> {"unsent", "loading", "cancelled", "gone"}]]
    BY <2>3 DEF Places
  <2> QED BY <2>1, <2>2, <2>4 DEF Places
<1>5. ASSUME NEW o \in Operations, Execution(o) PROVE Places'
  <2>1. UNCHANGED <<admitted, stopFile, mode, prep>>
    BY <1>5 DEF Execution, StartRun, BeforeCall, CallReturns, CallFails, BudgetExhausted, SourceFinal,
      SourceFails, SourceStopped, SourceClosed, CancelDelivered, disk
  <2>2. UNCHANGED inflight \/ \E c \in Calls : inflight' \in
          {[inflight EXCEPT ![o] = inflight[o] \cup {c}], [inflight EXCEPT ![o] = inflight[o] \ {c}]}
    BY <1>5 DEF Execution, StartRun, BeforeCall, CallReturns, CallFails, BudgetExhausted, SourceFinal,
      SourceFails, SourceStopped, SourceClosed, CancelDelivered
  <2> QED BY <2>1, <2>2 DEF Places
<1>6. CASE Stop
  <2>1. ASSUME NEW t, NEW selected, NEW targets, RequestStop(t, selected, targets) PROVE Places'
    BY <2>1 DEF RequestStop, CancelledPreparations, Places
  <2>2. ASSUME NEW o \in Operations, StopVisit(o) PROVE Places'
    BY <2>2, PlacesCalm DEF StopVisit, disk
  <2> QED BY <1>6, <2>1, <2>2 DEF Stop
<1>7. CASE Process
  <2>1. CASE Shutdown \/ Start
    BY <2>1 DEF Shutdown, Start, Places, disk
  <2>2. CASE Close
    BY <2>2 DEF Close, CancelledPreparations, Places, disk
  <2>3. CASE Exit \/ Crash
    BY <2>3 DEF Exit, Crash, Down, Places, disk
  <2> QED BY <1>7, <2>1, <2>2, <2>3 DEF Process
<1> QED BY <1>1, <1>2, <1>3, <1>4, <1>5, <1>6, <1>7 DEF Next

(* Only the submission of a request evicts runs.                            *)
LEMMA ForgetStep ==
  ASSUME [Next]_vars
  PROVE  \/ UNCHANGED forgotten
         \/ Forget /\ \E o \in Operations, i \in Copies : Request(o, i)
<1>1. CASE UNCHANGED vars \/ Administration
  BY <1>1 DEF Administration, vars
<1>2. CASE FinishStep \/ Scan \/ ScanStep
  BY <1>2 DEF FinishStep, FinishReceipt, FinishIntent, FinishSettle, FinishUnlink, Scan, ScanStep,
     ScanReceipt, ScanUnlink, ScanAborts, ScanUnreadable, ScanToIntents, ScanIntent, ScanToOrphans,
     ScanOrphan, ScanEnd
<1>3. ASSUME NEW o \in Operations, NEW i \in Copies, Request(o, i)
      PROVE  UNCHANGED forgotten \/ Forget
  BY <1>3 DEF Request, Deliver, PreparationStopped, PreparationRefused, AdmitChat, AdmitTarget,
     RejectTarget
<1>4. ASSUME NEW o \in Operations, Execution(o) PROVE UNCHANGED forgotten
  BY <1>4 DEF Execution, StartRun, BeforeCall, CallReturns, CallFails, BudgetExhausted, SourceFinal,
     SourceFails, SourceStopped, SourceClosed, CancelDelivered
<1>5. CASE Stop \/ Process
  BY <1>5 DEF Stop, RequestStop, StopVisit, Process, Shutdown, Close, Exit, Crash, Down, Start
<1> QED BY <1>1, <1>2, <1>3, <1>4, <1>5 DEF Next

(* The variables of the running service keep their types, and no scan works *)
(* while request_stop still has runs to visit.                              *)
THEOREM ServiceTypes == Spec => []RunsTypeOK
<1>1. Init => Places
  BY DEF Init, Places
<1>2. OutcomeInv /\ Places /\ forgotten \subseteq Operations \ Targets => RunsTypeOK
  <2> SUFFICES ASSUME OutcomeInv, Places, forgotten \subseteq Operations \ Targets
               PROVE  RunsTypeOK
    OBVIOUS
  <2>1. /\ fin.at \in {"idle", "receipt", "finalize", "settle", "unlink"}
        /\ scan.at \in {"idle", "receipts", "unlink", "intents", "orphans"}
        /\ scan.at # "idle" => stopping = {}
    BY DEF OutcomeInv, Control, FinOK, ScanOK, Idle, NoScan
  <2> QED BY <2>1 DEF OutcomeInv, Control, RunsEarned, RunType, Places, RunsTypeOK
<1>3. Init => forgotten \subseteq Operations \ Targets
  BY DEF Init
<1>4. forgotten \subseteq Operations \ Targets /\ [Next]_vars
        => (forgotten \subseteq Operations \ Targets)'
  BY ForgetStep DEF Forget
<1> QED BY <1>1, <1>2, <1>3, <1>4, OutcomeInit, OutcomeStep, PlacesStep, PTL DEF Spec

=============================================================================
