----------------------------- MODULE BillingRuns -----------------------------
(***************************************************************************)
(* The server side of billed generation:                                   *)
(* executor/app/platform/credits/runtime.py with the request paths that    *)
(* call it (credits/api.py, routers/screenplay.py, routers/target_tasks.py,*)
(* writing/target_tasks.py) and the crash-safe half of the ledger, finish  *)
(* and recover.                                                            *)
(*                                                                         *)
(* One process runs an event loop; its synchronous code is not interrupted *)
(* by other coroutines, but worker threads make model calls meanwhile, and *)
(* the process may die between any two writes.  fin, scan and stopping say *)
(* where the loop is inside finish, recover and request_stop; a coroutine  *)
(* takes a step only when the loop is free.                                *)
(*                                                                         *)
(* A chat operation lives in one process.  A target operation is also      *)
(* recorded on disk (admitted) and is taken up again by the next process.  *)
(***************************************************************************)
EXTENDS BillingLedger

CONSTANTS
  Targets,       \* the operations that are target tasks
  Thread,        \* the conversation of an operation
  Copies,        \* deliveries of one request, retransmissions included
  KeepFinished,  \* finished runs kept for replay (32 in the code)
  Unreadable,    \* whether reading a receipt may fail
  MaxFaults,     \* failures of a database transaction or of a receipt file
  MaxCrashes     \* ends of the process, orderly or not

ASSUME TargetsAssumption == Targets \subseteq Operations /\ DOMAIN Thread = Operations
ASSUME BoundsAssumption ==
  /\ Unreadable \in BOOLEAN
  /\ KeepFinished \in Nat \ {0} /\ MaxFaults \in Nat /\ MaxCrashes \in Nat

VARIABLES
  receipt,       \* outcome in billing_receipts/<operation>.json
  admitted,      \* target operations with a trusted task record
  stopFile,      \* target operations whose stop file exists
  mode,          \* of the process: down, starting, serving, draining, closing
  prep,          \* each delivery: unsent, loading, cancelled or gone
  run,           \* BillingRuns.runs
  inflight,      \* the model calls an operation is waiting for
  fin,           \* the loop inside finish
  scan,          \* the loop inside recover
  stopping,      \* the runs request_stop still has to visit
  asked,         \* history: operations the user asked to stop
  launched,      \* history: how often the source of an operation was started
  forgotten,     \* history: operations whose finished run was evicted too soon
  faults, crashes

disk == <<receipt, admitted, stopFile>>
proc == <<mode, prep, run, inflight, fin, scan, stopping>>
vars == <<ledgerVars, disk, proc, asked, launched, forgotten, faults, crashes>>

-----------------------------------------------------------------------------
NoRun == [pc |-> "absent", started |-> FALSE, stopped |-> FALSE,
          cancelled |-> FALSE, exhausted |-> FALSE, cancelling |-> FALSE]

(* The runs that are not completed.                                         *)
Active == {o \in Operations : run[o].pc \in {"queued", "running", "dead"}}

Idle == [at |-> "idle", op |-> None, outcome |-> None]
NoScan == [at |-> "idle", todo |-> {}, current |-> None, active |-> {}, held |-> {}]

LoopFree == fin = Idle /\ scan = NoScan /\ stopping = {}

(* A call of finish.                                                        *)
Finish(o, outcome) == fin' = [at |-> "receipt", op |-> o, outcome |-> outcome]

(* The outcome _produce hands to finish: an exhausted budget wins.          *)
Ending(o, outcome) == IF run[o].exhausted THEN "budget_exhausted" ELSE outcome

CanContinue(o) ==
  receipt[o] = None /\ status[o] \in {"reserved", "running"} /\ intent[o] = None

Fault == faults < MaxFaults /\ faults' = faults + 1

Init ==
  /\ LedgerInit
  /\ receipt = [o \in Operations |-> None]
  /\ admitted = {} /\ stopFile = {}
  /\ mode = "serving"
  /\ prep = [o \in Operations |-> [i \in Copies |-> "unsent"]]
  /\ run = [o \in Operations |-> NoRun]
  /\ inflight = [o \in Operations |-> {}]
  /\ fin = Idle /\ scan = NoScan /\ stopping = {}
  /\ asked = {}
  /\ launched = [o \in Operations |-> 0]
  /\ forgotten = {}
  /\ faults = 0 /\ crashes = 0

-----------------------------------------------------------------------------
(* finish: the receipt first, then the intent, the settlement, and the      *)
(* receipt is removed.  A receipt that cannot be written is tolerated; a    *)
(* failed transaction returns and leaves what was written to recovery.      *)

(* The caller of finish marks its run completed; recover and a rejected     *)
(* admission have none.                                                     *)
Return ==
  /\ fin' = Idle
  /\ run' = [run EXCEPT ![fin.op].pc =
                IF @ \in {"queued", "running"} /\ scan = NoScan THEN "done" ELSE @]

FinishReceipt ==
  /\ fin.at = "receipt"
  /\ fin' = [fin EXCEPT !.at = "finalize"]
  /\ \/ receipt' = [receipt EXCEPT ![fin.op] = fin.outcome] /\ UNCHANGED faults
     \/ Fault /\ UNCHANGED receipt
  /\ UNCHANGED <<ledgerVars, admitted, stopFile, mode, prep, run, inflight, scan, stopping,
                 asked, launched, forgotten, crashes>>

FinishIntent ==
  /\ fin.at = "finalize"
  /\ \/ /\ Finalize(fin.op, fin.outcome)
        /\ fin' = [fin EXCEPT !.at = "settle"]
        /\ UNCHANGED <<run, faults>>
     \/ Fault /\ Return /\ UNCHANGED ledgerVars
  /\ UNCHANGED <<disk, mode, prep, inflight, scan, stopping,
                 asked, launched, forgotten, crashes>>

FinishSettle ==
  /\ fin.at = "settle"
  /\ \/ /\ Settle(fin.op, fin.outcome)
        /\ fin' = [fin EXCEPT !.at = "unlink"]
        /\ UNCHANGED <<run, faults>>
     \/ Fault /\ Return /\ UNCHANGED ledgerVars
  /\ UNCHANGED <<disk, mode, prep, inflight, scan, stopping,
                 asked, launched, forgotten, crashes>>

FinishUnlink ==
  /\ fin.at = "unlink"
  /\ receipt' = [receipt EXCEPT ![fin.op] = None]
  /\ Return
  /\ UNCHANGED <<ledgerVars, admitted, stopFile, mode, prep, inflight, scan, stopping,
                 asked, launched, forgotten, faults, crashes>>

FinishStep == FinishReceipt \/ FinishIntent \/ FinishSettle \/ FinishUnlink

-----------------------------------------------------------------------------
(* recover(active), one settlement at a time: the receipts, the stored      *)
(* intents, then every other pending operation that no run owns is failed.  *)
(* held are the operations an earlier part could not settle.  An error in   *)
(* the receipt part ends the whole scan; at startup it ends the process.    *)
BeginScan == [at |-> "receipts", todo |-> {o \in Operations : receipt[o] # None},
              current |-> None, active |-> Active, held |-> {}]

Scan ==
  /\ mode \in {"serving", "draining"}
  /\ LoopFree
  /\ scan' = BeginScan
  /\ UNCHANGED <<ledgerVars, disk, mode, prep, run, inflight, fin, stopping,
                 asked, launched, forgotten, faults, crashes>>

ScanReceipt(o) ==
  /\ scan.at = "receipts" /\ o \in scan.todo
  /\ Settle(o, receipt[o])
  /\ scan' = [scan EXCEPT !.at = "unlink", !.todo = @ \ {o}, !.current = o]
  /\ UNCHANGED <<disk, mode, prep, run, inflight, fin, stopping,
                 asked, launched, forgotten, faults, crashes>>

ScanUnlink ==
  /\ scan.at = "unlink"
  /\ receipt' = [receipt EXCEPT ![scan.current] = None]
  /\ scan' = [scan EXCEPT !.at = "receipts", !.current = None]
  /\ UNCHANGED <<ledgerVars, admitted, stopFile, mode, prep, run, inflight, fin, stopping,
                 asked, launched, forgotten, faults, crashes>>

(* Mutant of ScanAborts: the error is caught and the scan goes on.          *)
ScanSkips ==
  /\ scan.at = "receipts" /\ scan.todo # {}
  /\ Fault
  /\ scan' = [scan EXCEPT !.todo = {}]
  /\ UNCHANGED <<ledgerVars, disk, mode, prep, run, inflight, fin, stopping,
                 asked, launched, forgotten, crashes>>

(* sqlite3 errors are not caught inside the receipt loop.                   *)
ScanAborts ==
  /\ scan.at = "receipts" /\ scan.todo # {}
  /\ Fault
  /\ scan' = NoScan
  /\ mode' = IF mode = "starting" THEN "down" ELSE mode
  /\ run' = IF mode = "starting" THEN [o \in Operations |-> NoRun] ELSE run
  /\ UNCHANGED <<ledgerVars, disk, prep, inflight, fin, stopping,
                 asked, launched, forgotten, crashes>>

(* A receipt that cannot be read is skipped before it is counted as pending.*)
ScanUnreadable(o) ==
  /\ scan.at = "receipts" /\ o \in scan.todo
  /\ Unreadable /\ Fault
  /\ scan' = [scan EXCEPT !.todo = @ \ {o}]
  /\ UNCHANGED <<ledgerVars, disk, mode, prep, run, inflight, fin, stopping,
                 asked, launched, forgotten, crashes>>

ScanToIntents ==
  /\ scan.at = "receipts" /\ scan.todo = {}
  /\ LET intents == {o \in Operations : intent[o] # None}
     IN scan' = [scan EXCEPT !.at = "intents", !.todo = intents, !.held = intents]
  /\ UNCHANGED <<ledgerVars, disk, mode, prep, run, inflight, fin, stopping,
                 asked, launched, forgotten, faults, crashes>>

ScanIntent(o) ==
  /\ scan.at = "intents" /\ o \in scan.todo
  /\ \/ /\ Settle(o, intent[o])
        /\ scan' = [scan EXCEPT !.todo = @ \ {o}, !.held = @ \ {o}]
        /\ UNCHANGED faults
     \/ /\ Fault
        /\ scan' = [scan EXCEPT !.todo = @ \ {o}]
        /\ UNCHANGED ledgerVars
  /\ UNCHANGED <<disk, mode, prep, run, inflight, fin, stopping,
                 asked, launched, forgotten, crashes>>

(* Mutants of ScanToOrphans: the runs of this process are not spared; an    *)
(* operation that never started is forgotten.                               *)
ScanEveryone ==
  /\ scan.at = "intents" /\ scan.todo = {}
  /\ scan' = [scan EXCEPT !.at = "orphans", !.todo = {o \in Operations : Pending(o)} \ scan.held]
  /\ UNCHANGED <<ledgerVars, disk, mode, prep, run, inflight, fin, stopping,
                 asked, launched, forgotten, faults, crashes>>

ScanStarted ==
  /\ scan.at = "intents" /\ scan.todo = {}
  /\ scan' = [scan EXCEPT !.at = "orphans",
                          !.todo = {o \in Operations : Pending(o) /\ status[o] # "reserved"}
                                     \ (scan.active \cup scan.held)]
  /\ UNCHANGED <<ledgerVars, disk, mode, prep, run, inflight, fin, stopping,
                 asked, launched, forgotten, faults, crashes>>

ScanToOrphans ==
  /\ scan.at = "intents" /\ scan.todo = {}
  /\ scan' = [scan EXCEPT !.at = "orphans",
                          !.todo = {o \in Operations : Pending(o)} \ (scan.active \cup scan.held)]
  /\ UNCHANGED <<ledgerVars, disk, mode, prep, run, inflight, fin, stopping,
                 asked, launched, forgotten, faults, crashes>>

ScanOrphan(o) ==
  /\ scan.at = "orphans" /\ o \in scan.todo /\ fin = Idle
  /\ Finish(o, "failed")
  /\ scan' = [scan EXCEPT !.todo = @ \ {o}]
  /\ UNCHANGED <<ledgerVars, disk, mode, prep, run, inflight, stopping,
                 asked, launched, forgotten, faults, crashes>>

ScanEnd ==
  /\ scan.at = "orphans" /\ scan.todo = {} /\ fin = Idle
  /\ scan' = NoScan
  /\ mode' = IF mode = "starting" THEN "serving" ELSE mode
  /\ UNCHANGED <<ledgerVars, disk, prep, run, inflight, fin, stopping,
                 asked, launched, forgotten, faults, crashes>>

ScanStep ==
  \/ \E o \in Operations :
       ScanReceipt(o) \/ ScanUnreadable(o) \/ ScanIntent(o) \/ ScanOrphan(o)
  \/ ScanUnlink \/ ScanAborts \/ ScanToIntents \/ ScanToOrphans \/ ScanEnd

-----------------------------------------------------------------------------
(* submit: a run that exists is shared; a final operation is replayed;      *)
(* otherwise the source will run.  Of the finished runs only KeepFinished   *)
(* stay, the new one among them.                                            *)
Evicted(o, runs) ==
  LET done == {p \in Operations : runs[p].pc = "done"}
  IN {[p \in Operations |-> IF p \in gone THEN NoRun ELSE runs[p]] :
        gone \in {g \in SUBSET (done \ {o}) :
                    Cardinality(done \ g) = Least(KeepFinished, Cardinality(done))}}

(* Mutant of Submit: a run that exists is not shared.                       *)
SubmitAnew(o) ==
  run' \in Evicted(o, [run EXCEPT ![o] =
                          [NoRun EXCEPT !.pc = IF status[o] \in Final THEN "done" ELSE "queued"]])

Submit(o) ==
  IF run[o].pc # "absent"
  THEN UNCHANGED run
  ELSE run' \in Evicted(o, [run EXCEPT ![o].pc = IF status[o] \in Final THEN "done" ELSE "queued"])

Loading(o) == \E i \in Copies : prep[o][i] = "loading"

(* The chats whose finished run this step evicts while their settlement is  *)
(* still open and a copy of their request is loading: that copy will find   *)
(* the row of the operation but no run to share.                            *)
Forget ==
  forgotten' = forgotten \cup
    {p \in Operations \ Targets :
       run[p].pc = "done" /\ run'[p].pc = "absent" /\ Pending(p) /\ Loading(p)}

(* A request arrives.  With a row in the ledger it is a replay: a chat      *)
(* request is shown its operation, finished or not, and nothing is executed.*)
(* Without one it waits, in prepare_operation, for the model configuration. *)
Deliver(o, i) ==
  /\ mode = "serving" /\ LoopFree
  /\ prep[o][i] = "unsent"
  /\ IF status[o] = "none"
     THEN prep' = [prep EXCEPT ![o][i] = "loading"] /\ UNCHANGED run
     ELSE /\ prep' = [prep EXCEPT ![o][i] = "gone"]
          /\ IF o \notin Targets /\ status[o] \in Final THEN Submit(o) ELSE UNCHANGED run
  /\ Forget
  /\ UNCHANGED <<ledgerVars, disk, mode, inflight, fin, scan, stopping,
                 asked, launched, faults, crashes>>

Resumes(o, i) ==
  /\ mode \in {"serving", "draining", "closing"} /\ LoopFree
  /\ prep' = [prep EXCEPT ![o][i] = "gone"]

(* Stopped while loading: nothing is reserved.                              *)
PreparationStopped(o, i) ==
  /\ prep[o][i] = "cancelled"
  /\ Resumes(o, i)
  /\ UNCHANGED <<ledgerVars, disk, mode, run, inflight, fin, scan, stopping,
                 asked, launched, forgotten, faults, crashes>>

(* The reservation is refused, or the request was not authorized after all. *)
PreparationRefused(o, i) ==
  /\ prep[o][i] = "loading"
  /\ Resumes(o, i)
  /\ status[o] = "none"
  /\ UNCHANGED <<ledgerVars, disk, mode, run, inflight, fin, scan, stopping,
                 asked, launched, forgotten, faults, crashes>>

(* reserve: a new row, or the one another delivery made meanwhile.          *)
FindOrReserve(o) ==
  \/ \E b \in Budgets : Reserve(o, b)
  \/ status[o] # "none" /\ UNCHANGED ledgerVars

(* stream_screenplay and run_json_operation: no await between reserve and   *)
(* submit.                                                                  *)
AdmitChat(o, i) ==
  /\ o \notin Targets
  /\ prep[o][i] = "loading"
  /\ Resumes(o, i)
  /\ FindOrReserve(o)
  /\ Submit(o) /\ Forget
  /\ UNCHANGED <<disk, mode, inflight, fin, scan, stopping, asked, launched, faults, crashes>>

(* start_public: a task another delivery admitted is returned as it is;     *)
(* TargetTaskManager.start does not run a settled operation.                *)
AdmitTarget(o, i) ==
  /\ o \in Targets
  /\ prep[o][i] = "loading"
  /\ Resumes(o, i)
  /\ FindOrReserve(o)
  /\ admitted' = admitted \cup {o}
  /\ IF o \in admitted \/ status[o] \in Final THEN UNCHANGED run ELSE Submit(o)
  /\ Forget
  /\ UNCHANGED <<receipt, stopFile, mode, inflight, fin, scan, stopping,
                 asked, launched, faults, crashes>>

(* The workspace is busy or the input is invalid, or the task was recorded  *)
(* and could not be started: the reservation is failed.                     *)
RejectTarget(o, i) ==
  /\ o \in Targets \ admitted
  /\ prep[o][i] = "loading"
  /\ Resumes(o, i)
  /\ FindOrReserve(o)
  /\ UNCHANGED <<admitted, faults>> \/ (admitted' = admitted \cup {o} /\ Fault)
  /\ Finish(o, "failed")
  /\ UNCHANGED <<receipt, stopFile, mode, run, inflight, scan, stopping,
                 asked, launched, forgotten, crashes>>

Request(o, i) ==
  \/ Deliver(o, i) \/ PreparationStopped(o, i) \/ PreparationRefused(o, i)
  \/ AdmitChat(o, i) \/ AdmitTarget(o, i) \/ RejectTarget(o, i)

-----------------------------------------------------------------------------
(* _produce, run by the task of an operation.  ledger.started moves only a  *)
(* reserved operation; an error there ends the run as failed.               *)
StartRun(o) ==
  /\ run[o].pc = "queued" /\ ~run[o].cancelling
  /\ mode \in {"serving", "draining", "closing"} /\ LoopFree
  /\ \/ /\ run' = [run EXCEPT ![o].pc = "running", ![o].started = TRUE]
        /\ launched' = [launched EXCEPT ![o] = @ + 1]
        /\ Started(o) \/ (status[o] \notin {"reserved", "running"} /\ UNCHANGED ledgerVars)
        /\ UNCHANGED <<fin, faults>>
     \/ /\ Fault
        /\ run' = [run EXCEPT ![o].pc = "running", ![o].started = TRUE]
        /\ Finish(o, "failed")
        /\ UNCHANGED <<ledgerVars, launched>>
  /\ UNCHANGED <<disk, mode, prep, inflight, scan, stopping, asked, forgotten, crashes>>

(* before_call: the gate in front of every model call.  A worker thread may *)
(* be in here after the task itself was cancelled and finished.             *)
Gate(o) ==
  /\ run[o].started /\ ~run[o].cancelled
  /\ CanContinue(o)

BeforeCall(o, c) ==
  /\ Gate(o) /\ ~Exhausted(o)
  /\ c \notin inflight[o] /\ \A r \in calls[o] : r.id # c
  /\ inflight' = [inflight EXCEPT ![o] = @ \cup {c}]
  /\ UNCHANGED <<ledgerVars, disk, mode, prep, run, fin, scan, stopping,
                 asked, launched, forgotten, faults, crashes>>

BudgetExhausted(o) ==
  /\ Gate(o) /\ Exhausted(o)
  /\ run' = [run EXCEPT ![o].exhausted = TRUE]
  /\ UNCHANGED <<ledgerVars, disk, mode, prep, inflight, fin, scan, stopping,
                 asked, launched, forgotten, faults, crashes>>

(* Mutant of CallReturns: the operation may be final already.               *)
CallReturnsLate(o, c) ==
  /\ c \in inflight[o]
  /\ inflight' = [inflight EXCEPT ![o] = @ \ {c}]
  /\ \E k \in Costs : calls' = [calls EXCEPT ![o] = @ \cup {[id |-> c, cost |-> k]}]
  /\ consumed' = [consumed EXCEPT ![o] = CostOf(calls'[o])]
  /\ UNCHANGED <<accounts, wallet, status, budget, charged, saved, intent, entries, invite>>
  /\ UNCHANGED <<disk, mode, prep, run, fin, scan, stopping,
                 asked, launched, forgotten, faults, crashes>>

(* record after a response: nothing once the run is cancelled, nothing once *)
(* the operation is final.                                                  *)
CallReturns(o, c) ==
  /\ c \in inflight[o]
  /\ inflight' = [inflight EXCEPT ![o] = @ \ {c}]
  /\ IF run[o].cancelled \/ ~Pending(o)
     THEN UNCHANGED ledgerVars
     ELSE \E k \in Costs : RecordCall(o, c, k)
  /\ UNCHANGED <<disk, mode, prep, run, fin, scan, stopping,
                 asked, launched, forgotten, faults, crashes>>

(* The provider failed, or its response could not be recorded.              *)
CallFails(o, c) ==
  /\ c \in inflight[o]
  /\ inflight' = [inflight EXCEPT ![o] = @ \ {c}]
  /\ UNCHANGED <<ledgerVars, disk, mode, prep, run, fin, scan, stopping,
                 asked, launched, forgotten, faults, crashes>>

(* The task of o is executing and has not been cancelled.                   *)
Executing(o) ==
  /\ run[o].pc = "running" /\ ~run[o].cancelling
  /\ mode \in {"serving", "draining", "closing"} /\ LoopFree

(* The source yields its final frame; it ends, and finish is called, before *)
(* any other coroutine runs.  A target task looks at can_continue once more.*)
SourceFinal(o) ==
  /\ Executing(o)
  /\ inflight[o] = {} /\ o \notin stopFile
  /\ o \in Targets => CanContinue(o)
  /\ SaveResult(o)
  /\ Finish(o, Ending(o, "completed"))
  /\ UNCHANGED <<disk, mode, prep, run, inflight, scan, stopping,
                 asked, launched, forgotten, faults, crashes>>

(* The source raises, or ends without a final frame.  A target task begins  *)
(* with a look at can_continue.                                             *)
SourceFails(o) ==
  /\ Executing(o)
  /\ o \in Targets => CanContinue(o)
  /\ Finish(o, Ending(o, "failed"))
  /\ UNCHANGED <<ledgerVars, disk, mode, prep, run, inflight, scan, stopping,
                 asked, launched, forgotten, faults, crashes>>

(* A target task sees its stop file.                                        *)
SourceStopped(o) ==
  /\ Executing(o)
  /\ o \in stopFile /\ CanContinue(o)
  /\ Finish(o, Ending(o, "stopped"))
  /\ UNCHANGED <<ledgerVars, disk, mode, prep, run, inflight, scan, stopping,
                 asked, launched, forgotten, faults, crashes>>

(* OperationClosed: an earlier process left an outcome; nothing is written. *)
SourceClosed(o) ==
  /\ Executing(o)
  /\ ~CanContinue(o)
  /\ run' = [run EXCEPT ![o].pc = "done"]
  /\ UNCHANGED <<ledgerVars, disk, mode, prep, inflight, fin, scan, stopping,
                 asked, launched, forgotten, faults, crashes>>

(* Mutant of CancelDelivered: every cancellation counts as a stop.          *)
CancelStops(o) ==
  /\ run[o].cancelling
  /\ mode \in {"serving", "draining", "closing"} /\ LoopFree
  /\ run[o].pc = "running"
  /\ Finish(o, Ending(o, "stopped"))
  /\ UNCHANGED <<ledgerVars, disk, mode, prep, run, inflight, scan, stopping,
                 asked, launched, forgotten, faults, crashes>>

(* CancelledError: in a source that waits, or in a task not yet begun.      *)
CancelDelivered(o) ==
  /\ run[o].cancelling
  /\ mode \in {"serving", "draining", "closing"} /\ LoopFree
  /\ \/ /\ run[o].pc = "running"
        /\ Finish(o, Ending(o, IF run[o].stopped THEN "stopped" ELSE "failed"))
        /\ UNCHANGED run
     \/ /\ run[o].pc = "queued"
        /\ run' = [run EXCEPT ![o].pc = "dead"]
        /\ UNCHANGED fin
  /\ UNCHANGED <<ledgerVars, disk, mode, prep, inflight, scan, stopping,
                 asked, launched, forgotten, faults, crashes>>

Execution(o) ==
  \/ StartRun(o)
  \/ \E c \in Calls : BeforeCall(o, c) \/ CallReturns(o, c) \/ CallFails(o, c)
  \/ BudgetExhausted(o)
  \/ SourceFinal(o) \/ SourceFails(o) \/ SourceStopped(o) \/ SourceClosed(o)
  \/ CancelDelivered(o)

-----------------------------------------------------------------------------
InThread(t) == {o \in Operations : Thread[o] = t}

CancelledPreparations(S) ==
  [o \in Operations |->
    [i \in Copies |-> IF o \in S /\ prep[o][i] = "loading" THEN "cancelled" ELSE prep[o][i]]]

(* request_stop for a conversation: its loading requests, and the active    *)
(* runs that the trace id in the request selects.  The stop button of a     *)
(* target task selects all of them and leaves a stop file first.            *)
RequestStop(t, selected, targets) ==
  /\ mode = "serving" /\ LoopFree
  /\ selected \subseteq Active \cap InThread(t)
  /\ targets \subseteq selected \cap admitted /\ Cardinality(targets) <= 1
  /\ targets # {} => selected = Active \cap InThread(t)
  /\ stopFile' = stopFile \cup targets
  /\ prep' = CancelledPreparations(InThread(t))
  /\ stopping' = selected
  /\ asked' = asked \cup selected
  /\ selected # {} \/ prep' # prep
  /\ UNCHANGED <<ledgerVars, receipt, admitted, mode, run, inflight, fin, scan,
                 launched, forgotten, faults, crashes>>

(* Mutants of StopVisit: the run is not marked as stopped; its task is not  *)
(* cancelled.                                                               *)
StopUnmarked(o) ==
  /\ o \in stopping /\ fin = Idle
  /\ stopping' = stopping \ {o}
  /\ run' = [run EXCEPT ![o].cancelling = TRUE, ![o].cancelled = run[o].started]
  /\ IF run[o].started THEN UNCHANGED fin ELSE Finish(o, "stopped")
  /\ UNCHANGED <<ledgerVars, disk, mode, prep, inflight, scan,
                 asked, launched, forgotten, faults, crashes>>

StopUncancelled(o) ==
  /\ o \in stopping /\ fin = Idle
  /\ stopping' = stopping \ {o}
  /\ run' = [run EXCEPT ![o].stopped = TRUE, ![o].cancelled = run[o].started]
  /\ IF run[o].started THEN UNCHANGED fin ELSE Finish(o, "stopped")
  /\ UNCHANGED <<ledgerVars, disk, mode, prep, inflight, scan,
                 asked, launched, forgotten, faults, crashes>>

(* The loop of request_stop at one run: a source that never began is settled*)
(* here, and its task is cancelled in any case.                             *)
StopVisit(o) ==
  /\ o \in stopping /\ fin = Idle
  /\ stopping' = stopping \ {o}
  /\ run' = [run EXCEPT ![o].stopped = TRUE, ![o].cancelling = TRUE,
                        ![o].cancelled = run[o].started]
  /\ IF run[o].started THEN UNCHANGED fin ELSE Finish(o, "stopped")
  /\ UNCHANGED <<ledgerVars, disk, mode, prep, inflight, scan,
                 asked, launched, forgotten, faults, crashes>>

Stop ==
  \/ \E t \in {Thread[o] : o \in Operations}, selected \in SUBSET Operations,
        targets \in SUBSET Targets : RequestStop(t, selected, targets)
  \/ \E o \in Operations : StopVisit(o)

-----------------------------------------------------------------------------
Cancelling(S) ==
  [o \in Operations |-> IF o \in S \cap Active THEN [run[o] EXCEPT !.cancelling = TRUE] ELSE run[o]]

(* The lifespan ends: TargetTaskManager.close cancels the target tasks and  *)
(* waits for them,                                                          *)
Shutdown ==
  /\ mode = "serving" /\ LoopFree
  /\ crashes < MaxCrashes
  /\ mode' = "draining"
  /\ run' = Cancelling(Targets)
  /\ UNCHANGED <<ledgerVars, disk, prep, inflight, fin, scan, stopping,
                 asked, launched, forgotten, faults, crashes>>

(* then BillingRuns.aclose closes the gate of every run and cancels it.     *)
Close ==
  /\ mode = "draining" /\ LoopFree
  /\ \A o \in Targets : run[o].pc \in {"queued", "running"} => ~run[o].cancelling
  /\ mode' = "closing"
  /\ prep' = CancelledPreparations(Operations)
  /\ run' = [o \in Operations |->
               [Cancelling(Operations)[o] EXCEPT !.cancelled = @ \/ (o \in Active /\ run[o].started)]]
  /\ UNCHANGED <<ledgerVars, disk, inflight, fin, scan, stopping,
                 asked, launched, forgotten, faults, crashes>>

Down ==
  /\ mode' = "down"
  /\ prep' = [o \in Operations |->
               [i \in Copies |-> IF prep[o][i] = "unsent" THEN "unsent" ELSE "gone"]]
  /\ run' = [o \in Operations |-> NoRun]
  /\ inflight' = [o \in Operations |-> {}]
  /\ fin' = Idle /\ scan' = NoScan /\ stopping' = {}
  /\ crashes' = crashes + 1
  /\ UNCHANGED <<ledgerVars, disk, asked, launched, forgotten, faults>>

Exit ==
  /\ mode = "closing" /\ LoopFree
  /\ \A o \in Operations : run[o].pc \notin {"queued", "running"}
  /\ Down

Crash == mode # "down" /\ crashes < MaxCrashes /\ Down

(* The next process: the manager submits the tasks it finds unfinished, in  *)
(* the same breath start_recovery begins its first scan.  A task with a     *)
(* result is finished; which others had already recorded an end of their    *)
(* own is left open.                                                        *)
Start ==
  /\ mode = "down"
  /\ mode' = "starting"
  /\ \E resumed \in SUBSET {o \in admitted \ saved : Pending(o)} :
       /\ run' = [o \in Operations |-> IF o \in resumed THEN [NoRun EXCEPT !.pc = "queued"] ELSE NoRun]
       /\ scan' = [BeginScan EXCEPT !.active = resumed]
  /\ UNCHANGED <<ledgerVars, disk, prep, inflight, fin, stopping,
                 asked, launched, forgotten, faults, crashes>>

Process == Shutdown \/ Close \/ Exit \/ Crash \/ Start

(* Administrators work beside the runs, in worker threads of the server.    *)
Administration ==
  /\ mode = "serving"
  /\ AdminStep
  /\ UNCHANGED <<disk, proc, asked, launched, forgotten, faults, crashes>>

Next ==
  \/ FinishStep \/ Scan \/ ScanStep
  \/ \E o \in Operations, i \in Copies : Request(o, i)
  \/ \E o \in Operations : Execution(o)
  \/ Stop \/ Process \/ Administration

(* The event loop finishes what it has begun; between two such stretches it *)
(* serves ready tasks, cancellations and the timer of the scanner in turn,  *)
(* so that none of them is passed over for ever (hence strong fairness: the *)
(* loop is free again and again, not all the time).  The service is         *)
(* restarted (restart: always).  Nothing obliges a model, a user or an      *)
(* administrator to act.                                                    *)
Fairness ==
  /\ WF_vars(FinishStep) /\ WF_vars(ScanStep) /\ WF_vars(Start)
  /\ SF_vars(Scan) /\ SF_vars(Close) /\ SF_vars(Exit)
  /\ \A o \in Operations :
       WF_vars(StopVisit(o)) /\ SF_vars(StartRun(o)) /\ SF_vars(CancelDelivered(o))

Spec == Init /\ [][Next]_vars
FairSpec == Spec /\ Fairness

-----------------------------------------------------------------------------
(* The state of the process and of the disk beside the ledger has its type, *)
(* and only one of finish, recover and request_stop is between two writes   *)
(* unless it was called by another.                                         *)
RunsTypeOK ==
  /\ receipt \in [Operations -> Final \cup {None}]
  /\ stopFile \subseteq admitted /\ admitted \subseteq Targets
  /\ mode \in {"down", "starting", "serving", "draining", "closing"}
  /\ prep \in [Operations -> [Copies -> {"unsent", "loading", "cancelled", "gone"}]]
  /\ run \in [Operations ->
                [pc : {"absent", "queued", "running", "done", "dead"}, started : BOOLEAN,
                 stopped : BOOLEAN, cancelled : BOOLEAN, exhausted : BOOLEAN,
                 cancelling : BOOLEAN]]
  /\ inflight \in [Operations -> SUBSET Calls]
  /\ forgotten \subseteq Operations \ Targets
  /\ fin.at \in {"idle", "receipt", "finalize", "settle", "unlink"}
  /\ scan.at \in {"idle", "receipts", "unlink", "intents", "orphans"}
  /\ scan.at # "idle" => stopping = {}
  /\ stopping \subseteq asked

(* The running service, with its worker threads, crashes and recovery, does *)
(* to the ledger only what BillingLedger allows, so the guarantees of the   *)
(* ledger, those of Wallet included, are guarantees of the service.         *)
ImplementsLedger == LedgerSpec

(* What the user reads on the statement is true: "completed" comes with a   *)
(* stored result, "stopped" only after the user asked, and "budget used up" *)
(* only when it was (docs: the cases of settlement, and SETTLEMENT_NOTES).  *)
StatusIsEarned ==
  \A o \in Operations :
    /\ status[o] = "completed" => o \in saved
    /\ status[o] = "stopped" => o \in asked
    /\ status[o] = "budget_exhausted" => Exhausted(o)

(* A stored result is paid for: neither a crash, nor a shutdown that cancels*)
(* the task, nor a failing database turns delivered work into a refund.  A  *)
(* run that was forgotten too soon is the exception: see StartedOnce.       *)
SavedResultIsCharged ==
  \A o \in saved \ forgotten : status[o] \in Final => status[o] \in {"completed", "budget_exhausted"}

(* A stop wins: once request_stop has selected a run, nothing but a crash or*)
(* a failing disk or database makes it end as completed or failed.          *)
StopWins ==
  faults = 0 /\ crashes = 0 =>
    \A o \in asked : status[o] \in Final => status[o] \in {"stopped", "budget_exhausted"}

(* An operation is not settled under a run that is alive: while a run waits *)
(* for a model and has neither been cancelled nor begun to finish, no scan, *)
(* no second delivery and no stop of another run settles its operation      *)
(* (premise: no earlier run of it was forgotten, see StartedOnce).          *)
LiveRunsStayOpen ==
  \A o \in Operations \ forgotten :
    run[o].pc = "running" /\ ~run[o].cancelling /\ fin.op # o /\ inflight[o] # {}
      => Pending(o) /\ receipt[o] = None

(* However often a chat request is sent, and whenever the copies arrive, its*)
(* source is started at most once (docs: a request sent again makes no new  *)
(* task).  Premise: its run was not forgotten too soon.  When finish failed *)
(* and left the settlement to recovery, and KeepFinished newer runs evict   *)
(* this one while a copy of the request is loading, submit has no run to    *)
(* share for that copy and starts the source again.                         *)
StartedOnce ==
  \A o \in Operations \ (Targets \cup forgotten) : launched[o] <= 1

(* The outcome that reached the disk decides what the user pays: while an   *)
(* operation is pending its receipt is not lost, nor replaced by one that   *)
(* costs something else, and the operation is charged by it ("write the     *)
(* desired outcome before touching the ledger").  A run that was forgotten  *)
(* too soon may be run again and end otherwise: see StartedOnce.            *)
ReceiptDecides ==
  [][\A o \in Operations \ forgotten : Pending(o) /\ receipt[o] # None =>
       /\ receipt'[o] # None
       /\ Charge(o, receipt'[o]) = Charge(o, receipt[o])
       /\ status'[o] \in Final => charged'[o] = Charge(o, receipt[o])]_vars

(* An operation that no run works on any more is settled, so that reserved  *)
(* credits come back (docs: pending accounts are completed once the service *)
(* and its data are back).                                                  *)
SettledEventually ==
  \A o \in Operations : (Pending(o) /\ o \notin Active) ~> (status[o] \in Final \/ o \in Active)

(* A run the user stopped, started or not, comes to an end.                 *)
StopEnds == \A o \in Operations : run[o].stopped ~> run[o].pc \notin {"queued", "running"}

=============================================================================
