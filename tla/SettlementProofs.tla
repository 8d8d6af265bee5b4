-------------------------- MODULE SettlementProofs --------------------------
(***************************************************************************)
(* How an operation comes to its end, for any operations, copies of        *)
(* requests, failures and crashes: a stop wins, a stored result is charged,*)
(* a run that is alive is not settled under its hands, and the outcome that*)
(* reached the disk decides what the user pays.                            *)
(***************************************************************************)
EXTENDS BillingRunsProofs

(* finish works on o, for whoever called it.                                *)
InFinish(o) == fin # Idle /\ fin.op = o

(* The run of o is not completed, and its end has not begun.                *)
Working(o) == run[o].pc \in {"queued", "running"} /\ ~InFinish(o)

(* No model call of o was recorded and none is under way.                   *)
Unused(o) == consumed[o] = 0 /\ inflight[o] = {}

(* A scan spares the runs there are, and finish, called by a scan, is never *)
(* at work on one of them.                                                  *)
ScanInv ==
  /\ scan # NoScan => Active \subseteq scan.active
  /\ scan.at = "orphans" => scan.todo \cap scan.active = {}
  /\ scan # NoScan /\ fin # Idle => fin.op \notin scan.active
  /\ mode = "starting" => scan # NoScan

StoppingInv ==
  /\ stopping \subseteq Active
  /\ \A o \in stopping : ~InFinish(o) /\ run[o].pc # "dead"
  /\ stopping # {} => mode = "serving"

(* What may be said of one run, in this mode of the process.                *)
Shape(o) ==
  /\ run[o].pc = "absent" => ~run[o].started /\ ~run[o].stopped /\ ~run[o].cancelling
  /\ run[o].pc = "dead" => mode \in {"draining", "closing"}
  /\ run[o].pc = "queued" \/ mode = "starting" => ~run[o].started
  /\ run[o].pc = "running" => run[o].started
  /\ run[o].pc = "queued" /\ run[o].cancelling => mode \in {"draining", "closing"} \/ InFinish(o)
  /\ run[o].stopped /\ Working(o) => run[o].pc = "running" /\ run[o].cancelling

ModeInv ==
  /\ mode = "down" => run = [o \in Operations |-> NoRun]
  /\ mode \in {"down", "starting"} =>
       \A o \in Operations : inflight[o] = {} /\ \A i \in Copies : prep[o][i] # "loading"
  /\ \A o \in Operations : Shape(o)

(* A target that was not admitted has left no trace but its row.            *)
TargetInv ==
  \A o \in Targets \ admitted :
    run[o].pc = "absent" /\ o \notin saved /\ o \notin asked /\ Unused(o)

SettledInv ==
  /\ fin.at = "unlink" => status[fin.op] \in Final /\ intent[fin.op] = None
  /\ scan.at = "unlink" => status[scan.current] \in Final

CoreInv == ScanInv /\ StoppingInv /\ ModeInv /\ TargetInv /\ SettledInv

Base == OutcomeInv /\ Places

-----------------------------------------------------------------------------
(* What the steps do, one operation at a time.                              *)

LEMMA Types ==
  ASSUME Base
  PROVE  /\ run \in [Operations -> RunType]
         /\ status \in [Operations -> {"none", "reserved", "running", "processing"} \cup Final]
         /\ receipt \in [Operations -> Final \cup {None}]
         /\ intent \in [Operations -> Final \cup {None}]
         /\ consumed \in [Operations -> Nat] /\ saved \subseteq Operations
         /\ inflight \in [Operations -> SUBSET Calls]
         /\ prep \in [Operations -> [Copies -> {"unsent", "loading", "cancelled", "gone"}]]
         /\ FinOK /\ ScanOK /\ None \notin Final
         /\ Targets \subseteq Operations /\ admitted \subseteq Targets
BY NoneAssumption, TargetsAssumption
   DEF Base, OutcomeInv, RunsEarned, Places, Control, StatementInv, LedgerInv, TypeOK

LEMMA FinTypes ==
  ASSUME Base, fin # Idle
  PROVE  /\ fin \in [at : {"receipt", "finalize", "settle", "unlink"}, op : Operations,
                     outcome : Final]
         /\ stopping \subseteq Operations
BY DEF Base, OutcomeInv, Control, FinOK, RunsEarned

LEMMA ScanTypes ==
  ASSUME Base, scan # NoScan
  PROVE  /\ scan \in [at : {"receipts", "unlink", "intents", "orphans"}, todo : SUBSET Operations,
                      current : Operations \cup {None}, active : SUBSET Operations,
                      held : SUBSET Operations]
         /\ stopping = {} /\ mode # "down"
         /\ scan.at # "orphans" => fin = Idle
BY DEF Base, OutcomeInv, Control, ScanOK, LoopFree, NoScan

(* Settling one operation leaves the others alone.                          *)
LEMMA SettleEffect ==
  ASSUME Base, NEW o \in Operations, NEW outcome \in Final, Settle(o, outcome)
  PROVE  /\ UNCHANGED <<consumed, saved>>
         /\ \A p \in Operations \ {o} : status'[p] = status[p] /\ intent'[p] = intent[p]
                                        /\ charged'[p] = charged[p]
         /\ intent'[o] = None
         /\ \/ Pending(o) /\ status'[o] = outcome /\ charged'[o] = Charge(o, outcome)
            \/ status[o] \in Final /\ status'[o] = status[o] /\ charged'[o] = charged[o]
<1>1. charged \in [Operations -> Nat]
  BY DEF Base, OutcomeInv, StatementInv, LedgerInv, TypeOK
<1> QED BY <1>1, Types DEF Settle, SettleFirst, SettleAgain

LEMMA IntentEffect ==
  ASSUME Base, NEW o \in Operations, NEW outcome \in Final, SetIntent(o, outcome)
  PROVE  /\ \A p \in Operations \ {o} : status'[p] = status[p] /\ intent'[p] = intent[p]
         /\ intent'[o] = outcome
         /\ status'[o] = IF Pending(o) THEN "processing" ELSE status[o]
BY Types DEF SetIntent

(* A step of finish touches one operation, and completes its run when it    *)
(* returns to the task or to request_stop.                                  *)
LEMMA ReturnEffect ==
  ASSUME Base, fin # Idle, Return
  PROVE  /\ fin' = Idle
         /\ \A p \in Operations \ {fin.op} : run'[p] = run[p]
         /\ \A p \in Operations : p = fin.op =>
              \/ run'[p] = run[p] /\ (scan # NoScan \/ run[p].pc \notin {"queued", "running"})
              \/ run'[p].pc = "done" /\ run[p].pc \in {"queued", "running"} /\ scan = NoScan
                 /\ run'[p].started = run[p].started /\ run'[p].stopped = run[p].stopped
<1>1. run \in [Operations -> RunType] /\ fin.op \in Operations
  BY Types, FinTypes
<1> QED BY <1>1 DEF Return, RunType

LEMMA FinishEffect ==
  ASSUME Base, FinishStep
  PROVE  /\ fin # Idle
         /\ UNCHANGED <<admitted, stopFile, mode, prep, inflight, scan, stopping, asked, launched,
                        crashes, consumed, saved>>
         /\ faults' = faults \/ faults' = faults + 1
         /\ \A p \in Operations \ {fin.op} :
              /\ run'[p] = run[p] /\ status'[p] = status[p] /\ intent'[p] = intent[p]
              /\ receipt'[p] = receipt[p] /\ charged'[p] = charged[p]
         /\ \/ run' = run /\ fin' # Idle /\ fin'.op = fin.op /\ fin'.outcome = fin.outcome
            \/ Return
<1>1. fin # Idle
  BY DEF FinishStep, FinishReceipt, FinishIntent, FinishSettle, FinishUnlink, Idle
<1>2. /\ fin \in [at : {"receipt", "finalize", "settle", "unlink"}, op : Operations, outcome : Final]
      /\ receipt \in [Operations -> Final \cup {None}]
  BY <1>1, FinTypes, Types
<1>3. UNCHANGED <<admitted, stopFile, mode, prep, inflight, scan, stopping, asked, launched, crashes>>
  BY DEF FinishStep, FinishReceipt, FinishIntent, FinishSettle, FinishUnlink, disk
<1>4. faults' = faults \/ faults' = faults + 1
  BY DEF FinishStep, FinishReceipt, FinishIntent, FinishSettle, FinishUnlink, Fault
<1>5. \/ run' = run /\ fin' # Idle /\ fin'.op = fin.op /\ fin'.outcome = fin.outcome
      \/ Return
  BY <1>2 DEF FinishStep, FinishReceipt, FinishIntent, FinishSettle, FinishUnlink, Idle
<1>6. \A p \in Operations \ {fin.op} : run'[p] = run[p]
  BY <1>1, <1>5, ReturnEffect
<1>7. \A p \in Operations \ {fin.op} : receipt'[p] = receipt[p]
  BY <1>2 DEF FinishStep, FinishReceipt, FinishIntent, FinishSettle, FinishUnlink, disk
<1>8. /\ UNCHANGED <<consumed, saved>>
      /\ \A p \in Operations \ {fin.op} : status'[p] = status[p] /\ intent'[p] = intent[p]
                                          /\ charged'[p] = charged[p]
  <2>1. CASE UNCHANGED ledgerVars
    BY <2>1 DEF ledgerVars
  <2>2. CASE Finalize(fin.op, fin.outcome)
    BY <1>2, <2>2, IntentEffect DEF Finalize
  <2>3. CASE Settle(fin.op, fin.outcome)
    BY <1>2, <2>3, SettleEffect
  <2> QED BY <2>1, <2>2, <2>3
          DEF FinishStep, FinishReceipt, FinishIntent, FinishSettle, FinishUnlink
<1> QED BY <1>1, <1>3, <1>4, <1>5, <1>6, <1>7, <1>8

(* A scan leaves the runs alone, unless it ends the process that starts.    *)
LEMMA ScanEffect ==
  ASSUME Base, ScanStep
  PROVE  /\ scan # NoScan
         /\ UNCHANGED <<admitted, stopFile, prep, inflight, stopping, asked, launched, crashes,
                        consumed, saved>>
         /\ \/ run' = run /\ (mode' = mode \/ (mode = "starting" /\ mode' = "serving" /\ ScanEnd))
            \/ /\ mode = "starting" /\ mode' = "down" /\ run' = [o \in Operations |-> NoRun]
               /\ scan' = NoScan /\ UNCHANGED <<ledgerVars, receipt, fin>> /\ faults' = faults + 1
         /\ faults' = faults \/ faults' = faults + 1
<1>1. scan # NoScan
  <2>1. scan.at \in {"receipts", "unlink", "intents", "orphans"}
    BY DEF ScanStep, ScanReceipt, ScanUnreadable, ScanIntent, ScanOrphan, ScanUnlink,
           ScanAborts, ScanToIntents, ScanToOrphans, ScanEnd
  <2> QED BY <2>1 DEF NoScan
<1>2. UNCHANGED <<admitted, stopFile, prep, inflight, stopping, asked, launched, crashes>>
  BY DEF ScanStep, ScanReceipt, ScanUnreadable, ScanIntent, ScanOrphan, ScanUnlink,
         ScanAborts, ScanToIntents, ScanToOrphans, ScanEnd, disk
<1>3. faults' = faults \/ faults' = faults + 1
  BY DEF ScanStep, ScanReceipt, ScanUnreadable, ScanIntent, ScanOrphan, ScanUnlink,
         ScanAborts, ScanToIntents, ScanToOrphans, ScanEnd, Fault
<1>4. UNCHANGED <<consumed, saved>>
  BY DEF ScanStep, ScanReceipt, ScanUnreadable, ScanIntent, ScanOrphan, ScanUnlink,
         ScanAborts, ScanToIntents, ScanToOrphans, ScanEnd, Settle, ledgerVars
<1>5. CASE ScanAborts
  BY <1>1, <1>2, <1>3, <1>4, <1>5 DEF ScanAborts, Fault, disk
<1>6. CASE ~ScanAborts
  <2>1. run' = run /\ (mode' = mode \/ (mode = "starting" /\ mode' = "serving" /\ ScanEnd))
    BY <1>6 DEF ScanStep, ScanReceipt, ScanUnreadable, ScanIntent, ScanOrphan, ScanUnlink,
                ScanToIntents, ScanToOrphans, ScanEnd
  <2> QED BY <1>1, <1>2, <1>3, <1>4, <2>1
<1> QED BY <1>5, <1>6

(* submit gives an operation without a run a new one, completed if the      *)
(* operation is final, and may forget other runs that are completed.        *)
LEMMA SubmitEffect ==
  ASSUME Base, NEW o \in Operations, Submit(o)
  PROVE  /\ run[o].pc # "absent" => run' = run
         /\ run[o].pc = "absent" =>
              /\ run'[o].pc = IF status[o] \in Final THEN "done" ELSE "queued"
              /\ run'[o].started = run[o].started /\ run'[o].stopped = run[o].stopped
              /\ run'[o].cancelling = run[o].cancelling
         /\ \A p \in Operations \ {o} :
              run'[p] = run[p] \/ (run[p].pc = "done" /\ run'[p] = NoRun)
<1>1. run \in [Operations -> RunType]
  BY Types
<1>2. CASE run[o].pc # "absent"
  BY <1>2 DEF Submit
<1>3. CASE run[o].pc = "absent"
  <2> DEFINE runs == [run EXCEPT ![o].pc = IF status[o] \in Final THEN "done" ELSE "queued"]
  <2>1. PICK gone \in SUBSET ({p \in Operations : runs[p].pc = "done"} \ {o}) :
          run' = [p \in Operations |-> IF p \in gone THEN NoRun ELSE runs[p]]
    BY <1>3 DEF Submit, Evicted
  <2>2. /\ \A p \in Operations \ {o} : runs[p] = run[p]
        /\ runs[o].pc = IF status[o] \in Final THEN "done" ELSE "queued"
        /\ runs[o].started = run[o].started /\ runs[o].stopped = run[o].stopped
        /\ runs[o].cancelling = run[o].cancelling
    BY <1>1 DEF RunType
  <2> HIDE DEF runs
  <2> QED BY <1>3, <2>1, <2>2
<1> QED BY <1>2, <1>3

LEMMA ReserveEffect ==
  ASSUME Base, NEW o \in Operations, FindOrReserve(o)
  PROVE  /\ UNCHANGED <<consumed, saved, intent>>
         /\ \A p \in Operations \ {o} : status'[p] = status[p]
         /\ IF status[o] = "none" THEN status'[o] = "reserved" ELSE status'[o] = status[o]
         /\ charged' = charged
BY Types DEF FindOrReserve, Reserve, ledgerVars

(* A request changes the run of its own operation.                          *)
LEMMA RequestEffect ==
  ASSUME Base, NEW o \in Operations, NEW i \in Copies, Request(o, i)
  PROVE  /\ LoopFree /\ mode \in {"serving", "draining", "closing"}
         /\ UNCHANGED <<receipt, stopFile, mode, inflight, scan, stopping, asked, launched, crashes,
                        consumed, saved, intent, charged>>
         /\ faults' = faults \/ faults' = faults + 1
         /\ \A p \in Operations \ {o} : status'[p] = status[p]
         /\ status'[o] = status[o] \/ (status[o] = "none" /\ status'[o] = "reserved")
         /\ \A p \in Operations, j \in Copies : prep'[p][j] = "loading" =>
              prep[p][j] = "loading"
                \/ (p = o /\ status[o] = "none" /\ status'[o] = "none" /\ mode = "serving")
         /\ \A p \in Operations \ {o} :
              run'[p] = run[p] \/ (run[p].pc = "done" /\ run'[p] = NoRun)
<1>1. /\ UNCHANGED <<receipt, stopFile, mode, inflight, scan, stopping, asked, launched, crashes>>
      /\ faults' = faults \/ faults' = faults + 1
  BY DEF Request, Deliver, PreparationStopped, PreparationRefused, AdmitChat, AdmitTarget,
         RejectTarget, Fault, disk
<1>2. LoopFree /\ mode \in {"serving", "draining", "closing"}
  BY DEF Request, Deliver, PreparationStopped, PreparationRefused, AdmitChat, AdmitTarget,
         RejectTarget, Resumes
<1>3. UNCHANGED ledgerVars \/ FindOrReserve(o)
  BY DEF Request, Deliver, PreparationStopped, PreparationRefused, AdmitChat, AdmitTarget,
         RejectTarget
<1>4. /\ UNCHANGED <<consumed, saved, intent, charged>>
      /\ \A p \in Operations \ {o} : status'[p] = status[p]
      /\ status'[o] = status[o] \/ (status[o] = "none" /\ status'[o] = "reserved")
  BY <1>3, ReserveEffect DEF ledgerVars
<1>5. \A p \in Operations \ {o} : run'[p] = run[p] \/ (run[p].pc = "done" /\ run'[p] = NoRun)
  <2>1. UNCHANGED run \/ Submit(o)
    BY DEF Request, Deliver, PreparationStopped, PreparationRefused, AdmitChat, AdmitTarget,
           RejectTarget
  <2> QED BY <2>1, SubmitEffect
<1>6. \A p \in Operations, j \in Copies : prep'[p][j] = "loading" =>
        prep[p][j] = "loading"
          \/ (p = o /\ status[o] = "none" /\ status'[o] = "none" /\ mode = "serving")
  <2>1. prep' = [prep EXCEPT ![o][i] = "gone"]
        \/ (prep' = [prep EXCEPT ![o][i] = "loading"] /\ status[o] = "none" /\ UNCHANGED ledgerVars
            /\ mode = "serving")
    BY DEF Request, Deliver, PreparationStopped, PreparationRefused, AdmitChat, AdmitTarget,
           RejectTarget, Resumes
  <2> QED BY <2>1, Types DEF ledgerVars
<1> QED BY <1>1, <1>2, <1>4, <1>5, <1>6

(* What the task of an operation and its calls do.                          *)
LEMMA StartRunEffect ==
  ASSUME Base, NEW o \in Operations, StartRun(o)
  PROVE  /\ LoopFree /\ mode \in {"serving", "draining", "closing"}
         /\ run[o].pc = "queued" /\ ~run[o].cancelling
         /\ run'[o].pc = "running" /\ run'[o].started /\ ~run'[o].cancelling
         /\ run'[o].stopped = run[o].stopped
         /\ \A p \in Operations \ {o} : run'[p] = run[p] /\ status'[p] = status[p]
         /\ UNCHANGED <<receipt, admitted, stopFile, mode, prep, inflight, scan, stopping, asked,
                        crashes, consumed, saved, intent, charged>>
         /\ status'[o] = status[o] \/ (status[o] = "reserved" /\ status'[o] = "running")
         /\ \/ launched' = [launched EXCEPT ![o] = @ + 1] /\ UNCHANGED <<fin, faults>>
            \/ Finish(o, "failed") /\ faults' = faults + 1 /\ UNCHANGED <<launched, status>>
<1>1. /\ LoopFree /\ mode \in {"serving", "draining", "closing"}
      /\ run[o].pc = "queued" /\ ~run[o].cancelling
      /\ run' = [run EXCEPT ![o].pc = "running", ![o].started = TRUE]
      /\ UNCHANGED <<receipt, admitted, stopFile, mode, prep, inflight, scan, stopping, asked, crashes>>
  BY DEF StartRun, disk
<1>2. run \in [Operations -> RunType]
  BY Types
<1>3. run' = [run EXCEPT ![o] = [run[o] EXCEPT !.pc = "running", !.started = TRUE]]
  BY <1>1
<1>4. /\ \A p \in Operations \ {o} : run'[p] = run[p]
      /\ run'[o].pc = "running" /\ run'[o].started /\ run'[o].cancelling = run[o].cancelling
      /\ run'[o].stopped = run[o].stopped
  BY <1>2, <1>3 DEF RunType
<1>5. /\ Started(o) \/ UNCHANGED ledgerVars
      /\ \/ launched' = [launched EXCEPT ![o] = @ + 1] /\ UNCHANGED <<fin, faults>>
         \/ Finish(o, "failed") /\ faults' = faults + 1 /\ UNCHANGED <<launched, ledgerVars>>
  BY DEF StartRun, Fault
<1>6. /\ \A p \in Operations \ {o} : status'[p] = status[p]
      /\ UNCHANGED <<consumed, saved, intent, charged>>
      /\ status'[o] = status[o] \/ (status[o] = "reserved" /\ status'[o] = "running")
  BY <1>5, Types DEF Started, ledgerVars
<1> QED BY <1>1, <1>4, <1>5, <1>6 DEF ledgerVars

LEMMA CallEffect ==
  ASSUME Base, NEW o \in Operations, NEW c \in Calls,
         BeforeCall(o, c) \/ CallReturns(o, c) \/ CallFails(o, c)
  PROVE  /\ UNCHANGED <<disk, mode, prep, run, fin, scan, stopping, asked, launched, faults, crashes,
                        status, saved, intent, charged>>
         /\ \A p \in Operations \ {o} : inflight'[p] = inflight[p] /\ consumed'[p] = consumed[p]
         /\ inflight'[o] \subseteq inflight[o] \/ (Gate(o) /\ inflight[o] \subseteq inflight'[o])
         /\ inflight[o] = {} => consumed' = consumed
<1>1. /\ UNCHANGED <<disk, mode, prep, run, fin, scan, stopping, asked, launched, faults, crashes>>
      /\ UNCHANGED ledgerVars \/ (c \in inflight[o] /\ \E k \in Costs : RecordCall(o, c, k))
      /\ \/ inflight' = [inflight EXCEPT ![o] = @ \ {c}]
         \/ inflight' = [inflight EXCEPT ![o] = @ \cup {c}] /\ Gate(o)
  BY DEF BeforeCall, CallReturns, CallFails
<1>2. /\ UNCHANGED <<status, saved, intent, charged>>
      /\ \A p \in Operations \ {o} : consumed'[p] = consumed[p]
      /\ inflight[o] = {} => consumed' = consumed
  BY <1>1, Types DEF RecordCall, ledgerVars
<1>3. /\ \A p \in Operations \ {o} : inflight'[p] = inflight[p]
      /\ inflight'[o] \subseteq inflight[o] \/ (Gate(o) /\ inflight[o] \subseteq inflight'[o])
  BY <1>1, Types
<1> QED BY <1>1, <1>2, <1>3

LEMMA BudgetEffect ==
  ASSUME Base, NEW o \in Operations, BudgetExhausted(o)
  PROVE  /\ UNCHANGED <<ledgerVars, disk, mode, prep, inflight, fin, scan, stopping, asked, launched,
                        faults, crashes>>
         /\ \A p \in Operations :
              run'[p].pc = run[p].pc /\ run'[p].started = run[p].started
              /\ run'[p].stopped = run[p].stopped /\ run'[p].cancelling = run[p].cancelling
<1>1. run \in [Operations -> RunType]
  BY Types
<1>2. run' = [run EXCEPT ![o] = [run[o] EXCEPT !.exhausted = TRUE]]
  BY DEF BudgetExhausted
<1>3. \A p \in Operations :
        run'[p].pc = run[p].pc /\ run'[p].started = run[p].started
        /\ run'[p].stopped = run[p].stopped /\ run'[p].cancelling = run[p].cancelling
  BY <1>1, <1>2 DEF RunType
<1> QED BY <1>3 DEF BudgetExhausted

(* A task that comes to its end calls finish.                               *)
LEMMA EndEffect ==
  ASSUME Base, NEW o \in Operations, SourceFinal(o) \/ SourceFails(o) \/ SourceStopped(o)
  PROVE  /\ Executing(o) /\ run[o].pc = "running" /\ ~run[o].cancelling /\ LoopFree
         /\ UNCHANGED <<disk, mode, prep, run, inflight, scan, stopping, asked, launched, faults,
                        crashes, consumed, charged>>
         /\ fin' # Idle /\ fin'.op = o /\ fin'.at = "receipt"
         /\ \/ UNCHANGED <<status, saved, intent>>
               /\ fin'.outcome \in {"failed", "budget_exhausted"}
                    \cup {"stopped" : q \in {o} \cap stopFile}
            \/ /\ SaveResult(o) /\ fin'.outcome \in {"completed", "budget_exhausted"}
               /\ o \in Targets => CanContinue(o)
BY DEF SourceFinal, SourceFails, SourceStopped, Executing, Finish, Ending, Idle, SaveResult, ledgerVars

LEMMA ClosedEffect ==
  ASSUME Base, NEW o \in Operations, SourceClosed(o)
  PROVE  /\ LoopFree /\ run[o].pc = "running" /\ ~CanContinue(o) /\ ~run[o].cancelling
         /\ mode \in {"serving", "draining", "closing"}
         /\ UNCHANGED <<ledgerVars, disk, mode, prep, inflight, fin, scan, stopping, asked, launched,
                        faults, crashes>>
         /\ run'[o].pc = "done" /\ \A p \in Operations \ {o} : run'[p] = run[p]
<1>1. run \in [Operations -> RunType]
  BY Types
<1> QED BY <1>1 DEF SourceClosed, Executing, RunType

LEMMA CancelEffect ==
  ASSUME Base, NEW o \in Operations, CancelDelivered(o)
  PROVE  /\ LoopFree /\ run[o].cancelling /\ mode \in {"serving", "draining", "closing"}
         /\ UNCHANGED <<ledgerVars, disk, mode, prep, inflight, scan, stopping, asked, launched,
                        faults, crashes>>
         /\ \A p \in Operations \ {o} : run'[p] = run[p]
         /\ \/ /\ run[o].pc = "running" /\ run' = run
               /\ fin' # Idle /\ fin'.op = o /\ fin'.at = "receipt"
               /\ fin'.outcome \in {"stopped", "failed", "budget_exhausted"}
               /\ run[o].stopped => fin'.outcome # "failed"
            \/ run[o].pc = "queued" /\ run'[o].pc = "dead" /\ UNCHANGED fin
<1>1. run \in [Operations -> RunType]
  BY Types
<1> QED BY <1>1 DEF CancelDelivered, Finish, Ending, Idle, RunType

(* A stop, and the steps of the process.                                    *)
LEMMA AskEffect ==
  ASSUME Base, NEW t, NEW selected \in SUBSET Operations, NEW targets,
         RequestStop(t, selected, targets)
  PROVE  /\ LoopFree /\ mode = "serving" /\ selected \subseteq Active
         /\ stopping' = selected /\ asked' = asked \cup selected
         /\ UNCHANGED <<ledgerVars, receipt, admitted, mode, run, inflight, fin, scan, launched, faults,
                        crashes>>
         /\ \A p \in Operations, j \in Copies : prep'[p][j] = "loading" => prep[p][j] = "loading"
BY Types DEF RequestStop, CancelledPreparations

LEMMA VisitEffect ==
  ASSUME Base, NEW o \in Operations, StopVisit(o)
  PROVE  /\ o \in stopping /\ fin = Idle /\ stopping' = stopping \ {o}
         /\ UNCHANGED <<ledgerVars, disk, mode, prep, inflight, scan, asked, launched, faults, crashes>>
         /\ \A p \in Operations \ {o} : run'[p] = run[p]
         /\ run'[o].pc = run[o].pc /\ run'[o].started = run[o].started
         /\ run'[o].stopped /\ run'[o].cancelling
         /\ IF run[o].started THEN UNCHANGED fin
            ELSE fin' # Idle /\ fin'.op = o /\ fin'.at = "receipt" /\ fin'.outcome = "stopped"
<1>1. run \in [Operations -> RunType]
  BY Types
<1>2. /\ o \in stopping /\ fin = Idle /\ stopping' = stopping \ {o}
      /\ UNCHANGED <<ledgerVars, disk, mode, prep, inflight, scan, asked, launched, faults, crashes>>
      /\ run' = [run EXCEPT ![o].stopped = TRUE, ![o].cancelling = TRUE,
                            ![o].cancelled = run[o].started]
      /\ IF run[o].started THEN UNCHANGED fin ELSE Finish(o, "stopped")
  BY DEF StopVisit
<1> DEFINE r == [run[o] EXCEPT !.stopped = TRUE, !.cancelling = TRUE, !.cancelled = run[o].started]
<1>3. r.pc = run[o].pc /\ r.started = run[o].started /\ r.stopped /\ r.cancelling
  BY <1>1 DEF RunType
<1>4. \A p \in Operations : run'[p] = IF p = o THEN r ELSE run[p]
  BY <1>1, <1>2 DEF RunType
<1> HIDE DEF r
<1>5. /\ \A p \in Operations \ {o} : run'[p] = run[p]
      /\ run'[o].pc = run[o].pc /\ run'[o].started = run[o].started
      /\ run'[o].stopped /\ run'[o].cancelling
  BY <1>3, <1>4
<1>6. IF run[o].started THEN UNCHANGED fin
      ELSE fin' # Idle /\ fin'.op = o /\ fin'.at = "receipt" /\ fin'.outcome = "stopped"
  BY <1>2 DEF Finish, Idle
<1> QED BY <1>2, <1>5, <1>6

LEMMA CancellingEffect ==
  ASSUME Base, NEW S
  PROVE  \A p \in Operations :
           /\ Cancelling(S)[p].pc = run[p].pc /\ Cancelling(S)[p].started = run[p].started
           /\ Cancelling(S)[p].stopped = run[p].stopped
           /\ run[p].cancelling => Cancelling(S)[p].cancelling
           /\ run[p].pc = "absent" => Cancelling(S)[p] = run[p]
<1>1. run \in [Operations -> RunType]
  BY Types
<1> QED BY <1>1 DEF Cancelling, RunType, Active

LEMMA ShutdownEffect ==
  ASSUME Base, Shutdown \/ Close
  PROVE  /\ LoopFree /\ mode \in {"serving", "draining"} /\ mode' \in {"draining", "closing"}
         /\ UNCHANGED <<ledgerVars, disk, inflight, fin, scan, stopping, asked, launched, faults, crashes>>
         /\ \A p \in Operations, j \in Copies : prep'[p][j] = "loading" => prep[p][j] = "loading"
         /\ \A p \in Operations :
              /\ run'[p].pc = run[p].pc /\ run'[p].started = run[p].started
              /\ run'[p].stopped = run[p].stopped
              /\ run[p].cancelling => run'[p].cancelling
              /\ run[p].pc = "absent" => run'[p].cancelling = run[p].cancelling
<1>1. run \in [Operations -> RunType]
  BY Types
<1>2. CASE Shutdown
  BY <1>2, CancellingEffect DEF Shutdown
<1>3. CASE Close
  <2> DEFINE next == Cancelling(Operations)
  <2>1. run' = [p \in Operations |->
                 [next[p] EXCEPT !.cancelled = @ \/ (p \in Active /\ run[p].started)]]
    BY <1>3 DEF Close
  <2>2. \A p \in Operations :
          /\ next[p].pc = run[p].pc /\ next[p].started = run[p].started
          /\ next[p].stopped = run[p].stopped
          /\ run[p].cancelling => next[p].cancelling
          /\ run[p].pc = "absent" => next[p].cancelling = run[p].cancelling
    BY CancellingEffect
  <2>3. next \in [Operations -> RunType]
    BY <1>1 DEF Cancelling, RunType
  <2> HIDE DEF next
  <2>4. \A p \in Operations :
          /\ run'[p].pc = next[p].pc /\ run'[p].started = next[p].started
          /\ run'[p].stopped = next[p].stopped /\ run'[p].cancelling = next[p].cancelling
    BY <2>1, <2>3 DEF RunType
  <2>5. \A p \in Operations, j \in Copies : prep'[p][j] = "loading" => prep[p][j] = "loading"
    BY <1>3, Types DEF Close, CancelledPreparations
  <2>6. /\ LoopFree /\ mode = "draining" /\ mode' = "closing"
        /\ UNCHANGED <<ledgerVars, disk, inflight, fin, scan, stopping, asked, launched, faults, crashes>>
    BY <1>3 DEF Close
  <2>7. \A p \in Operations :
          /\ run'[p].pc = run[p].pc /\ run'[p].started = run[p].started
          /\ run'[p].stopped = run[p].stopped
          /\ run[p].cancelling => run'[p].cancelling
          /\ run[p].pc = "absent" => run'[p].cancelling = run[p].cancelling
    BY <2>2, <2>4
  <2> QED BY <2>5, <2>6, <2>7
<1> QED BY <1>2, <1>3

LEMMA DownEffect ==
  ASSUME Base, Exit \/ Crash
  PROVE  /\ mode' = "down" /\ run' = [o \in Operations |-> NoRun]
         /\ fin' = Idle /\ scan' = NoScan /\ stopping' = {} /\ crashes' = crashes + 1
         /\ \A p \in Operations : inflight'[p] = {} /\ \A j \in Copies : prep'[p][j] # "loading"
         /\ UNCHANGED <<ledgerVars, disk, asked, launched, faults>>
BY DEF Exit, Crash, Down

LEMMA StartEffect ==
  ASSUME Base, Start
  PROVE  /\ mode = "down" /\ mode' = "starting"
         /\ UNCHANGED <<ledgerVars, disk, prep, inflight, fin, stopping, asked, launched, faults, crashes>>
         /\ \E resumed \in SUBSET {o \in admitted \ saved : Pending(o)} :
              /\ scan' = [at |-> "receipts", todo |-> {o \in Operations : receipt[o] # None},
                          current |-> None, active |-> resumed, held |-> {}]
              /\ \A p \in Operations :
                   run'[p] = IF p \in resumed THEN [NoRun EXCEPT !.pc = "queued"] ELSE NoRun
<1>1. PICK resumed \in SUBSET {o \in admitted \ saved : Pending(o)} :
        /\ run' = [o \in Operations |-> IF o \in resumed THEN [NoRun EXCEPT !.pc = "queued"] ELSE NoRun]
        /\ scan' = [BeginScan EXCEPT !.active = resumed]
  BY DEF Start
<1>2. scan' = [at |-> "receipts", todo |-> {o \in Operations : receipt[o] # None},
               current |-> None, active |-> resumed, held |-> {}]
  BY <1>1 DEF BeginScan
<1> QED BY <1>1, <1>2 DEF Start

LEMMA AdminEffect ==
  ASSUME Administration \/ UNCHANGED vars
  PROVE  /\ UNCHANGED <<disk, proc, asked, launched, faults, crashes>>
         /\ UNCHANGED <<status, consumed, saved, intent, charged>>
BY DEF Administration, AdminStep, Adjust, CreateInvites, RegisterInvited, vars, ledgerVars

-----------------------------------------------------------------------------
(* CoreInv is inductive.                                                    *)

LEMMA CoreFinish ==
  ASSUME Base, CoreInv, FinishStep
  PROVE  CoreInv'
<1>1. fin # Idle /\ fin.op \in Operations /\ fin.outcome \in Final /\ stopping \subseteq Operations
  BY FinishEffect, FinTypes
<1>2. fin.op \notin stopping
  BY <1>1 DEF CoreInv, StoppingInv, InFinish
<1>3. /\ UNCHANGED <<admitted, mode, prep, inflight, scan, stopping, asked, consumed, saved>>
      /\ \A p \in Operations \ {fin.op} : run'[p] = run[p]
      /\ \/ run' = run /\ fin' # Idle /\ fin'.op = fin.op
         \/ /\ fin' = Idle
            /\ \A p \in Operations : p = fin.op =>
                 \/ run'[p] = run[p] /\ (scan # NoScan \/ run[p].pc \notin {"queued", "running"})
                 \/ run'[p].pc = "done" /\ run[p].pc \in {"queued", "running"} /\ scan = NoScan
                    /\ run'[p].started = run[p].started /\ run'[p].stopped = run[p].stopped
  BY <1>1, FinishEffect, ReturnEffect
<1>4. ScanInv'
  BY <1>1, <1>3 DEF CoreInv, ScanInv, Active
<1>5. StoppingInv'
  BY <1>1, <1>2, <1>3 DEF CoreInv, StoppingInv, Active, InFinish
<1>6. ModeInv'
  <2>1. mode # "down"
    BY <1>1 DEF Base, OutcomeInv, Control, LoopFree
  <2>2. ASSUME NEW p \in Operations, Shape(p) PROVE Shape(p)'
    <3>1. CASE p = fin.op
      <4>1. CASE fin' = Idle /\ run'[p] = run[p]
        <5>1. run[p].pc \notin {"queued", "running"}
          BY <1>1, <1>3, <3>1, <4>1 DEF CoreInv, ScanInv, Active
        <5>2. ~Working(p)'
          BY <4>1, <5>1 DEF Working
        <5> QED BY <1>3, <2>2, <4>1, <5>1, <5>2 DEF Shape
      <4>2. CASE run'[p].pc = "done"
        <5>1. run'[p].started = run[p].started
          BY <1>3, <3>1
        <5> QED BY <1>3, <2>2, <4>2, <5>1 DEF Shape, Working
      <4>3. CASE run' = run /\ fin' # Idle /\ fin'.op = fin.op
        BY <1>1, <1>3, <2>2, <3>1, <4>3 DEF Shape, Working, InFinish
      <4> QED BY <1>3, <3>1, <4>1, <4>2, <4>3
    <3>2. CASE p # fin.op
      BY <1>3, <2>2, <3>2 DEF Shape, Working, InFinish
    <3> QED BY <3>1, <3>2
  <2> QED BY <1>3, <2>1, <2>2 DEF CoreInv, ModeInv
<1>7. TargetInv'
  BY <1>1, <1>3, Types DEF CoreInv, TargetInv, Unused
<1>8. SettledInv'
  <2>1. scan.at # "unlink"
    BY <1>1 DEF Base, OutcomeInv, Control
  <2>2. fin'.at = "unlink" => FinishSettle /\ Settle(fin.op, fin.outcome) /\ fin'.op = fin.op
    BY <1>1, FinTypes DEF FinishStep, FinishReceipt, FinishIntent, FinishSettle, FinishUnlink, Return,
                          Idle
  <2>3. Settle(fin.op, fin.outcome) => status'[fin.op] \in Final /\ intent'[fin.op] = None
    BY <1>1, SettleEffect
  <2> QED BY <1>3, <2>1, <2>2, <2>3 DEF SettledInv
<1> QED BY <1>4, <1>5, <1>6, <1>7, <1>8 DEF CoreInv

(* The steps of a scan that goes on.                                        *)
LEMMA ScanGoes ==
  ASSUME Base, ScanStep, ~ScanAborts, ~ScanEnd
  PROVE  /\ scan' # NoScan /\ scan'.active = scan.active
         /\ scan'.at = "orphans" =>
              scan'.todo \subseteq scan.todo \/ scan'.todo \cap scan.active = {}
         /\ scan'.at = "orphans" /\ scan.at # "orphans" => ScanToOrphans
         /\ \/ fin' = fin
            \/ fin = Idle /\ fin' # Idle /\ fin'.op \in scan.todo /\ scan.at = "orphans"
         /\ fin'.at = "unlink" => fin' = fin
<1>1. scan # NoScan
  BY ScanEffect
<1>2. scan \in [at : {"receipts", "unlink", "intents", "orphans"}, todo : SUBSET Operations,
                current : Operations \cup {None}, active : SUBSET Operations,
                held : SUBSET Operations]
  BY <1>1, ScanTypes
<1>3. ASSUME NEW o \in Operations, ScanReceipt(o) \/ ScanUnreadable(o)
      PROVE  /\ scan'.at \in {"receipts", "unlink"} /\ scan'.active = scan.active /\ fin' = fin
  BY <1>2, <1>3 DEF ScanReceipt, ScanUnreadable
<1>4. CASE ScanUnlink \/ ScanToIntents
  <2>1. scan'.at \in {"receipts", "intents"} /\ scan'.active = scan.active /\ fin' = fin
    BY <1>2, <1>4 DEF ScanUnlink, ScanToIntents
  <2> QED BY <2>1 DEF NoScan
<1>5. ASSUME NEW o \in Operations, ScanIntent(o)
      PROVE  scan'.at = "intents" /\ scan'.active = scan.active /\ fin' = fin
  <2>1. \/ scan' = [scan EXCEPT !.todo = @ \ {o}, !.held = @ \ {o}]
        \/ scan' = [scan EXCEPT !.todo = @ \ {o}]
    BY <1>5 DEF ScanIntent
  <2>2. scan.at = "intents" /\ fin' = fin
    BY <1>5 DEF ScanIntent
  <2> QED BY <1>2, <2>1, <2>2
<1>6. CASE ScanToOrphans
  <2>1. scan'.at = "orphans" /\ scan'.active = scan.active /\ fin' = fin
        /\ scan'.todo \cap scan.active = {}
    BY <1>2, <1>6 DEF ScanToOrphans
  <2> QED BY <1>6, <2>1 DEF NoScan
<1>7. ASSUME NEW o \in Operations, ScanOrphan(o)
      PROVE  /\ scan'.at = "orphans" /\ scan.at = "orphans" /\ scan'.active = scan.active
             /\ scan'.todo \subseteq scan.todo
             /\ fin = Idle /\ fin' # Idle /\ fin'.op \in scan.todo /\ fin'.at = "receipt"
  BY <1>2, <1>7 DEF ScanOrphan, Finish, Idle
<1> QED BY <1>3, <1>4, <1>5, <1>6, <1>7 DEF ScanStep, NoScan

LEMMA CoreScan ==
  ASSUME Base, CoreInv, ScanStep
  PROVE  CoreInv'
<1>1. /\ scan # NoScan /\ stopping = {} /\ mode # "down"
      /\ UNCHANGED <<admitted, prep, inflight, stopping, asked, consumed, saved>>
  BY ScanEffect, ScanTypes
<1>2. CASE ScanAborts
  <2>1. UNCHANGED <<ledgerVars, fin>> /\ scan' = NoScan /\ fin = Idle /\ fin.at # "unlink"
    BY <1>2 DEF ScanAborts, Base, OutcomeInv, Control, Idle
  <2>2. \/ run' = run /\ mode' = mode /\ mode # "starting"
        \/ mode = "starting" /\ mode' = "down" /\ run' = [o \in Operations |-> NoRun]
    BY <1>2 DEF ScanAborts
  <2>3. ScanInv'
    BY <2>1, <2>2 DEF ScanInv, NoScan
  <2>4. StoppingInv' /\ SettledInv'
    BY <1>1, <2>1 DEF StoppingInv, SettledInv, NoScan
  <2>5. ModeInv' /\ TargetInv'
    <3>1. CASE run' = run /\ mode' = mode
      BY <1>1, <2>1, <3>1 DEF CoreInv, ModeInv, TargetInv, Unused, Shape, Working, InFinish
    <3>2. CASE mode = "starting" /\ mode' = "down" /\ run' = [o \in Operations |-> NoRun]
      BY <1>1, <3>2, Types DEF CoreInv, ModeInv, TargetInv, Unused, Shape, Working, NoRun
    <3> QED BY <2>2, <3>1, <3>2
  <2> QED BY <2>3, <2>4, <2>5 DEF CoreInv
<1>3. CASE ScanEnd
  <2>1. /\ UNCHANGED <<ledgerVars, run, fin>> /\ scan' = NoScan /\ fin = Idle
        /\ mode' = IF mode = "starting" THEN "serving" ELSE mode
    BY <1>3 DEF ScanEnd
  <2>2. ScanInv' /\ StoppingInv' /\ SettledInv'
    BY <1>1, <2>1 DEF ScanInv, StoppingInv, SettledInv, NoScan, Idle
  <2>3. ModeInv' /\ TargetInv'
    BY <1>1, <2>1 DEF CoreInv, ModeInv, TargetInv, Unused, Shape, Working, InFinish
  <2> QED BY <2>2, <2>3 DEF CoreInv
<1>4. CASE ~ScanAborts /\ ~ScanEnd
  <2>1. run' = run /\ mode' = mode
    BY <1>4 DEF ScanStep, ScanReceipt, ScanUnreadable, ScanIntent, ScanOrphan, ScanUnlink,
                ScanToIntents, ScanToOrphans
  <2>2. /\ scan' # NoScan /\ scan'.active = scan.active
        /\ scan'.at = "orphans" =>
             scan'.todo \subseteq scan.todo \/ scan'.todo \cap scan.active = {}
        /\ scan'.at = "orphans" /\ scan.at # "orphans" => ScanToOrphans
        /\ \/ fin' = fin
           \/ fin = Idle /\ fin' # Idle /\ fin'.op \in scan.todo /\ scan.at = "orphans"
        /\ fin'.at = "unlink" => fin' = fin
    BY <1>4, ScanGoes
  <2>3. ScanInv'
    <3>1. scan'.at = "orphans" => scan'.todo \cap scan.active = {}
      BY <2>2 DEF CoreInv, ScanInv, ScanToOrphans
    <3> QED BY <1>1, <2>1, <2>2, <3>1 DEF CoreInv, ScanInv, Active
  <2>4. StoppingInv'
    BY <1>1 DEF StoppingInv
  <2>5. ASSUME NEW p \in Operations, Shape(p) PROVE Shape(p)'
    <3>1. CASE fin' = fin
      BY <2>1, <2>5, <3>1 DEF Shape, Working, InFinish
    <3>2. CASE fin = Idle
      BY <2>1, <2>5, <3>2 DEF Shape, Working, InFinish
    <3> QED BY <2>2, <3>1, <3>2
  <2>6. ModeInv' /\ TargetInv'
    BY <1>1, <2>1, <2>5 DEF CoreInv, ModeInv, TargetInv, Unused
  <2>7. SettledInv'
    <3>1. fin'.at = "unlink" => UNCHANGED <<status, intent>> /\ fin' = fin
      <4>1. CASE fin.at = "unlink"
        <5>1. scan.at = "orphans" /\ fin # Idle
          BY <1>1, <4>1, ScanTypes DEF Idle
        <5> QED BY <1>4, <5>1, <2>2
                DEF ScanStep, ScanReceipt, ScanUnreadable, ScanIntent, ScanOrphan, ScanUnlink,
                    ScanToIntents, ScanToOrphans, ledgerVars
      <4> QED BY <2>2, <4>1
    <3>2. scan'.at = "unlink" => status'[scan'.current] \in Final
      <4>1. scan \in [at : {"receipts", "unlink", "intents", "orphans"}, todo : SUBSET Operations,
                      current : Operations \cup {None}, active : SUBSET Operations,
                      held : SUBSET Operations]
        BY <1>1, ScanTypes
      <4>2. ASSUME scan'.at = "unlink"
            PROVE  \E o \in Operations : ScanReceipt(o)
        <5>1. \A o \in Operations : ScanIntent(o) => scan'.at = "intents"
          <6> SUFFICES ASSUME NEW o \in Operations, ScanIntent(o) PROVE scan'.at = "intents"
            OBVIOUS
          <6>1. \/ scan' = [scan EXCEPT !.todo = @ \ {o}, !.held = @ \ {o}]
                \/ scan' = [scan EXCEPT !.todo = @ \ {o}]
            BY DEF ScanIntent
          <6> QED BY <4>1, <6>1 DEF ScanIntent
        <5> QED BY <1>4, <4>1, <4>2, <5>1
                DEF ScanStep, ScanUnreadable, ScanOrphan, ScanUnlink, ScanToIntents, ScanToOrphans
      <4>3. ASSUME NEW o \in Operations, ScanReceipt(o) PROVE status'[scan'.current] \in Final
        <5>1. scan'.current = o /\ o \in scan.todo /\ scan.at = "receipts" /\ Settle(o, receipt[o])
          BY <4>1, <4>3 DEF ScanReceipt
        <5>2. receipt[o] \in Final
          BY <5>1, Types DEF Base, OutcomeInv, Control
        <5> QED BY <5>1, <5>2, SettleEffect
      <4> QED BY <4>2, <4>3
    <3> QED BY <3>1, <3>2 DEF CoreInv, SettledInv
  <2> QED BY <2>3, <2>4, <2>6, <2>7 DEF CoreInv
<1> QED BY <1>2, <1>3, <1>4

LEMMA CoreScanBegins ==
  ASSUME Base, CoreInv, Scan
  PROVE  CoreInv'
<1>1. /\ LoopFree /\ mode \in {"serving", "draining"} /\ scan' = BeginScan
      /\ UNCHANGED <<ledgerVars, admitted, mode, prep, run, inflight, fin, stopping, asked>>
  BY DEF Scan, disk
<1>2. scan'.at = "receipts" /\ scan'.active = Active
  BY <1>1 DEF BeginScan
<1>3. ScanInv'
  BY <1>1, <1>2 DEF ScanInv, Active, LoopFree
<1>4. StoppingInv' /\ SettledInv'
  BY <1>1, <1>2 DEF CoreInv, StoppingInv, SettledInv, LoopFree, Idle
<1>5. ModeInv' /\ TargetInv'
  BY <1>1, Types DEF CoreInv, ModeInv, TargetInv, Unused, Shape, Working, InFinish, ledgerVars
<1> QED BY <1>3, <1>4, <1>5 DEF CoreInv

(* Steps taken while the loop is free.                                      *)
LEMMA LoopFreeCore ==
  ASSUME LoopFree, UNCHANGED <<scan, stopping>>, fin' = Idle \/ fin'.at = "receipt",
         mode' # "starting"
  PROVE  ScanInv' /\ StoppingInv' /\ SettledInv'
<1>1. scan' = NoScan /\ stopping' = {} /\ fin'.at # "unlink"
  BY DEF LoopFree, Idle
<1> QED BY <1>1 DEF ScanInv, StoppingInv, SettledInv, NoScan

LEMMA CoreRequest ==
  ASSUME Base, CoreInv, NEW o \in Operations, NEW i \in Copies, Request(o, i)
  PROVE  CoreInv'
<1>1. /\ LoopFree /\ mode \in {"serving", "draining", "closing"}
      /\ UNCHANGED <<mode, inflight, scan, stopping, asked, consumed, saved>>
      /\ \A p \in Operations \ {o} :
           run'[p] = run[p] \/ (run[p].pc = "done" /\ run'[p] = NoRun)
  BY RequestEffect
<1>2. \/ /\ UNCHANGED run /\ admitted' \in {admitted, admitted \cup {o}}
         /\ fin' = fin \/ Finish(o, "failed")
      \/ o \notin Targets /\ Submit(o) /\ UNCHANGED <<admitted, fin>>
      \/ /\ o \in Targets /\ admitted' = admitted \cup {o} /\ UNCHANGED fin
         /\ IF o \in admitted THEN UNCHANGED run ELSE Submit(o) \/ UNCHANGED run
  BY DEF Request, Deliver, PreparationStopped, PreparationRefused, AdmitChat, AdmitTarget,
         RejectTarget, disk
<1>3. \/ run'[o] = run[o]
      \/ /\ run[o].pc = "absent" /\ run'[o].pc \in {"queued", "done"}
         /\ run'[o].started = run[o].started /\ run'[o].stopped = run[o].stopped
         /\ run'[o].cancelling = run[o].cancelling
  <2>1. UNCHANGED run \/ Submit(o)
    BY <1>2
  <2> QED BY <2>1, SubmitEffect
<1>4. ScanInv' /\ StoppingInv' /\ SettledInv'
  <2>1. fin' = Idle \/ fin'.at = "receipt"
    BY <1>1, <1>2 DEF Finish, LoopFree
  <2> QED BY <1>1, <2>1, LoopFreeCore
<1>5. ModeInv'
  <2>1. ASSUME NEW p \in Operations \ {o} PROVE Shape(p)'
    <3>1. Shape(p) /\ ~InFinish(p)
      BY <1>1 DEF CoreInv, ModeInv, InFinish, LoopFree
    <3>2. CASE run'[p] = run[p]
      BY <1>1, <3>1, <3>2 DEF Shape, Working
    <3>3. CASE run'[p] = NoRun
      BY <3>3 DEF Shape, Working, NoRun
    <3> QED BY <1>1, <3>2, <3>3
  <2>2. Shape(o)'
    <3>1. Shape(o) /\ ~InFinish(o)
      BY <1>1 DEF CoreInv, ModeInv, InFinish, LoopFree
    <3>2. CASE run'[o] = run[o]
      BY <1>1, <3>1, <3>2 DEF Shape, Working
    <3>3. CASE run[o].pc = "absent" /\ run'[o].pc = "done"
      BY <1>1, <3>3 DEF Shape, Working
    <3>4. CASE run[o].pc = "absent" /\ run'[o].pc = "queued"
      BY <1>1, <1>3, <3>1, <3>4 DEF Shape, Working
    <3> QED BY <1>3, <3>2, <3>3, <3>4
  <2> QED BY <1>1, <2>1, <2>2 DEF ModeInv
<1>6. TargetInv'
  <2> SUFFICES ASSUME NEW p \in Targets, p \notin admitted'
               PROVE  (run[p].pc = "absent" /\ p \notin saved /\ p \notin asked /\ Unused(p))'
    BY DEF TargetInv
  <2>1. p \in Operations /\ p \notin admitted
    BY <1>2, Types
  <2>2. run[p].pc = "absent" /\ p \notin saved /\ p \notin asked /\ Unused(p)
    BY <2>1 DEF CoreInv, TargetInv
  <2>3. run'[p] = run[p]
    <3>1. CASE p = o
      BY <1>2, <3>1
    <3>2. CASE p # o
      BY <1>1, <2>1, <2>2, <3>2
    <3> QED BY <3>1, <3>2
  <2> QED BY <1>1, <2>2, <2>3 DEF Unused
<1> QED BY <1>4, <1>5, <1>6 DEF CoreInv

LEMMA CoreExecution ==
  ASSUME Base, CoreInv, NEW o \in Operations, Execution(o)
  PROVE  CoreInv'
<1>1. CASE StartRun(o)
  <2>1. /\ LoopFree /\ mode \in {"serving", "draining", "closing"}
        /\ run[o].pc = "queued" /\ ~run[o].cancelling
        /\ run'[o].pc = "running" /\ run'[o].started /\ run'[o].stopped = run[o].stopped
        /\ \A p \in Operations \ {o} : run'[p] = run[p]
        /\ UNCHANGED <<mode, admitted, scan, stopping, inflight, asked, consumed, saved>>
        /\ fin' = fin \/ Finish(o, "failed")
    BY <1>1, StartRunEffect
  <2>2. ScanInv' /\ StoppingInv' /\ SettledInv'
    <3>1. fin' = Idle \/ fin'.at = "receipt"
      BY <2>1 DEF Finish, LoopFree
    <3> QED BY <2>1, <3>1, LoopFreeCore
  <2>3. Shape(o)'
    <3>1. Shape(o) /\ Working(o)
      BY <2>1 DEF CoreInv, ModeInv, Working, InFinish, LoopFree
    <3> QED BY <2>1, <3>1 DEF Shape
  <2>4. ASSUME NEW p \in Operations \ {o} PROVE Shape(p)'
    BY <2>1 DEF CoreInv, ModeInv, Shape, Working, InFinish, LoopFree
  <2>5. TargetInv'
    BY <2>1, Types DEF CoreInv, TargetInv, Unused
  <2> QED BY <2>1, <2>2, <2>3, <2>4, <2>5 DEF CoreInv, ModeInv
<1>2. ASSUME NEW c \in Calls, BeforeCall(o, c) \/ CallReturns(o, c) \/ CallFails(o, c)
      PROVE  CoreInv'
  <2>1. /\ UNCHANGED <<disk, mode, prep, run, fin, scan, stopping, asked, status, saved, intent>>
        /\ \A p \in Operations \ {o} : inflight'[p] = inflight[p] /\ consumed'[p] = consumed[p]
        /\ inflight'[o] \subseteq inflight[o] \/ Gate(o)
        /\ inflight[o] = {} => consumed' = consumed
    BY <1>2, CallEffect
  <2>2. ScanInv' /\ StoppingInv' /\ SettledInv'
    BY <2>1 DEF CoreInv, ScanInv, StoppingInv, SettledInv, Active, InFinish
  <2>3. \A p \in Operations : Shape(p)'
    BY <2>1 DEF CoreInv, ModeInv, Shape, Working, InFinish
  <2>4. mode \in {"down", "starting"} \/ run[o].pc = "absent" => ~run[o].started
    BY DEF CoreInv, ModeInv, Shape, NoRun
  <2>6. ModeInv'
    BY <2>1, <2>3, <2>4 DEF CoreInv, ModeInv, Gate
  <2>7. TargetInv'
    BY <2>1, <2>4, Types DEF CoreInv, TargetInv, Unused, Gate, disk
  <2> QED BY <2>2, <2>6, <2>7 DEF CoreInv
<1>3. CASE BudgetExhausted(o)
  <2>1. /\ UNCHANGED <<ledgerVars, disk, mode, prep, inflight, fin, scan, stopping, asked>>
        /\ \A p \in Operations :
             run'[p].pc = run[p].pc /\ run'[p].started = run[p].started
             /\ run'[p].stopped = run[p].stopped /\ run'[p].cancelling = run[p].cancelling
    BY <1>3, BudgetEffect
  <2>2. mode # "down"
    BY <1>3 DEF CoreInv, ModeInv, NoRun, BudgetExhausted, Gate
  <2>3. ScanInv' /\ StoppingInv' /\ SettledInv'
    BY <2>1 DEF CoreInv, ScanInv, StoppingInv, SettledInv, Active, InFinish, ledgerVars
  <2>4. ASSUME NEW p \in Operations PROVE Shape(p)'
    <3>1. Shape(p)
      BY DEF CoreInv, ModeInv
    <3> QED BY <2>1, <3>1 DEF Shape, Working, InFinish
  <2>5. TargetInv'
    BY <2>1, Types DEF CoreInv, TargetInv, Unused, ledgerVars, disk
  <2> QED BY <2>1, <2>2, <2>3, <2>4, <2>5 DEF CoreInv, ModeInv
<1>4. CASE SourceFinal(o) \/ SourceFails(o) \/ SourceStopped(o)
  <2>1. /\ LoopFree /\ mode \in {"serving", "draining", "closing"} /\ run[o].pc = "running"
        /\ UNCHANGED <<mode, prep, run, inflight, scan, stopping, asked, consumed, admitted>>
        /\ saved' \subseteq saved \cup {o}
        /\ fin' # Idle /\ fin'.op = o /\ fin'.at = "receipt"
    BY <1>4, EndEffect DEF SaveResult, Executing, disk
  <2>2. ScanInv' /\ StoppingInv' /\ SettledInv'
    BY <2>1, LoopFreeCore
  <2>3. \A p \in Operations : Shape(p)'
    BY <2>1 DEF CoreInv, ModeInv, Shape, Working, InFinish, LoopFree
  <2>4. TargetInv'
    BY <2>1, Types DEF CoreInv, TargetInv, Unused
  <2> QED BY <2>1, <2>2, <2>3, <2>4 DEF CoreInv, ModeInv
<1>5. CASE SourceClosed(o)
  <2>1. /\ LoopFree /\ run[o].pc = "running" /\ mode \in {"serving", "draining", "closing"}
        /\ UNCHANGED <<ledgerVars, disk, mode, prep, inflight, fin, scan, stopping, asked>>
        /\ run'[o].pc = "done" /\ \A p \in Operations \ {o} : run'[p] = run[p]
    BY <1>5, ClosedEffect
  <2>2. ScanInv' /\ StoppingInv' /\ SettledInv'
    BY <2>1, LoopFreeCore DEF LoopFree
  <2>3. \A p \in Operations : Shape(p)'
    BY <2>1 DEF CoreInv, ModeInv, Shape, Working, InFinish, LoopFree
  <2>4. TargetInv'
    BY <2>1, Types DEF CoreInv, TargetInv, Unused, ledgerVars, disk
  <2> QED BY <2>1, <2>2, <2>3, <2>4 DEF CoreInv, ModeInv
<1>6. CASE CancelDelivered(o)
  <2>1. /\ LoopFree /\ run[o].cancelling /\ mode \in {"serving", "draining", "closing"}
        /\ UNCHANGED <<ledgerVars, disk, mode, prep, inflight, scan, stopping, asked>>
        /\ \A p \in Operations \ {o} : run'[p] = run[p]
        /\ \/ run' = run /\ run[o].pc = "running" /\ fin' # Idle /\ fin'.op = o /\ fin'.at = "receipt"
           \/ run[o].pc = "queued" /\ run'[o].pc = "dead" /\ UNCHANGED fin
    BY <1>6, CancelEffect
  <2>2. ScanInv' /\ StoppingInv' /\ SettledInv'
    BY <2>1, LoopFreeCore DEF LoopFree
  <2>3. Shape(o) /\ ~InFinish(o)
    BY <2>1 DEF CoreInv, ModeInv, InFinish, LoopFree
  <2>4. Shape(o)'
    BY <2>1, <2>3 DEF Shape, Working, InFinish
  <2>5. ASSUME NEW p \in Operations \ {o} PROVE Shape(p)'
    BY <2>1 DEF CoreInv, ModeInv, Shape, Working, InFinish, LoopFree
  <2>6. TargetInv'
    <3>1. \A p \in Operations : run[p].pc = "absent" => run'[p].pc = "absent"
      BY <2>1
    <3> QED BY <2>1, <3>1, Types DEF CoreInv, TargetInv, Unused, ledgerVars, disk
  <2> QED BY <2>1, <2>2, <2>4, <2>5, <2>6 DEF CoreInv, ModeInv
<1> QED BY <1>1, <1>2, <1>3, <1>4, <1>5, <1>6 DEF Execution

LEMMA CoreStop ==
  ASSUME Base, CoreInv, Stop
  PROVE  CoreInv'
<1>1. ASSUME NEW t, NEW selected \in SUBSET Operations, NEW targets, RequestStop(t, selected, targets)
      PROVE  CoreInv'
  <2>1. /\ LoopFree /\ mode = "serving" /\ selected \subseteq Active
        /\ stopping' = selected /\ asked' = asked \cup selected
        /\ UNCHANGED <<ledgerVars, receipt, admitted, mode, run, inflight, fin, scan>>
        /\ \A p \in Operations, j \in Copies : prep'[p][j] = "loading" => prep[p][j] = "loading"
    BY <1>1, AskEffect
  <2>2. StoppingInv'
    BY <2>1 DEF CoreInv, ModeInv, Shape, StoppingInv, InFinish, LoopFree, Active
  <2>3. TargetInv'
    BY <2>1, Types DEF CoreInv, TargetInv, Unused, Active, ledgerVars
  <2> QED BY <2>1, <2>2, <2>3
          DEF CoreInv, ScanInv, ModeInv, SettledInv, Shape, Working, InFinish, Active, ledgerVars
<1>2. ASSUME NEW o \in Operations, StopVisit(o)
      PROVE  CoreInv'
  <2>1. /\ o \in stopping /\ fin = Idle /\ stopping' = stopping \ {o}
        /\ UNCHANGED <<ledgerVars, disk, mode, prep, inflight, scan, asked>>
        /\ \A p \in Operations \ {o} : run'[p] = run[p]
        /\ run'[o].pc = run[o].pc /\ run'[o].started = run[o].started
        /\ run'[o].stopped /\ run'[o].cancelling
        /\ IF run[o].started THEN UNCHANGED fin
           ELSE fin' # Idle /\ fin'.op = o /\ fin'.at = "receipt" /\ fin'.outcome = "stopped"
    BY <1>2, VisitEffect
  <2>2. scan = NoScan /\ mode = "serving" /\ o \in Active /\ run[o].pc # "dead" /\ Shape(o)
    BY <2>1 DEF CoreInv, StoppingInv, Base, OutcomeInv, Control, ModeInv
  <2>3. ScanInv' /\ SettledInv'
    BY <2>1, <2>2 DEF ScanInv, SettledInv, NoScan, Idle
  <2>4. StoppingInv'
    BY <2>1 DEF CoreInv, StoppingInv, Active, InFinish
  <2>5. Shape(o)'
    BY <2>1, <2>2 DEF Shape, Active, Working, InFinish
  <2>6. ASSUME NEW p \in Operations \ {o} PROVE Shape(p)'
    BY <2>1 DEF CoreInv, ModeInv, Shape, Working, InFinish
  <2>7. TargetInv'
    BY <2>1, Types DEF CoreInv, TargetInv, Unused, ledgerVars, disk
  <2> QED BY <2>1, <2>2, <2>3, <2>4, <2>5, <2>6, <2>7 DEF CoreInv, ModeInv
<1> QED BY <1>1, <1>2, TargetsAssumption DEF Stop

LEMMA CoreProcess ==
  ASSUME Base, CoreInv, Process
  PROVE  CoreInv'
<1>1. CASE Shutdown \/ Close
  <2>1. /\ LoopFree /\ mode \in {"serving", "draining"} /\ mode' \in {"draining", "closing"}
        /\ UNCHANGED <<ledgerVars, disk, inflight, fin, scan, stopping, asked>>
        /\ \A p \in Operations :
             /\ run'[p].pc = run[p].pc /\ run'[p].started = run[p].started
             /\ run'[p].stopped = run[p].stopped
             /\ run[p].cancelling => run'[p].cancelling
             /\ run[p].pc = "absent" => run'[p].cancelling = run[p].cancelling
    BY <1>1, ShutdownEffect
  <2>2. ScanInv' /\ StoppingInv' /\ SettledInv'
    BY <2>1, LoopFreeCore DEF LoopFree
  <2>3. \A p \in Operations : Shape(p)'
    BY <2>1 DEF CoreInv, ModeInv, Shape, Working, InFinish, LoopFree
  <2>4. TargetInv'
    BY <2>1, Types DEF CoreInv, TargetInv, Unused, ledgerVars, disk
  <2> QED BY <2>1, <2>2, <2>3, <2>4 DEF CoreInv, ModeInv
<1>2. CASE Exit \/ Crash
  <2>1. /\ mode' = "down" /\ run' = [o \in Operations |-> NoRun]
        /\ fin' = Idle /\ scan' = NoScan /\ stopping' = {}
        /\ \A p \in Operations : inflight'[p] = {} /\ \A j \in Copies : prep'[p][j] # "loading"
        /\ UNCHANGED <<ledgerVars, disk, asked>>
    BY <1>2, DownEffect
  <2>2. ScanInv' /\ StoppingInv' /\ SettledInv'
    BY <2>1 DEF ScanInv, StoppingInv, SettledInv, NoScan, Idle
  <2>3. ModeInv' /\ TargetInv'
    BY <2>1, Types DEF CoreInv, ModeInv, TargetInv, Shape, Working, Unused, NoRun, ledgerVars, disk
  <2> QED BY <2>2, <2>3 DEF CoreInv
<1>3. CASE Start
  <2>1. /\ mode = "down" /\ mode' = "starting"
        /\ UNCHANGED <<ledgerVars, disk, prep, inflight, fin, stopping, asked>>
    BY <1>3, StartEffect
  <2>2. PICK resumed \in SUBSET {o \in admitted \ saved : Pending(o)} :
          /\ scan' = [at |-> "receipts", todo |-> {o \in Operations : receipt[o] # None},
                      current |-> None, active |-> resumed, held |-> {}]
          /\ \A p \in Operations :
               run'[p] = IF p \in resumed THEN [NoRun EXCEPT !.pc = "queued"] ELSE NoRun
    BY <1>3, StartEffect
  <2>3. LoopFree
    BY <2>1 DEF Base, OutcomeInv, Control
  <2>4. ScanInv'
    BY <2>1, <2>2, <2>3 DEF ScanInv, Active, NoRun, NoScan, LoopFree
  <2>5. StoppingInv' /\ SettledInv'
    BY <2>1, <2>2, <2>3 DEF StoppingInv, SettledInv, LoopFree, Idle
  <2>6. \A p \in Operations : Shape(p)'
    BY <2>2 DEF Shape, Working, NoRun
  <2>7. TargetInv'
    <3>1. \A p \in Operations \ admitted : run'[p] = NoRun
      BY <2>2
    <3> QED BY <2>1, <3>1, Types DEF CoreInv, TargetInv, Unused, NoRun, ledgerVars, disk
  <2> QED BY <2>1, <2>4, <2>5, <2>6, <2>7 DEF CoreInv, ModeInv
<1> QED BY <1>1, <1>2, <1>3 DEF Process

LEMMA CoreInit == Init => CoreInv
<1> SUFFICES ASSUME Init PROVE CoreInv
  OBVIOUS
<1>1. /\ mode = "serving" /\ fin = Idle /\ scan = NoScan /\ stopping = {} /\ asked = {} /\ saved = {}
      /\ \A o \in Operations : run[o] = NoRun /\ inflight[o] = {} /\ consumed[o] = 0
  BY DEF Init, LedgerInit
<1>2. ScanInv /\ StoppingInv /\ SettledInv
  BY <1>1 DEF ScanInv, StoppingInv, SettledInv, NoScan, Idle
<1>3. \A o \in Operations : Shape(o)
  BY <1>1 DEF Shape, Working, NoRun
<1>4. TargetInv
  BY <1>1, TargetsAssumption DEF TargetInv, Unused, NoRun
<1> QED BY <1>1, <1>2, <1>3, <1>4 DEF CoreInv, ModeInv

LEMMA CoreStep ==
  ASSUME Base, CoreInv, [Next]_vars
  PROVE  CoreInv'
<1>1. CASE Administration \/ UNCHANGED vars
  <2>1. UNCHANGED <<disk, proc, asked, status, consumed, saved, intent>>
    BY <1>1, AdminEffect
  <2> QED BY <2>1 DEF CoreInv, ScanInv, StoppingInv, ModeInv, TargetInv, SettledInv, Shape, Working,
                      InFinish, Active, Unused, disk, proc
<1>2. CASE FinishStep \/ Scan \/ ScanStep \/ Stop \/ Process
  BY <1>2, CoreFinish, CoreScan, CoreScanBegins, CoreStop, CoreProcess
<1>3. ASSUME NEW o \in Operations, NEW i \in Copies, Request(o, i) PROVE CoreInv'
  BY <1>3, CoreRequest
<1>4. ASSUME NEW o \in Operations, Execution(o) PROVE CoreInv'
  BY <1>4, CoreExecution
<1> QED BY <1>1, <1>2, <1>3, <1>4 DEF Next

-----------------------------------------------------------------------------
(* A stop wins.  While nothing failed and no process ended, finish leaves   *)
(* no receipt and no intent behind, so that a run keeps its operation open  *)
(* to its own end, and no scan finds anything to do.  A run that is asked to*)
(* stop is next in line, marked, in finish, or settled.                     *)

Quiet == {"stopped", "budget_exhausted"}

Calm == faults = 0 /\ crashes = 0

Records ==
  /\ asked \subseteq Operations
  /\ faults \in Nat /\ crashes \in Nat
  /\ \A o \in admitted : Known(o)

Undisturbed(o) ==
  /\ Working(o) => CanContinue(o)
  /\ Pending(o) => o \in Active \/ InFinish(o)
  /\ ~InFinish(o) => receipt[o] = None /\ intent[o] = None

Stopped(o) ==
  /\ status[o] \in Final => status[o] \in Quiet
  /\ InFinish(o) => fin.outcome \in Quiet
  /\ \/ o \in stopping \/ InFinish(o) \/ status[o] \in Final
     \/ run[o].pc = "running" /\ run[o].stopped

CalmInv ==
  /\ mode \in {"serving", "draining", "closing"}
  /\ scan.at = "orphans" => scan.todo = {}
  /\ \A o \in Operations : Undisturbed(o) /\ (o \in asked => Stopped(o))

StopInv == Records /\ (Calm => CalmInv)

LEMMA Bookkeeping ==
  ASSUME Base, [Next]_vars
  PROVE  /\ faults' = faults \/ faults' = faults + 1
         /\ crashes' = crashes \/ crashes' = crashes + 1
         /\ asked' = asked \/ \E selected \in SUBSET Operations : asked' = asked \cup selected
         /\ admitted' = admitted
              \/ \E o \in Operations, i \in Copies : AdmitTarget(o, i) \/ RejectTarget(o, i)
<1>1. CASE FinishStep \/ Scan \/ ScanStep \/ Process
  BY <1>1, FinishEffect, ScanEffect, ShutdownEffect, DownEffect, StartEffect
     DEF Scan, Process, disk
<1>2. CASE Administration \/ UNCHANGED vars
  BY <1>2, AdminEffect DEF disk
<1>3. ASSUME NEW o \in Operations, NEW i \in Copies, Request(o, i)
      PROVE  /\ UNCHANGED <<asked, crashes>>
             /\ faults' = faults \/ faults' = faults + 1
             /\ admitted' = admitted \/ AdmitTarget(o, i) \/ RejectTarget(o, i)
  BY <1>3, RequestEffect
     DEF Request, Deliver, PreparationStopped, PreparationRefused, AdmitChat, disk
<1>4. ASSUME NEW o \in Operations, Execution(o)
      PROVE  UNCHANGED <<asked, crashes, admitted>> /\ (faults' = faults \/ faults' = faults + 1)
  <2>1. CASE StartRun(o)
    BY <2>1, StartRunEffect
  <2>2. CASE ~StartRun(o)
    BY <1>4, <2>2 DEF Execution, BeforeCall, CallReturns, CallFails, BudgetExhausted, SourceFinal,
                      SourceFails, SourceStopped, SourceClosed, CancelDelivered, disk
  <2> QED BY <2>1, <2>2
<1>5. CASE Stop
  <2>1. UNCHANGED <<faults, crashes, admitted>>
    BY <1>5 DEF Stop, RequestStop, StopVisit, disk
  <2>2. asked' = asked \/ \E selected \in SUBSET Operations : asked' = asked \cup selected
    BY <1>5 DEF Stop, RequestStop, StopVisit
  <2> QED BY <2>1, <2>2
<1> QED BY <1>1, <1>2, <1>3, <1>4, <1>5 DEF Next

LEMMA RecordsStep ==
  ASSUME Base, CoreInv, Records, [Next]_vars
  PROVE  Records'
<1>1. Allowed
  BY ServiceStep DEF Base, OutcomeInv, StatementInv, ServiceInv, Allowed
<1>2. /\ faults' = faults \/ faults' = faults + 1
      /\ crashes' = crashes \/ crashes' = crashes + 1
      /\ asked' = asked \/ \E selected \in SUBSET Operations : asked' = asked \cup selected
      /\ admitted' = admitted
           \/ \E o \in Operations, i \in Copies : AdmitTarget(o, i) \/ RejectTarget(o, i)
  BY Bookkeeping
<1>3. ASSUME NEW o \in admitted' PROVE Known(o)'
  <2>1. CASE o \in admitted
    <3>1. o \in Operations /\ Known(o)
      BY <2>1, Types DEF Records
    <3> QED BY <1>1, <3>1, KnownStays DEF Base, OutcomeInv, StatementInv
  <2>2. CASE o \notin admitted
    <3>1. o \in Operations /\ FindOrReserve(o)
      BY <1>2, <1>3, <2>2 DEF AdmitTarget, RejectTarget
    <3> QED BY <3>1, ReserveEffect DEF Known
  <2> QED BY <2>1, <2>2
<1> QED BY <1>2, <1>3 DEF Records

LEMMA CalmBefore ==
  ASSUME Base, Records, [Next]_vars, Calm'
  PROVE  Calm
BY Bookkeeping DEF Records, Calm

(* An operation that a step does not touch.                                 *)
LEMMA CalmSame ==
  ASSUME NEW p \in Operations, Undisturbed(p), p \in asked => Stopped(p),
         run'[p].pc = run[p].pc \/ (run[p].pc = "done" /\ run'[p].pc = "absent"),
         run'[p].pc = run[p].pc => run'[p].stopped = run[p].stopped,
         status'[p] = status[p], intent'[p] = intent[p], receipt'[p] = receipt[p],
         InFinish(p)' <=> InFinish(p), InFinish(p) => fin'.outcome = fin.outcome,
         p \in stopping => p \in stopping', p \in asked' => p \in asked
  PROVE  Undisturbed(p)' /\ (p \in asked' => Stopped(p)')
<1>1. Undisturbed(p)'
  BY DEF Undisturbed, Working, CanContinue, Pending, Active
<1>2. p \in asked' => Stopped(p)'
  BY DEF Stopped
<1> QED BY <1>1, <1>2

LEMMA CalmFinish ==
  ASSUME Base, CoreInv, Records, CalmInv, Calm, Calm', FinishStep
  PROVE  CalmInv'
<1>1. /\ fin \in [at : {"receipt", "finalize", "settle", "unlink"}, op : Operations, outcome : Final]
      /\ fin # Idle /\ receipt \in [Operations -> Final \cup {None}]
  BY FinishEffect, FinTypes, Types
<1>2. /\ UNCHANGED <<mode, scan, stopping, asked>>
      /\ \A p \in Operations \ {fin.op} :
           /\ run'[p] = run[p] /\ status'[p] = status[p] /\ intent'[p] = intent[p]
           /\ receipt'[p] = receipt[p]
      /\ \/ run' = run /\ fin' # Idle /\ fin'.op = fin.op /\ fin'.outcome = fin.outcome
         \/ Return
  BY FinishEffect
<1>3. ASSUME NEW p \in Operations \ {fin.op}
      PROVE  Undisturbed(p)' /\ (p \in asked' => Stopped(p)')
  <2>1. ~InFinish(p) /\ ~InFinish(p)'
    BY <1>1, <1>2 DEF InFinish, Return
  <2>2. Undisturbed(p) /\ (p \in asked => Stopped(p))
    BY DEF CalmInv
  <2>3. /\ run'[p] = run[p] /\ status'[p] = status[p] /\ intent'[p] = intent[p]
        /\ receipt'[p] = receipt[p]
    BY <1>2
  <2> QED BY <1>2, <2>1, <2>2, <2>3, CalmSame
<1>4. ~Fault
  BY DEF Fault, Calm, Records
<1>o. PICK o \in Operations : o = fin.op
  BY <1>1
<1>5. Undisturbed(o) /\ (o \in asked => Stopped(o)) /\ InFinish(o)
  BY <1>1, <1>o DEF CalmInv, InFinish
<1>6. CASE FinishReceipt \/ FinishIntent \/ FinishSettle
  <2>1. fin' # Idle /\ fin'.op = o /\ fin'.outcome = fin.outcome /\ run' = run
    BY <1>o, <1>1, <1>4, <1>6 DEF FinishReceipt, FinishIntent, FinishSettle, Idle
  <2>2. Undisturbed(o)'
    BY <1>o, <1>1, <2>1 DEF Undisturbed, Working, InFinish
  <2>3. status'[o] \in Final => status'[o] = status[o] \/ status'[o] = fin.outcome
    <3>1. CASE FinishReceipt
      BY <3>1 DEF FinishReceipt, ledgerVars
    <3>2. CASE FinishIntent
      BY <1>o, <1>1, <1>4, <3>2, IntentEffect DEF FinishIntent, Finalize, Final
    <3>3. CASE FinishSettle
      BY <1>o, <1>1, <1>4, <3>3, SettleEffect DEF FinishSettle
    <3> QED BY <1>6, <3>1, <3>2, <3>3
  <2>4. o \in asked' => Stopped(o)'
    BY <1>o, <1>2, <1>5, <2>1, <2>3 DEF Stopped, InFinish
  <2>5. \A p \in Operations : Undisturbed(p)' /\ (p \in asked' => Stopped(p)')
    BY <1>o, <1>3, <2>2, <2>4
  <2> QED BY <1>2, <2>5 DEF CalmInv
<1>7. CASE FinishUnlink
  <2>1. /\ fin.at = "unlink" /\ Return /\ receipt'[o] = None /\ UNCHANGED <<status, intent>>
    BY <1>o, <1>1, <1>7 DEF FinishUnlink, ledgerVars
  <2>2. status[o] \in Final /\ intent[o] = None
    BY <1>o, <2>1 DEF CoreInv, SettledInv
  <2>3. run'[o].pc \notin {"queued", "running"} /\ ~InFinish(o)'
    <3>1. scan # NoScan => run[o].pc \notin {"queued", "running"}
      BY <1>o, <1>1 DEF CoreInv, ScanInv, Active
    <3>2. fin' = Idle
      BY <2>1 DEF Return
    <3>3. \/ run'[o] = run[o] /\ (scan # NoScan \/ run[o].pc \notin {"queued", "running"})
          \/ run'[o].pc = "done"
      BY <1>o, <1>1, <2>1, ReturnEffect
    <3> QED BY <3>1, <3>2, <3>3 DEF InFinish
  <2>4. Undisturbed(o)'
    BY <2>1, <2>2, <2>3 DEF Undisturbed, Working, CanContinue, Pending, Final
  <2>5. o \in asked' => Stopped(o)'
    BY <2>1, <1>2, <1>5, <2>2, <2>3 DEF Stopped
  <2>6. \A p \in Operations : Undisturbed(p)' /\ (p \in asked' => Stopped(p)')
    BY <1>o, <1>3, <2>4, <2>5
  <2> QED BY <1>2, <2>6 DEF CalmInv
<1> QED BY <1>6, <1>7 DEF FinishStep

(* A scan finds nothing to do.                                              *)
LEMMA CalmScan ==
  ASSUME Base, CoreInv, Records, CalmInv, Calm, Calm', ScanStep
  PROVE  CalmInv'
<1>1. /\ scan # NoScan
      /\ scan \in [at : {"receipts", "unlink", "intents", "orphans"}, todo : SUBSET Operations,
                   current : Operations \cup {None}, active : SUBSET Operations,
                   held : SUBSET Operations]
      /\ scan.at # "orphans" => fin = Idle
  BY ScanEffect, ScanTypes
<1>2. scan.at # "orphans" => \A o \in Operations : receipt[o] = None /\ intent[o] = None
  BY <1>1 DEF CalmInv, Undisturbed, InFinish
<1>3. scan.at \in {"receipts", "unlink", "intents", "orphans"} /\ scan.todo = {}
  BY <1>1, <1>2 DEF Base, OutcomeInv, Control, CalmInv
<1>4. ScanUnlink \/ ScanToIntents \/ ScanToOrphans \/ ScanEnd
  BY <1>3 DEF ScanStep, ScanReceipt, ScanUnreadable, ScanIntent, ScanOrphan, ScanAborts
<1>5. UNCHANGED <<ledgerVars, run, fin, stopping, asked>> /\ mode' = mode
  BY <1>4 DEF ScanUnlink, ScanToIntents, ScanToOrphans, ScanEnd, disk, CalmInv
<1>6. \A p \in Operations : receipt'[p] = receipt[p]
  BY <1>2, <1>4, Types DEF ScanUnlink, ScanToIntents, ScanToOrphans, ScanEnd, disk
<1>7. \A p \in Operations : Undisturbed(p)' /\ (p \in asked' => Stopped(p)')
  BY <1>5, <1>6, CalmSame DEF CalmInv, InFinish, ledgerVars
<1>8. scan'.at = "orphans" => scan'.todo = {}
  <2>1. CASE ScanToOrphans
    <3>1. \A p \in Operations : Pending(p) => p \in scan.active
      BY <1>1, <2>1 DEF ScanToOrphans, CalmInv, Undisturbed, InFinish, CoreInv, ScanInv
    <3> QED BY <1>1, <2>1, <3>1 DEF ScanToOrphans
  <2>2. CASE ScanUnlink \/ ScanToIntents
    <3>1. scan'.at \in {"receipts", "intents"}
      BY <1>1, <2>2 DEF ScanUnlink, ScanToIntents
    <3> QED BY <3>1
  <2>3. CASE ScanEnd
    BY <2>3 DEF ScanEnd, NoScan
  <2> QED BY <1>4, <2>1, <2>2, <2>3
<1> QED BY <1>5, <1>7, <1>8 DEF CalmInv

LEMMA CalmRequest ==
  ASSUME Base, CoreInv, Records, CalmInv, NEW o \in Operations, NEW i \in Copies, Request(o, i)
  PROVE  CalmInv'
<1>1. /\ LoopFree /\ mode \in {"serving", "draining", "closing"}
      /\ UNCHANGED <<receipt, mode, scan, stopping, asked, intent>>
      /\ \A p \in Operations \ {o} : status'[p] = status[p]
      /\ status'[o] = status[o] \/ (status[o] = "none" /\ status'[o] = "reserved")
      /\ \A p \in Operations \ {o} :
           run'[p] = run[p] \/ (run[p].pc = "done" /\ run'[p] = NoRun)
  BY RequestEffect
<1>2. fin = Idle /\ stopping = {} /\ \A p \in Operations : ~InFinish(p)
  BY <1>1 DEF LoopFree, InFinish
<1>3. fin' = Idle \/ (fin' # Idle /\ fin'.op = o)
  BY <1>2 DEF Request, Deliver, PreparationStopped, PreparationRefused, AdmitChat, AdmitTarget,
              RejectTarget, Finish, Idle
<1>4. ASSUME NEW p \in Operations \ {o} PROVE Undisturbed(p)' /\ (p \in asked' => Stopped(p)')
  <2>1. Undisturbed(p) /\ (p \in asked => Stopped(p))
    BY DEF CalmInv
  <2>2. ~InFinish(p) /\ ~InFinish(p)'
    BY <1>2, <1>3 DEF InFinish
  <2>3. /\ run'[p].pc = run[p].pc \/ (run[p].pc = "done" /\ run'[p].pc = "absent")
        /\ run'[p].pc = run[p].pc => run'[p].stopped = run[p].stopped
    BY <1>1 DEF NoRun
  <2>4. status'[p] = status[p] /\ intent'[p] = intent[p] /\ receipt'[p] = receipt[p]
    BY <1>1
  <2> QED BY <1>1, <2>1, <2>2, <2>3, <2>4, CalmSame
<1>5. Undisturbed(o) /\ (o \in asked => Stopped(o)) /\ receipt[o] = None /\ intent[o] = None
  BY <1>2 DEF CalmInv, Undisturbed
<1>6. Undisturbed(o)' /\ (o \in asked' => Stopped(o)')
  <2>1. CASE run' = run /\ status' = status /\ fin' = Idle
    <3>1. ~InFinish(o)'
      BY <2>1 DEF InFinish
    <3> QED BY <1>1, <1>2, <1>5, <2>1, <3>1, CalmSame
  <2>2. CASE RejectTarget(o, i)
    <3>1. o \notin asked /\ fin' # Idle /\ fin'.op = o
      BY <2>2 DEF RejectTarget, Finish, Idle, CoreInv, TargetInv
    <3> QED BY <1>1, <3>1 DEF Undisturbed, Working, InFinish
  <2>3. CASE fin' = Idle /\ Submit(o) /\ (FindOrReserve(o) \/ (UNCHANGED ledgerVars /\ status[o] \in Final))
    <3>1. IF status[o] = "none" /\ FindOrReserve(o) THEN status'[o] = "reserved"
          ELSE status'[o] = status[o]
      BY <2>3, ReserveEffect DEF ledgerVars
    <3>2. ~InFinish(o)'
      BY <2>3 DEF InFinish
    <3>3. status[o] \in {"none", "reserved", "running", "processing"} \cup Final
      BY Types
    <3>4. CASE run[o].pc = "absent"
      <4>1. run'[o].pc = IF status[o] \in Final THEN "done" ELSE "queued"
        BY <2>3, <3>4, SubmitEffect
      <4>2. ~Pending(o)
        BY <1>2, <1>5, <3>4 DEF Undisturbed, Active
      <4>3. status[o] \in Final \/ (status[o] = "none" /\ status'[o] = "reserved")
        BY <2>3, <3>1, <3>3, <4>2 DEF Pending
      <4>4. CASE status[o] \in Final
        <5>1. status'[o] = status[o] /\ run'[o].pc = "done"
          BY <3>1, <4>1, <4>4 DEF Final
        <5>2. Undisturbed(o)'
          BY <1>1, <1>5, <4>4, <5>1 DEF Undisturbed, Working, Pending, Final
        <5>3. o \in asked' => Stopped(o)'
          BY <1>1, <1>5, <3>2, <4>4, <5>1 DEF Stopped
        <5> QED BY <5>2, <5>3
      <4>5. CASE status[o] = "none" /\ status'[o] = "reserved"
        <5>1. run'[o].pc = "queued"
          BY <4>1, <4>5 DEF Final
        <5>2. Undisturbed(o)'
          BY <1>1, <1>5, <4>5, <5>1 DEF Undisturbed, CanContinue, Active
        <5>3. o \notin asked
          BY <1>2, <1>5, <3>4, <4>5 DEF Stopped, Final
        <5> QED BY <1>1, <5>2, <5>3
      <4> QED BY <4>3, <4>4, <4>5
    <3>5. CASE run[o].pc # "absent"
      <4>1. run' = run
        BY <2>3, <3>5, SubmitEffect
      <4>2. status[o] # "none"
        BY <3>5 DEF Base, OutcomeInv, RunsEarned, Known
      <4> QED BY <1>1, <1>2, <1>5, <3>1, <3>2, <4>1, <4>2, CalmSame
    <3> QED BY <3>4, <3>5
  <2>4. CASE AdmitTarget(o, i) /\ (o \in admitted \/ status[o] \in Final)
    <3>1. status[o] # "none" /\ run' = run /\ FindOrReserve(o) /\ fin' = Idle
      BY <1>2, <2>4 DEF AdmitTarget, Records, Known, Final
    <3>2. status'[o] = status[o]
      BY <3>1, ReserveEffect
    <3>3. ~InFinish(o)'
      BY <3>1 DEF InFinish
    <3> QED BY <1>1, <1>2, <1>5, <3>1, <3>2, <3>3, CalmSame
  <2>5. \/ run' = run /\ status' = status /\ fin' = Idle
        \/ RejectTarget(o, i)
        \/ fin' = Idle /\ Submit(o) /\ (FindOrReserve(o) \/ (UNCHANGED ledgerVars /\ status[o] \in Final))
        \/ AdmitTarget(o, i) /\ (o \in admitted \/ status[o] \in Final)
    <3>1. CASE Deliver(o, i) \/ PreparationStopped(o, i) \/ PreparationRefused(o, i)
      BY <1>2, <3>1 DEF Deliver, PreparationStopped, PreparationRefused, ledgerVars
    <3>2. CASE AdmitChat(o, i)
      <4>1. UNCHANGED fin /\ Submit(o) /\ FindOrReserve(o)
        BY <3>2 DEF AdmitChat
      <4> QED BY <1>2, <4>1
    <3>3. CASE AdmitTarget(o, i)
      <4>1. /\ UNCHANGED fin /\ FindOrReserve(o)
            /\ o \in admitted \/ status[o] \in Final \/ Submit(o)
        BY <3>3 DEF AdmitTarget
      <4> QED BY <1>2, <3>3, <4>1
    <3> QED BY <3>1, <3>2, <3>3 DEF Request
  <2> QED BY <2>1, <2>2, <2>3, <2>4, <2>5
<1>7. \A p \in Operations : Undisturbed(p)' /\ (p \in asked' => Stopped(p)')
  BY <1>4, <1>6
<1> QED BY <1>1, <1>7 DEF CalmInv

LEMMA CalmExecution ==
  ASSUME Base, CoreInv, Records, CalmInv, Calm, Calm', NEW o \in Operations, Execution(o)
  PROVE  CalmInv'
<1>1. CASE \E c \in Calls : BeforeCall(o, c) \/ CallReturns(o, c) \/ CallFails(o, c)
  <2>1. UNCHANGED <<disk, mode, run, fin, scan, stopping, asked, status, intent>>
    BY <1>1, CallEffect
  <2>2. \A p \in Operations : Undisturbed(p)' /\ (p \in asked' => Stopped(p)')
    BY <2>1, CalmSame DEF CalmInv, InFinish, disk
  <2> QED BY <2>1, <2>2 DEF CalmInv
<1>2. CASE BudgetExhausted(o)
  <2>1. /\ UNCHANGED <<ledgerVars, disk, mode, fin, scan, stopping, asked>>
        /\ \A p \in Operations : run'[p].pc = run[p].pc /\ run'[p].stopped = run[p].stopped
    BY <1>2, BudgetEffect
  <2>2. \A p \in Operations : Undisturbed(p)' /\ (p \in asked' => Stopped(p)')
    BY <2>1, CalmSame DEF CalmInv, InFinish, disk, ledgerVars
  <2> QED BY <2>1, <2>2 DEF CalmInv
<1>3. CASE StartRun(o) \/ SourceFinal(o) \/ SourceFails(o) \/ SourceStopped(o) \/ SourceClosed(o)
           \/ CancelDelivered(o)
  <2>1. LoopFree /\ run[o].pc \in {"queued", "running"} /\ Shape(o)
    BY <1>3 DEF StartRun, SourceFinal, SourceFails, SourceStopped, SourceClosed, CancelDelivered,
                Executing, CoreInv, ModeInv
  <2>2. fin = Idle /\ scan = NoScan /\ stopping = {} /\ \A p \in Operations : ~InFinish(p)
    BY <2>1 DEF LoopFree, InFinish
  <2>3. /\ UNCHANGED <<mode, scan, stopping, asked, receipt>>
        /\ \A p \in Operations \ {o} :
             run'[p] = run[p] /\ status'[p] = status[p] /\ intent'[p] = intent[p]
    <3>1. CASE StartRun(o) \/ SourceClosed(o) \/ CancelDelivered(o)
      BY <3>1, StartRunEffect, ClosedEffect, CancelEffect DEF disk, ledgerVars
    <3>2. CASE SourceFinal(o) \/ SourceFails(o) \/ SourceStopped(o)
      BY <3>2, EndEffect, Types DEF SaveResult, SetIntent, disk
    <3> QED BY <1>3, <3>1, <3>2
  <2>4. CanContinue(o) /\ status[o] \notin Final /\ Undisturbed(o) /\ (o \in asked => Stopped(o))
        /\ status[o] \in {"reserved", "running"} /\ receipt[o] = None /\ intent[o] = None
    BY <2>1, <2>2 DEF CalmInv, Undisturbed, Working, CanContinue, Final
  <2>5. o \in asked => run[o].pc = "running" /\ run[o].stopped /\ run[o].cancelling
    BY <2>1, <2>2, <2>4 DEF Stopped, Shape, Working
  <2>6. fin' = Idle \/ (fin' # Idle /\ fin'.op = o)
    <3>1. CASE StartRun(o) \/ SourceClosed(o) \/ CancelDelivered(o)
      BY <2>2, <3>1, StartRunEffect, ClosedEffect, CancelEffect DEF Finish, Idle
    <3>2. CASE SourceFinal(o) \/ SourceFails(o) \/ SourceStopped(o)
      BY <3>2, EndEffect
    <3> QED BY <1>3, <3>1, <3>2
  <2>7. ASSUME NEW p \in Operations \ {o} PROVE Undisturbed(p)' /\ (p \in asked' => Stopped(p)')
    <3>1. ~InFinish(p) /\ ~InFinish(p)'
      BY <2>2, <2>6 DEF InFinish
    <3>2. Undisturbed(p) /\ (p \in asked => Stopped(p))
      BY DEF CalmInv
    <3>3. run'[p] = run[p] /\ status'[p] = status[p] /\ intent'[p] = intent[p] /\ receipt'[p] = receipt[p]
      BY <2>3
    <3> QED BY <2>3, <3>1, <3>2, <3>3, CalmSame
  <2>8. Undisturbed(o)' /\ (o \in asked' => Stopped(o)')
    <3>1. CASE StartRun(o)
      <4>1. /\ run'[o].pc = "running" /\ ~run[o].cancelling /\ intent' = intent /\ fin' = Idle
            /\ status'[o] \in {"reserved", "running"}
        BY <2>2, <2>4, <3>1, StartRunEffect DEF Calm, Records
      <4> QED BY <2>3, <2>4, <2>5, <4>1 DEF Undisturbed, CanContinue, Active
    <3>2. CASE SourceFinal(o) \/ SourceFails(o) \/ SourceStopped(o)
      <4>1. fin' # Idle /\ fin'.op = o /\ ~run[o].cancelling
        BY <3>2, EndEffect
      <4> QED BY <2>3, <2>5, <4>1 DEF Undisturbed, Working, InFinish
    <3>3. CASE SourceClosed(o)
      BY <2>4, <3>3 DEF SourceClosed
    <3>4. CASE CancelDelivered(o)
      <4>1. /\ UNCHANGED <<ledgerVars, receipt>>
            /\ \/ /\ run[o].pc = "running" /\ run' = run /\ fin' # Idle /\ fin'.op = o
                  /\ fin'.outcome \in {"stopped", "failed", "budget_exhausted"}
                  /\ run[o].stopped => fin'.outcome # "failed"
               \/ run[o].pc = "queued" /\ run'[o].pc = "dead" /\ UNCHANGED fin
        BY <3>4, CancelEffect DEF disk
      <4>2. CASE run[o].pc = "running"
        <5>1. Undisturbed(o)'
          BY <4>1, <4>2 DEF Undisturbed, Working, InFinish
        <5>2. o \in asked' => Stopped(o)'
          BY <2>3, <2>4, <2>5, <4>1, <4>2 DEF Stopped, InFinish, Quiet, ledgerVars
        <5> QED BY <5>1, <5>2
      <4>3. CASE run[o].pc = "queued"
        <5>1. run'[o].pc = "dead" /\ UNCHANGED <<intent, receipt>>
          BY <4>1, <4>3 DEF ledgerVars
        <5> QED BY <2>3, <2>4, <2>5, <4>3, <5>1 DEF Undisturbed, Working, Active
      <4> QED BY <4>1, <4>2, <4>3
    <3> QED BY <1>3, <3>1, <3>2, <3>3, <3>4
  <2> QED BY <2>3, <2>7, <2>8 DEF CalmInv
<1> QED BY <1>1, <1>2, <1>3 DEF Execution

LEMMA CalmStop ==
  ASSUME Base, CoreInv, Records, CalmInv, Stop
  PROVE  CalmInv'
<1>1. ASSUME NEW t, NEW selected \in SUBSET Operations, NEW targets, RequestStop(t, selected, targets)
      PROVE  CalmInv'
  <2>1. /\ LoopFree /\ mode = "serving" /\ selected \subseteq Active
        /\ stopping' = selected /\ asked' = asked \cup selected
        /\ UNCHANGED <<ledgerVars, receipt, mode, run, fin, scan>>
    BY <1>1, AskEffect
  <2>2. \A p \in Operations : ~InFinish(p) /\ stopping = {}
    BY <2>1 DEF LoopFree, InFinish
  <2>3. ASSUME NEW p \in Operations PROVE Undisturbed(p)' /\ (p \in asked' => Stopped(p)')
    <3>1. Undisturbed(p) /\ (p \in asked => Stopped(p)) /\ ~InFinish(p)'
      BY <2>1, <2>2 DEF CalmInv, InFinish
    <3>2. Undisturbed(p)'
      BY <2>1, <2>2, <3>1 DEF Undisturbed, Working, CanContinue, Pending, Active, ledgerVars
    <3>3. CASE p \in selected
      <4>1. Working(p)
        BY <2>1, <2>2, <3>3 DEF Working, Active, CoreInv, ModeInv, Shape
      <4>2. status[p] \notin Final
        BY <3>1, <4>1 DEF Undisturbed, CanContinue, Final
      <4> QED BY <2>1, <3>1, <3>2, <3>3, <4>2 DEF Stopped, ledgerVars
    <3>4. CASE p \notin selected
      BY <2>1, <2>2, <3>1, <3>2, <3>4 DEF Stopped, ledgerVars
    <3> QED BY <3>3, <3>4
  <2> QED BY <2>1, <2>3 DEF CalmInv
<1>2. ASSUME NEW o \in Operations, StopVisit(o)
      PROVE  CalmInv'
  <2>1. /\ o \in stopping /\ fin = Idle /\ stopping' = stopping \ {o}
        /\ UNCHANGED <<ledgerVars, disk, mode, scan, asked>>
        /\ \A p \in Operations \ {o} : run'[p] = run[p]
        /\ run'[o].pc = run[o].pc /\ run'[o].stopped
        /\ IF run[o].started THEN UNCHANGED fin
           ELSE fin' # Idle /\ fin'.op = o /\ fin'.outcome = "stopped"
    BY <1>2, VisitEffect
  <2>2. /\ o \in Active /\ run[o].pc # "dead" /\ Shape(o) /\ ~InFinish(o)
        /\ Undisturbed(o) /\ (o \in asked => Stopped(o))
    BY <2>1 DEF CoreInv, StoppingInv, ModeInv, CalmInv
  <2>3. ASSUME NEW p \in Operations \ {o} PROVE Undisturbed(p)' /\ (p \in asked' => Stopped(p)')
    <3>1. ~InFinish(p) /\ ~InFinish(p)'
      BY <2>1 DEF InFinish
    <3>2. Undisturbed(p) /\ (p \in asked => Stopped(p))
      BY DEF CalmInv
    <3>3. run'[p] = run[p] /\ status'[p] = status[p] /\ intent'[p] = intent[p] /\ receipt'[p] = receipt[p]
      BY <2>1 DEF ledgerVars, disk
    <3> QED BY <2>1, <3>1, <3>2, <3>3, CalmSame
  <2>4. CASE run[o].started
    <3>1. run[o].pc = "running" /\ ~InFinish(o)'
      BY <2>1, <2>2, <2>4 DEF Shape, Active, InFinish
    <3>2. Undisturbed(o)'
      BY <2>1, <2>2, <3>1 DEF Undisturbed, Working, CanContinue, Pending, Active, ledgerVars, disk
    <3>3. o \in asked' => Stopped(o)'
      BY <2>1, <2>2, <3>1 DEF Stopped, ledgerVars
    <3> QED BY <2>1, <2>3, <3>2, <3>3 DEF CalmInv
  <2>5. CASE ~run[o].started
    <3>1. fin' # Idle /\ fin'.op = o /\ fin'.outcome = "stopped"
      BY <2>1, <2>5
    <3>2. Undisturbed(o)'
      BY <3>1 DEF Undisturbed, Working, InFinish
    <3>3. o \in asked' => Stopped(o)'
      BY <2>1, <2>2, <3>1 DEF Stopped, InFinish, Quiet, ledgerVars
    <3> QED BY <2>1, <2>3, <3>2, <3>3 DEF CalmInv
  <2> QED BY <2>4, <2>5
<1> QED BY <1>1, <1>2 DEF Stop

LEMMA StopInvStep ==
  ASSUME Base, CoreInv, StopInv, [Next]_vars
  PROVE  StopInv'
<1>1. Records /\ Records'
  BY RecordsStep DEF StopInv
<1> SUFFICES ASSUME Calm' PROVE CalmInv'
  BY <1>1 DEF StopInv
<1>2. Calm /\ CalmInv
  BY <1>1, CalmBefore DEF StopInv
<1>3. CASE FinishStep \/ ScanStep \/ Stop
  BY <1>1, <1>2, <1>3, CalmFinish, CalmScan, CalmStop
<1>4. ASSUME NEW o \in Operations, NEW i \in Copies, Request(o, i) PROVE CalmInv'
  BY <1>1, <1>2, <1>4, CalmRequest
<1>5. ASSUME NEW o \in Operations, Execution(o) PROVE CalmInv'
  BY <1>1, <1>2, <1>5, CalmExecution
<1>6. CASE Scan \/ Shutdown \/ Close \/ Administration \/ UNCHANGED vars
  <2>1. /\ UNCHANGED <<receipt, fin, stopping, asked, status, intent>>
        /\ mode' \in {"serving", "draining", "closing"}
        /\ \A p \in Operations : run'[p].pc = run[p].pc /\ run'[p].stopped = run[p].stopped
    <3>1. CASE Shutdown \/ Close
      BY <3>1, ShutdownEffect DEF ledgerVars, disk
    <3>2. CASE Scan
      BY <1>2, <3>2 DEF Scan, CalmInv, ledgerVars, disk
    <3>3. CASE Administration \/ UNCHANGED vars
      BY <1>2, <3>3, AdminEffect DEF CalmInv, proc, disk
    <3> QED BY <1>6, <3>1, <3>2, <3>3
  <2>2. \A p \in Operations : Undisturbed(p)' /\ (p \in asked' => Stopped(p)')
    BY <1>2, <2>1, CalmSame DEF CalmInv, InFinish
  <2>3. scan'.at = "orphans" => scan'.todo = {}
    <3>1. scan' = scan \/ scan'.at = "receipts"
      BY <1>6, ShutdownEffect, AdminEffect DEF Scan, BeginScan, proc
    <3> QED BY <1>2, <3>1 DEF CalmInv
  <2> QED BY <2>1, <2>2, <2>3 DEF CalmInv
<1>7. ~(Exit \/ Crash \/ Start)
  <2>1. ~(Exit \/ Crash)
    BY <1>1, <1>2, DownEffect DEF Records, Calm
  <2>2. ~Start
    BY <1>2 DEF Start, CalmInv
  <2> QED BY <2>1, <2>2
<1> QED BY <1>3, <1>4, <1>5, <1>6, <1>7 DEF Next, Process

LEMMA StopInvInit == Init => StopInv
<1> SUFFICES ASSUME Init PROVE StopInv
  OBVIOUS
<1>1. /\ mode = "serving" /\ scan = NoScan /\ asked = {} /\ admitted = {} /\ faults = 0 /\ crashes = 0
      /\ \A o \in Operations :
           run[o] = NoRun /\ status[o] = "none" /\ receipt[o] = None /\ intent[o] = None
  BY DEF Init, LedgerInit
<1>2. \A o \in Operations : Undisturbed(o)
  BY <1>1 DEF Undisturbed, Working, Pending, NoRun
<1> QED BY <1>1, <1>2 DEF StopInv, Records, CalmInv, NoScan

LEMMA BaseHolds == Spec => [](Base /\ CoreInv)
<1>1. Init => OutcomeInv /\ Places /\ CoreInv
  BY OutcomeInit, CoreInit DEF Init, Places
<1>2. OutcomeInv /\ Places /\ CoreInv /\ [Next]_vars => (OutcomeInv /\ Places /\ CoreInv)'
  BY OutcomeStep, PlacesStep, CoreStep DEF Base
<1>3. OutcomeInv /\ Places /\ CoreInv => Base /\ CoreInv
  BY DEF Base
<1> QED BY <1>1, <1>2, <1>3, PTL DEF Spec

(* A stop wins: while nothing failed and no process ended, a run that the   *)
(* user asked to stop is charged and shown as stopped, or as out of budget. *)
THEOREM StoppedRunsStayStopped == Spec => []StopWins
<1>1. Base /\ CoreInv /\ StopInv /\ [Next]_vars => StopInv'
  BY StopInvStep
<1>2. StopInv => StopWins
  BY DEF StopInv, Records, CalmInv, StopWins, Calm, Stopped, Quiet
<1> QED BY <1>1, <1>2, StopInvInit, BaseHolds, PTL DEF Spec

-----------------------------------------------------------------------------
(* A run is alive.  The runs that are completed are forgotten when there are*)
(* more than KeepFinished of them.  A copy of a request that is still       *)
(* waiting to be admitted then finds its operation in the ledger, but no run*)
(* to share; where the operation is settled it is replayed, and where it is *)
(* not it is run again.  What follows is said of the operations to which    *)
(* the latter never happened, and nothing that happened to another one      *)
(* disturbs them.                                                           *)

Shared(o) ==
  /\ Loading(o) /\ Pending(o) => run[o].pc # "absent"
  /\ launched[o] \in {0, 1}
  /\ launched[o] = 1 => Known(o) /\ run[o].pc # "queued"

(* A target task finds out by itself that an earlier process left an outcome*)
Live(o) == Working(o) /\ (o \notin Targets \/ inflight[o] # {}) => CanContinue(o)

LiveInv ==
  /\ launched \in [Operations -> Nat]
  /\ \A o \in Operations \ (Targets \cup forgotten) : Shared(o)
  /\ \A o \in Operations \ forgotten : Live(o)

(* A row stays, and what is settled is not opened again.                    *)
LEMMA StaysOpen ==
  ASSUME Base, [Next]_vars, NEW p \in Operations, Known(p)
  PROVE  Known(p)' /\ (Pending(p)' => Pending(p))
<1>1. LedgerInv /\ Allowed
  BY ServiceStep DEF Base, OutcomeInv, StatementInv, ServiceInv, Allowed
<1>2. status[p] \in Final \/ Pending(p)
  BY Types DEF Known, Pending
<1>3. status[p] \in Final => status'[p] = status[p]
  BY <1>1, FrozenStep DEF LedgerInv, Allowed
<1> QED BY <1>1, <1>2, <1>3, KnownStays DEF Pending, Final

LEMMA SharedSame ==
  ASSUME NEW p \in Operations, Shared(p),
         status'[p] = status[p] \/ (Known(p)' /\ (Pending(p)' => Pending(p))),
         launched'[p] = launched[p], Loading(p)' => Loading(p),
         run'[p].pc = "queued" => run[p].pc = "queued",
         Loading(p)' /\ Pending(p)' /\ run'[p].pc = "absent" => run[p].pc = "absent"
  PROVE  Shared(p)'
BY DEF Shared, Known, Pending

LEMMA LiveSame ==
  ASSUME NEW p \in Operations, Live(p), Working(p)' => Working(p),
         inflight'[p] # {} => inflight[p] # {}, CanContinue(p) => CanContinue(p)'
  PROVE  Live(p)'
BY DEF Live

LEMMA LiveFinish ==
  ASSUME Base, CoreInv, LiveInv, forgotten \subseteq forgotten', FinishStep
  PROVE  LiveInv'
<1>1. /\ fin \in [at : {"receipt", "finalize", "settle", "unlink"}, op : Operations, outcome : Final]
      /\ fin # Idle
  BY FinishEffect, FinTypes
<1>2. /\ UNCHANGED <<mode, prep, inflight, scan, launched>>
      /\ \A p \in Operations \ {fin.op} :
           /\ run'[p] = run[p] /\ status'[p] = status[p] /\ intent'[p] = intent[p]
           /\ receipt'[p] = receipt[p]
      /\ \/ run' = run /\ fin' # Idle /\ fin'.op = fin.op
         \/ Return
  BY FinishEffect
<1>o. PICK o \in Operations : o = fin.op
  BY <1>1
<1>3. Known(o)' /\ (Pending(o)' => Pending(o))
  <2>1. Known(o)
    BY <1>o, <1>1 DEF Base, OutcomeInv, LoopEarned
  <2> QED BY <2>1, StaysOpen DEF Next
<1>4. /\ run'[o].pc \in {run[o].pc, "done"}
      /\ ~Working(o)'
  <2>1. CASE run' = run /\ fin' # Idle /\ fin'.op = fin.op
    BY <1>o, <2>1 DEF Working, InFinish
  <2>2. CASE Return
    <3>1. /\ \/ run'[o] = run[o] /\ (scan # NoScan \/ run[o].pc \notin {"queued", "running"})
             \/ run'[o].pc = "done"
      BY <1>o, <1>1, <2>2, ReturnEffect
    <3>2. scan # NoScan => run[o].pc \notin {"queued", "running"}
      BY <1>o, <1>1 DEF CoreInv, ScanInv, Active
    <3> QED BY <3>1, <3>2 DEF Working
  <2> QED BY <1>2, <2>1, <2>2
<1>5. ASSUME NEW p \in Operations \ (Targets \cup forgotten') PROVE Shared(p)'
  <2>1. Loading(p)' <=> Loading(p)
    BY <1>2 DEF Loading
  <2>2. Shared(p) /\ launched'[p] = launched[p]
    BY <1>2 DEF LiveInv
  <2>3. run'[p].pc \in {run[p].pc, "done"}
    BY <1>o, <1>2, <1>4
  <2>4. status'[p] = status[p] \/ (Known(p)' /\ (Pending(p)' => Pending(p)))
    BY <1>o, <1>2, <1>3
  <2> QED BY <2>1, <2>2, <2>3, <2>4, SharedSame
<1>6. ASSUME NEW p \in Operations \ forgotten' PROVE Live(p)'
  <2>1. CASE p = o
    BY <1>4, <2>1 DEF Live
  <2>2. CASE p # o
    <3>1. Working(p)' => Working(p)
      BY <1>o, <1>2, <2>2 DEF Working, InFinish
    <3>2. CanContinue(p) => CanContinue(p)'
      BY <1>o, <1>2, <2>2 DEF CanContinue
    <3>3. Live(p)
      BY DEF LiveInv
    <3> QED BY <1>2, <3>1, <3>2, <3>3, LiveSame
  <2> QED BY <2>1, <2>2
<1> QED BY <1>2, <1>5, <1>6 DEF LiveInv

LEMMA LiveScan ==
  ASSUME Base, CoreInv, LiveInv, forgotten \subseteq forgotten', ScanStep
  PROVE  LiveInv'
<1>1. scan # NoScan /\ UNCHANGED <<prep, inflight, launched>>
  BY ScanEffect
<1>2. \/ run' = run
      \/ /\ mode = "starting" /\ run' = [o \in Operations |-> NoRun]
         /\ UNCHANGED <<ledgerVars, receipt, fin>>
  BY ScanEffect
<1>3. ASSUME NEW p \in Operations
      PROVE  status'[p] = status[p] \/ (Known(p)' /\ (Pending(p)' => Pending(p)))
  <2>1. CASE Known(p)
    BY <2>1, StaysOpen DEF Next
  <2>2. CASE ~Known(p)
    <3>1. ASSUME NEW o \in Operations, NEW outcome \in Final, Settle(o, outcome)
          PROVE  status'[p] = status[p]
      <4>1. o # p
        BY <2>2, <3>1, SettleEffect DEF Known, Pending, Final
      <4> QED BY <3>1, <4>1, SettleEffect
    <3>2. UNCHANGED status \/ \E o \in Operations : ScanReceipt(o) \/ (ScanIntent(o) /\ Settle(o, intent[o]))
      BY DEF ScanStep, ScanUnreadable, ScanIntent, ScanOrphan, ScanUnlink, ScanAborts, ScanToIntents,
             ScanToOrphans, ScanEnd, ledgerVars
    <3>3. ASSUME NEW o \in Operations, ScanReceipt(o) PROVE Settle(o, receipt[o]) /\ receipt[o] \in Final
      BY <3>3, Types DEF ScanReceipt, Base, OutcomeInv, Control
    <3>4. ASSUME NEW o \in Operations, ScanIntent(o) PROVE intent[o] \in Final
      BY <3>4, Types DEF ScanIntent, Base, OutcomeInv, Control
    <3> QED BY <3>1, <3>2, <3>3, <3>4
  <2> QED BY <2>1, <2>2
<1>4. ASSUME NEW p \in Operations \ (Targets \cup forgotten') PROVE Shared(p)'
  <2>1. Loading(p)' <=> Loading(p)
    BY <1>1 DEF Loading
  <2>2. Shared(p) /\ launched'[p] = launched[p]
    BY <1>1 DEF LiveInv
  <2>3. mode = "starting" => ~Loading(p)
    BY DEF CoreInv, ModeInv, Loading
  <2>4. run'[p] = run[p] \/ (mode = "starting" /\ run'[p].pc = "absent")
    BY <1>2 DEF NoRun
  <2> QED BY <1>3, <2>1, <2>2, <2>3, <2>4, SharedSame
<1>5. ASSUME NEW p \in Operations \ forgotten' PROVE Live(p)'
  <2> SUFFICES ASSUME Working(p)', p \notin Targets \/ inflight[p] # {}
               PROVE  CanContinue(p)'
    BY <1>1 DEF Live
  <2>1. run' = run /\ run[p].pc \in {"queued", "running"}
    BY <1>2 DEF Working, NoRun
  <2>2. p \in scan.active /\ Working(p) /\ CanContinue(p)
    <3>1. p \in scan.active
      BY <1>1, <2>1 DEF CoreInv, ScanInv, Active
    <3>2. ~InFinish(p)
      BY <1>1, <3>1 DEF CoreInv, ScanInv, InFinish
    <3> QED BY <2>1, <3>1, <3>2 DEF Working, LiveInv, Live
  <2>3. receipt[p] = None /\ intent[p] = None
    BY <2>2 DEF CanContinue
  <2>4. \A o \in Operations : ScanReceipt(o) \/ ScanIntent(o) => o # p
    BY <2>3 DEF ScanReceipt, ScanIntent, Base, OutcomeInv, Control
  <2>5. status'[p] = status[p] /\ intent'[p] = intent[p]
    <3>1. UNCHANGED ledgerVars
          \/ \E o \in Operations : \/ ScanReceipt(o) /\ Settle(o, receipt[o]) /\ receipt[o] \in Final
                                   \/ ScanIntent(o) /\ Settle(o, intent[o]) /\ intent[o] \in Final
      <4>1. ASSUME NEW o \in Operations, ScanReceipt(o)
            PROVE  UNCHANGED ledgerVars \/ (Settle(o, receipt[o]) /\ receipt[o] \in Final)
        BY <1>1, <4>1, Types DEF ScanReceipt, Base, OutcomeInv, Control
      <4>2. ASSUME NEW o \in Operations, ScanIntent(o)
            PROVE  UNCHANGED ledgerVars \/ (Settle(o, intent[o]) /\ intent[o] \in Final)
        BY <1>1, <4>2, Types DEF ScanIntent, Base, OutcomeInv, Control
      <4>3. CASE \/ \E o \in Operations : ScanUnreadable(o) \/ ScanOrphan(o)
                 \/ ScanUnlink \/ ScanAborts \/ ScanToIntents \/ ScanToOrphans \/ ScanEnd
        BY <4>3 DEF ScanUnreadable, ScanOrphan, ScanUnlink, ScanAborts, ScanToIntents, ScanToOrphans, ScanEnd
      <4> QED BY <4>1, <4>2, <4>3 DEF ScanStep
    <3> QED BY <2>4, <3>1, SettleEffect DEF ledgerVars
  <2>6. receipt'[p] = None
    <3>1. receipt' = receipt \/ receipt' = [receipt EXCEPT ![scan.current] = None]
      BY DEF ScanStep, ScanReceipt, ScanUnreadable, ScanIntent, ScanOrphan, ScanUnlink, ScanAborts,
             ScanToIntents, ScanToOrphans, ScanEnd, disk
    <3> QED BY <2>3, <3>1, Types
  <2> QED BY <2>2, <2>5, <2>6 DEF CanContinue
<1> QED BY <1>1, <1>4, <1>5 DEF LiveInv

LEMMA LiveRequest ==
  ASSUME Base, CoreInv, LiveInv, NEW o \in Operations, NEW i \in Copies, Request(o, i), Forget
  PROVE  LiveInv'
<1>1. /\ LoopFree /\ mode \in {"serving", "draining", "closing"}
      /\ UNCHANGED <<receipt, mode, inflight, launched, intent>>
      /\ \A p \in Operations \ {o} : status'[p] = status[p]
      /\ status'[o] = status[o] \/ (status[o] = "none" /\ status'[o] = "reserved")
      /\ \A p \in Operations, j \in Copies : prep'[p][j] = "loading" =>
           prep[p][j] = "loading" \/ (p = o /\ status'[o] = "none")
      /\ \A p \in Operations \ {o} :
           run'[p] = run[p] \/ (run[p].pc = "done" /\ run'[p] = NoRun)
  BY RequestEffect
<1>f. forgotten \subseteq forgotten'
  BY DEF Forget
<1>2. fin = Idle /\ \A p \in Operations : ~InFinish(p)
  BY <1>1 DEF LoopFree, InFinish
<1>3. ASSUME NEW p \in Operations \ {o}
      PROVE  /\ p \notin forgotten' => Live(p)'
             /\ p \notin Targets \cup forgotten' => Shared(p)'
  <2>1. /\ p \notin forgotten' => Live(p)
        /\ p \notin Targets \cup forgotten' => Shared(p)
    BY <1>f DEF LiveInv
  <2>2. Loading(p)' => Loading(p)
    BY <1>1 DEF Loading
  <2>3. run'[p] = run[p] \/ (run[p].pc = "done" /\ run'[p].pc = "absent")
    BY <1>1 DEF NoRun
  <2>4. ASSUME p \notin forgotten' PROVE Live(p)'
    <3>1. Working(p)' => Working(p)
      BY <1>2, <2>3 DEF Working
    <3>2. CanContinue(p) => CanContinue(p)'
      BY <1>1 DEF CanContinue
    <3> QED BY <1>1, <2>1, <2>4, <3>1, <3>2, LiveSame
  <2>5. ASSUME p \notin Targets \cup forgotten' PROVE Shared(p)'
    <3>1. Loading(p)' /\ Pending(p)' /\ run'[p].pc = "absent" => run[p].pc = "absent"
      <4>1. ~(run[p].pc = "done" /\ run'[p].pc = "absent" /\ Pending(p) /\ Loading(p))
        BY <2>5 DEF Forget
      <4>2. Pending(p)' => Pending(p)
        BY <1>1 DEF Pending
      <4> QED BY <2>2, <2>3, <4>1, <4>2
    <3> QED BY <1>1, <2>1, <2>2, <2>3, <2>5, <3>1, SharedSame
  <2> QED BY <2>4, <2>5
<1>4. status[o] \in Final => status'[o] = status[o]
  BY <1>1 DEF Final
<1>5. ASSUME o \in Targets \ forgotten' PROVE Live(o)'
  <2>1. CASE run' = run
    <3>1. status[o] = "none" => run[o].pc = "absent"
      BY DEF Base, OutcomeInv, RunsEarned, Known
    <3>2. Working(o)' => Working(o)
      BY <1>2, <2>1 DEF Working
    <3>3. Working(o) /\ CanContinue(o) => CanContinue(o)'
      BY <1>1, <3>1 DEF CanContinue, Working
    <3> QED BY <1>1, <1>f, <1>5, <3>2, <3>3 DEF LiveInv, Live
  <2>2. CASE run' # run
    <3>1. o \notin admitted
      BY <1>5, <2>2 DEF Request, Deliver, PreparationStopped, PreparationRefused, AdmitChat, AdmitTarget,
                 RejectTarget
    <3> QED BY <1>1, <1>5, <3>1 DEF Live, CoreInv, TargetInv, Unused
  <2> QED BY <2>1, <2>2
<1>6. ASSUME o \notin Targets \cup forgotten' PROVE Live(o)' /\ Shared(o)'
  <2>1. Live(o) /\ Shared(o)
    BY <1>f, <1>6 DEF LiveInv
  <2>2. Known(o) /\ Loading(o)' => Loading(o)
    BY <1>1 DEF Loading, Known
  <2>3. run[o].pc # "absent" => Known(o)
    BY DEF Base, OutcomeInv, RunsEarned
  <2>4. CASE UNCHANGED <<run, status>>
    <3>1. Live(o)'
      BY <1>1, <1>2, <2>1, <2>4 DEF Live, Working, CanContinue
    <3>2. Shared(o)'
      BY <1>1, <2>1, <2>2, <2>4 DEF Shared, Known, Pending
    <3> QED BY <3>1, <3>2
  <2>5. CASE Submit(o) /\ status[o] \in Final
    <3>1. run'[o].pc = run[o].pc \/ (run[o].pc = "absent" /\ run'[o].pc = "done")
      BY <2>5, SubmitEffect
    <3>2. Live(o)'
      BY <1>1, <1>2, <1>4, <2>1, <2>5, <3>1 DEF Live, Working, CanContinue
    <3>3. Shared(o)'
      BY <1>1, <1>4, <2>1, <2>2, <2>5, <3>1 DEF Shared, Known, Pending, Final
    <3> QED BY <3>2, <3>3
  <2>6. CASE AdmitChat(o, i)
    <3>1. Loading(o) /\ Submit(o) /\ FindOrReserve(o)
      BY <2>6 DEF AdmitChat, Loading
    <3>2. Known(o)'
      BY <3>1, ReserveEffect DEF Known
    <3>3. CASE Pending(o)
      <4>1. run' = run /\ status'[o] = status[o]
        BY <1>1, <2>1, <3>1, <3>3, SubmitEffect DEF Shared, Pending
      <4>2. Live(o)'
        BY <1>1, <1>2, <2>1, <4>1 DEF Live, Working, CanContinue
      <4>3. Shared(o)'
        BY <1>1, <2>1, <2>2, <3>3, <4>1 DEF Shared, Known, Pending
      <4> QED BY <4>2, <4>3
    <3>4. CASE ~Known(o)
      <4>1. status[o] = "none" /\ run[o].pc = "absent" /\ launched[o] = 0
        BY <2>1, <2>3, <3>4 DEF Known, Shared
      <4>2. run'[o].pc = "queued" /\ status'[o] = "reserved"
        BY <3>1, <4>1, SubmitEffect, ReserveEffect DEF Final
      <4>3. receipt[o] = None /\ intent[o] = None
        BY <3>4 DEF Base, OutcomeInv, RowsEarned
      <4>4. Live(o)'
        BY <1>1, <4>2, <4>3 DEF Live, CanContinue
      <4>5. Shared(o)'
        BY <1>1, <3>2, <4>1, <4>2 DEF Shared
      <4> QED BY <4>4, <4>5
    <3>5. status[o] \in Final \/ Pending(o) \/ ~Known(o)
      BY Types DEF Pending, Known
    <3> QED BY <2>5, <3>1, <3>3, <3>4, <3>5
  <2> QED BY <1>6, <2>4, <2>5, <2>6
          DEF Request, Deliver, PreparationStopped, PreparationRefused, AdmitTarget, RejectTarget,
              ledgerVars
<1>7. launched' \in [Operations -> Nat]
  BY <1>1 DEF LiveInv
<1> QED BY <1>3, <1>5, <1>6, <1>7, Types DEF LiveInv

LEMMA LiveExecution ==
  ASSUME Base, CoreInv, LiveInv, forgotten \subseteq forgotten', NEW o \in Operations, Execution(o)
  PROVE  LiveInv'
<1>1. CASE \E c \in Calls : BeforeCall(o, c) \/ CallReturns(o, c) \/ CallFails(o, c)
  <2>1. /\ UNCHANGED <<disk, prep, run, fin, launched, status, intent>>
        /\ \A p \in Operations \ {o} : inflight'[p] = inflight[p]
        /\ inflight'[o] \subseteq inflight[o] \/ Gate(o)
    BY <1>1, CallEffect
  <2>2. ASSUME NEW p \in Operations \ (Targets \cup forgotten') PROVE Shared(p)'
    BY <2>1, SharedSame DEF LiveInv, Loading
  <2>3. ASSUME NEW p \in Operations \ forgotten' PROVE Live(p)'
    <3>1. CanContinue(p) => CanContinue(p)'
      BY <2>1 DEF CanContinue, disk
    <3>2. CASE p = o /\ Gate(o)
      BY <3>1, <3>2 DEF Gate, Live
    <3>3. CASE ~(p = o /\ Gate(o))
      BY <2>1, <3>1, <3>3, LiveSame DEF LiveInv, Working, InFinish
    <3> QED BY <3>2, <3>3
  <2> QED BY <2>1, <2>2, <2>3 DEF LiveInv
<1>2. CASE BudgetExhausted(o)
  <2>1. /\ UNCHANGED <<ledgerVars, disk, prep, inflight, fin, launched>>
        /\ \A p \in Operations : run'[p].pc = run[p].pc
    BY <1>2, BudgetEffect
  <2>2. ASSUME NEW p \in Operations \ (Targets \cup forgotten') PROVE Shared(p)'
    BY <2>1, SharedSame DEF LiveInv, Loading, ledgerVars
  <2>3. ASSUME NEW p \in Operations \ forgotten' PROVE Live(p)'
    <3>1. (Working(p)' => Working(p)) /\ (CanContinue(p) => CanContinue(p)')
      BY <2>1 DEF CanContinue, Working, InFinish, disk, ledgerVars
    <3> QED BY <2>1, <3>1, LiveSame DEF LiveInv
  <2> QED BY <2>1, <2>2, <2>3 DEF LiveInv
<1>3. CASE StartRun(o)
  <2>1. /\ LoopFree /\ run[o].pc = "queued" /\ run'[o].pc = "running"
        /\ \A p \in Operations \ {o} : run'[p] = run[p] /\ status'[p] = status[p]
        /\ UNCHANGED <<receipt, prep, inflight, intent>>
        /\ status'[o] = status[o] \/ (status[o] = "reserved" /\ status'[o] = "running")
        /\ launched' = [launched EXCEPT ![o] = @ + 1] \/ UNCHANGED launched
    BY <1>3, StartRunEffect
  <2>2. Known(o) /\ Known(o)' /\ (Pending(o)' => Pending(o))
    BY <2>1 DEF Base, OutcomeInv, RunsEarned, Known, Pending
  <2>3. launched' \in [Operations -> Nat] /\ \A p \in Operations \ {o} : launched'[p] = launched[p]
    BY <2>1 DEF LiveInv
  <2>4. ASSUME NEW p \in Operations \ (Targets \cup forgotten') PROVE Shared(p)'
    <3>1. Shared(p) /\ (Loading(p)' <=> Loading(p))
      BY <2>1 DEF LiveInv, Loading
    <3>2. CASE p # o
      BY <2>1, <2>3, <3>1, <3>2, SharedSame
    <3>3. CASE p = o
      <4>1. launched[o] = 0
        BY <2>1, <3>1, <3>3 DEF Shared
      <4>2. launched'[o] \in {0, 1}
        BY <2>1, <4>1 DEF LiveInv
      <4> QED BY <2>1, <2>2, <3>3, <4>2 DEF Shared
    <3> QED BY <3>2, <3>3
  <2>5. ASSUME NEW p \in Operations \ forgotten' PROVE Live(p)'
    <3>1. Working(p)' => Working(p)
      BY <2>1 DEF Working, InFinish, LoopFree
    <3>2. CanContinue(p) => CanContinue(p)'
      BY <2>1 DEF CanContinue
    <3> QED BY <2>1, <3>1, <3>2, LiveSame DEF LiveInv
  <2> QED BY <2>3, <2>4, <2>5 DEF LiveInv
<1>4. CASE SourceFinal(o) \/ SourceFails(o) \/ SourceStopped(o) \/ SourceClosed(o) \/ CancelDelivered(o)
  <2>1. /\ LoopFree /\ run[o].pc \in {"queued", "running"}
        /\ UNCHANGED <<receipt, prep, inflight, launched>>
    BY <1>4, EndEffect, ClosedEffect, CancelEffect DEF disk
  <2>2. /\ \A p \in Operations \ {o} :
             run'[p] = run[p] /\ status'[p] = status[p] /\ intent'[p] = intent[p]
        /\ run'[o].pc \in {run[o].pc, "done", "dead"}
        /\ ~Working(o)'
    <3>1. CASE SourceFinal(o) \/ SourceFails(o) \/ SourceStopped(o)
      <4>1. /\ UNCHANGED run /\ fin' # Idle /\ fin'.op = o
            /\ UNCHANGED <<status, intent>> \/ SaveResult(o)
        BY <3>1, EndEffect
      <4>2. SaveResult(o) => SetIntent(o, "completed") /\ "completed" \in Final
        BY DEF SaveResult, Final
      <4> QED BY <4>1, <4>2, IntentEffect DEF Working, InFinish
    <3>2. CASE SourceClosed(o)
      BY <3>2, ClosedEffect DEF Working, ledgerVars
    <3>3. CASE CancelDelivered(o)
      BY <3>3, CancelEffect DEF Working, InFinish, ledgerVars
    <3> QED BY <1>4, <3>1, <3>2, <3>3
  <2>3. Known(o)' /\ (Pending(o)' => Pending(o))
    <3>1. Known(o)
      BY <2>1 DEF Base, OutcomeInv, RunsEarned
    <3> QED BY <1>4, <3>1, StaysOpen DEF Next, Execution
  <2>4. ASSUME NEW p \in Operations \ (Targets \cup forgotten') PROVE Shared(p)'
    <3>1. Shared(p) /\ (Loading(p)' <=> Loading(p))
      BY <2>1 DEF LiveInv, Loading
    <3>2. run'[p].pc \in {run[p].pc, "done", "dead"}
      BY <2>2
    <3>3. status'[p] = status[p] \/ (Known(p)' /\ (Pending(p)' => Pending(p)))
      BY <2>2, <2>3
    <3> QED BY <2>1, <3>1, <3>2, <3>3, SharedSame
  <2>5. ASSUME NEW p \in Operations \ forgotten' PROVE Live(p)'
    <3>1. CASE p = o
      BY <2>2, <3>1 DEF Live
    <3>2. CASE p # o
      <4>1. Working(p)' => Working(p)
        BY <2>1, <2>2, <3>2 DEF Working, InFinish, LoopFree
      <4>2. CanContinue(p) => CanContinue(p)'
        BY <2>1, <2>2, <3>2 DEF CanContinue
      <4> QED BY <2>1, <4>1, <4>2, LiveSame DEF LiveInv
    <3> QED BY <3>1, <3>2
  <2> QED BY <2>1, <2>4, <2>5 DEF LiveInv
<1> QED BY <1>1, <1>2, <1>3, <1>4 DEF Execution

LEMMA LiveRest ==
  ASSUME Base, CoreInv, LiveInv, forgotten \subseteq forgotten',
         Stop \/ Process \/ Scan \/ Administration \/ UNCHANGED vars
  PROVE  LiveInv'
<1>1. /\ UNCHANGED <<launched, status, receipt, intent>>
      /\ \A p \in Operations : inflight'[p] # {} => inflight[p] # {}
      /\ \A p \in Operations, j \in Copies : prep'[p][j] = "loading" => prep[p][j] = "loading"
  <2>1. CASE Stop
    <3>1. ASSUME NEW t, NEW selected \in SUBSET Operations, NEW targets,
                 RequestStop(t, selected, targets)
          PROVE  /\ UNCHANGED <<launched, status, receipt, intent, inflight>>
                 /\ \A p \in Operations, j \in Copies : prep'[p][j] = "loading" => prep[p][j] = "loading"
      BY <3>1, AskEffect DEF ledgerVars
    <3>2. ASSUME NEW o \in Operations, StopVisit(o)
          PROVE  UNCHANGED <<launched, status, receipt, intent, inflight, prep>>
      BY <3>2, VisitEffect DEF ledgerVars, disk
    <3> QED BY <2>1, <3>1, <3>2 DEF Stop
  <2>2. CASE Shutdown \/ Close
    BY <2>2, ShutdownEffect DEF ledgerVars, disk
  <2>3. CASE Exit \/ Crash
    BY <2>3, DownEffect DEF ledgerVars, disk
  <2>4. CASE Start
    BY <2>4, StartEffect DEF ledgerVars, disk
  <2>5. CASE Scan
    BY <2>5 DEF Scan, ledgerVars, disk
  <2>6. CASE Administration \/ UNCHANGED vars
    BY <2>6, AdminEffect DEF proc, disk
  <2> QED BY <1>1, <2>1, <2>2, <2>3, <2>4, <2>5, <2>6 DEF Process
<1>2. ASSUME NEW p \in Operations
      PROVE  \/ run'[p].pc = run[p].pc
                /\ (InFinish(p) /\ run[p].pc \in {"queued", "running"} => InFinish(p)')
             \/ run'[p].pc = "absent" /\ ~Loading(p)'
             \/ p \in Targets /\ run'[p].pc = "queued" /\ inflight'[p] = {}
  <2>1. CASE Stop
    <3>1. ASSUME NEW t, NEW selected \in SUBSET Operations, NEW targets,
                 RequestStop(t, selected, targets)
          PROVE  run'[p].pc = run[p].pc /\ (InFinish(p) => InFinish(p)')
      BY <3>1, AskEffect DEF InFinish
    <3>2. ASSUME NEW o \in Operations, StopVisit(o)
          PROVE  run'[p].pc = run[p].pc /\ (InFinish(p) => InFinish(p)')
      BY <3>2, VisitEffect DEF InFinish
    <3> QED BY <2>1, <3>1, <3>2 DEF Stop
  <2>2. CASE Shutdown \/ Close
    BY <2>2, ShutdownEffect DEF InFinish
  <2>3. CASE Exit \/ Crash
    BY <2>3, DownEffect DEF Loading, NoRun
  <2>4. CASE Start
    <3>1. mode = "down" /\ UNCHANGED <<prep, inflight>>
      BY <2>4, StartEffect
    <3>2. ~Loading(p)' /\ inflight'[p] = {}
      BY <3>1 DEF CoreInv, ModeInv, Loading
    <3>3. run'[p] = NoRun \/ (p \in admitted /\ run'[p] = [NoRun EXCEPT !.pc = "queued"])
      BY <2>4, StartEffect
    <3>4. run'[p].pc = "absent" \/ (p \in Targets /\ run'[p].pc = "queued")
      BY <3>3, Types DEF NoRun
    <3> QED BY <3>2, <3>4
  <2>5. CASE Scan
    BY <2>5 DEF Scan, InFinish
  <2>6. CASE Administration \/ UNCHANGED vars
    BY <2>6, AdminEffect DEF proc, InFinish
  <2> QED BY <1>1, <2>1, <2>2, <2>3, <2>4, <2>5, <2>6 DEF Process
<1>3. ASSUME NEW p \in Operations \ (Targets \cup forgotten') PROVE Shared(p)'
  <2>1. Shared(p) /\ (Loading(p)' => Loading(p))
    BY <1>1 DEF LiveInv, Loading
  <2>2. (run'[p].pc = "queued" => run[p].pc = "queued") /\ (run'[p].pc = "absent" /\ Loading(p)' => run[p].pc = "absent")
    BY <1>2
  <2> QED BY <1>1, <2>1, <2>2, SharedSame
<1>4. ASSUME NEW p \in Operations \ forgotten' PROVE Live(p)'
  <2>1. CASE run'[p].pc = run[p].pc
    <3>1. Working(p)' => Working(p) \/ (p \in Targets /\ inflight'[p] = {})
      BY <1>2, <2>1 DEF Working
    <3>2. CanContinue(p) => CanContinue(p)'
      BY <1>1 DEF CanContinue
    <3> QED BY <1>1, <3>1, <3>2, LiveSame DEF LiveInv, Live
  <2>2. CASE run'[p].pc # run[p].pc
    BY <1>2, <2>2 DEF Live, Working
  <2> QED BY <2>1, <2>2
<1> QED BY <1>1, <1>3, <1>4 DEF LiveInv

LEMMA LiveInvStep ==
  ASSUME Base, CoreInv, LiveInv, [Next]_vars
  PROVE  LiveInv'
<1>f. forgotten \subseteq forgotten'
  BY ForgetStep DEF Forget
<1>1. CASE Stop \/ Process \/ Scan \/ Administration \/ UNCHANGED vars
  BY <1>f, <1>1, LiveRest
<1>2. CASE FinishStep \/ ScanStep
  BY <1>f, <1>2, LiveFinish, LiveScan
<1>3. ASSUME NEW o \in Operations, NEW i \in Copies, Request(o, i) PROVE LiveInv'
  <2>1. Forget
    BY <1>3 DEF Request, Deliver, PreparationStopped, PreparationRefused, AdmitChat, AdmitTarget,
                RejectTarget, Forget
  <2> QED BY <1>3, <2>1, LiveRequest
<1>4. ASSUME NEW o \in Operations, Execution(o) PROVE LiveInv'
  BY <1>f, <1>4, LiveExecution
<1> QED BY <1>1, <1>2, <1>3, <1>4 DEF Next

LEMMA LiveInvInit == Init => LiveInv
<1> SUFFICES ASSUME Init PROVE LiveInv
  OBVIOUS
<1>1. launched = [o \in Operations |-> 0]
      /\ \A o \in Operations : run[o] = NoRun /\ status[o] = "none"
  BY DEF Init, LedgerInit
<1>2. \A o \in Operations : Shared(o) /\ Live(o)
  BY <1>1 DEF Shared, Live, Working, Known, Pending, NoRun
<1> QED BY <1>1, <1>2 DEF LiveInv

LEMMA LiveHolds == Spec => []LiveInv
<1>1. Base /\ CoreInv /\ LiveInv /\ [Next]_vars => LiveInv'
  BY LiveInvStep
<1> QED BY <1>1, LiveInvInit, BaseHolds, PTL DEF Spec

(* However many copies of a chat request arrive, and whenever they do, its  *)
(* source is started at most once, by whichever process, unless its run was *)
(* forgotten before it was settled.                                         *)
THEOREM SourceStartedOnce == Spec => []StartedOnce
<1>1. LiveInv => StartedOnce
  BY DEF LiveInv, Shared, StartedOnce
<1> QED BY <1>1, LiveHolds, PTL

(* While a run waits for a model, nobody else settles its operation (unless *)
(* an earlier run of it was forgotten too soon, and left an outcome).       *)
THEOREM RunsKeepTheirOperation == Spec => []LiveRunsStayOpen
<1>1. LiveInv => LiveRunsStayOpen
  BY DEF LiveInv, Live, Working, InFinish, CanContinue, Pending, LiveRunsStayOpen
<1> QED BY <1>1, LiveHolds, PTL

(* Nothing is evicted where every run can be kept.                          *)
LEMMA NoneEvicted ==
  ASSUME KeepFinished >= Cardinality(Operations), NEW o \in Operations, NEW runs,
         NEW next \in Evicted(o, runs)
  PROVE  \A p \in Operations : next[p] = runs[p]
<1> DEFINE done == {p \in Operations : runs[p].pc = "done"}
<1>1. PICK gone \in SUBSET (done \ {o}) :
        /\ Cardinality(done \ gone) = Least(KeepFinished, Cardinality(done))
        /\ next = [p \in Operations |-> IF p \in gone THEN NoRun ELSE runs[p]]
  BY DEF Evicted
<1>2. IsFiniteSet(done) /\ Cardinality(done) <= Cardinality(Operations)
      /\ Cardinality(done) \in Nat /\ Cardinality(Operations) \in Nat
  BY OperationsAssumption, FS_Subset, FS_CardinalityType
<1>3. Cardinality(done \ gone) = Cardinality(done)
  BY <1>1, <1>2, BoundsAssumption DEF Least
<1>4. done \ gone = done
  BY <1>2, <1>3, FS_Subset
<1> QED BY <1>1, <1>4

(* Where there is room for every run, none is forgotten: with no more       *)
(* operations than finished runs are kept, what is said of the operations   *)
(* that were not forgotten holds of all of them.                            *)
THEOREM RoomForEveryRun ==
  ASSUME KeepFinished >= Cardinality(Operations)
  PROVE  Spec => [](forgotten = {})
<1>1. Base /\ forgotten = {} /\ [Next]_vars => (forgotten = {})'
  <2> SUFFICES ASSUME Base, forgotten = {}, [Next]_vars PROVE forgotten' = {}
    OBVIOUS
  <2> SUFFICES ASSUME Forget, NEW p \in Operations, NEW i \in Copies, Request(p, i)
               PROVE  \A o \in Operations : run[o].pc = "done" => run'[o].pc = "done"
    BY ForgetStep DEF Forget
  <2> SUFFICES ASSUME NEW o \in Operations, run[o].pc = "done" PROVE run'[o].pc = "done"
    OBVIOUS
  <2>1. UNCHANGED run \/ Submit(p)
    BY DEF Request, Deliver, PreparationStopped, PreparationRefused, AdmitChat, AdmitTarget, RejectTarget
  <2>2. CASE Submit(p) /\ run[p].pc = "absent"
    <3> DEFINE runs == [run EXCEPT ![p].pc = IF status[p] \in Final THEN "done" ELSE "queued"]
    <3>1. run' \in Evicted(p, runs)
      BY <2>2 DEF Submit
    <3> HIDE DEF runs
    <3>2. run'[o] = runs[o]
      BY <3>1, NoneEvicted
    <3>3. runs[o] = run[o]
      BY <2>2, Types DEF runs
    <3> QED BY <3>2, <3>3
  <2>3. CASE Submit(p) /\ run[p].pc # "absent"
    BY <2>3 DEF Submit
  <2> QED BY <2>1, <2>2, <2>3
<1>2. Init => forgotten = {}
  BY DEF Init
<1> QED BY <1>1, <1>2, BaseHolds, PTL DEF Spec

-----------------------------------------------------------------------------
(* A stored result is charged.  It is stored together with the intent that  *)
(* pays for it, by the run itself; from then on every outcome on its way to *)
(* the operation is a paid one, and no scan and no new run fails it.        *)

Good == {"completed", "budget_exhausted"}

SavedRow(o) ==
  /\ run[o].pc \in {"absent", "done"} \/ (run[o].pc = "running" /\ InFinish(o))
  /\ status[o] \in Good \/ (status[o] = "processing" /\ intent[o] \in Good)
  /\ receipt[o] \in Good \cup {None}
  /\ InFinish(o) => fin.outcome \in Good
  /\ scan.at = "intents" /\ Pending(o) => o \in scan.held
  /\ scan.at = "orphans" => o \notin scan.todo

SavedInv == \A o \in saved \ forgotten : SavedRow(o)

LEMMA SavedSame ==
  ASSUME NEW p \in Operations, SavedRow(p),
         run'[p].pc \in {run[p].pc, "absent", "done"},
         status'[p] = status[p], intent'[p] = intent[p], receipt'[p] \in {receipt[p], None},
         InFinish(p)' <=> InFinish(p), InFinish(p) => fin'.outcome = fin.outcome,
         scan' = scan \/ scan'.at \notin {"intents", "orphans"}
  PROVE  SavedRow(p)'
<1>1. scan'.at = "intents" /\ Pending(p)' => p \in scan'.held
  BY DEF SavedRow, Pending
<1> QED BY <1>1 DEF SavedRow

LEMMA SavedFinish ==
  ASSUME Base, CoreInv, SavedInv, forgotten \subseteq forgotten', FinishStep
  PROVE  SavedInv'
<1>1. /\ fin \in [at : {"receipt", "finalize", "settle", "unlink"}, op : Operations, outcome : Final]
      /\ fin # Idle /\ receipt \in [Operations -> Final \cup {None}] /\ saved \subseteq Operations
  BY FinishEffect, FinTypes, Types
<1>2. /\ UNCHANGED <<scan, saved>>
      /\ \A p \in Operations \ {fin.op} :
           /\ run'[p] = run[p] /\ status'[p] = status[p] /\ intent'[p] = intent[p]
           /\ receipt'[p] = receipt[p]
      /\ \/ run' = run /\ fin' # Idle /\ fin'.op = fin.op /\ fin'.outcome = fin.outcome
         \/ Return
  BY FinishEffect
<1>o. PICK o \in Operations : o = fin.op
  BY <1>1
<1>3. ASSUME NEW p \in saved \ forgotten', p # o PROVE SavedRow(p)'
  <2>1. ~InFinish(p) /\ ~InFinish(p)'
    BY <1>o, <1>1, <1>2, <1>3 DEF InFinish, Return
  <2>2. SavedRow(p) /\ p \in Operations \ {fin.op}
    BY <1>o, <1>1, <1>3 DEF SavedInv
  <2> QED BY <1>2, <2>1, <2>2, SavedSame
<1>4. ASSUME o \in saved \ forgotten' PROVE SavedRow(o)'
  <2>1. SavedRow(o) /\ InFinish(o) /\ fin.outcome \in Good
    BY <1>o, <1>1, <1>4 DEF SavedInv, SavedRow, InFinish
  <2>2. /\ status'[o] \in Good \/ (status'[o] = "processing" /\ intent'[o] \in Good)
        /\ Pending(o)' => Pending(o)
    <3>1. CASE UNCHANGED ledgerVars
      BY <2>1, <3>1 DEF SavedRow, Pending, ledgerVars
    <3>2. CASE Finalize(o, fin.outcome)
      <4>1. intent'[o] \in Good /\ status'[o] = IF Pending(o) THEN "processing" ELSE status[o]
        BY <1>1, <2>1, <3>2, IntentEffect DEF Finalize
      <4> QED BY <2>1, <4>1 DEF SavedRow, Pending, Good
    <3>3. CASE Settle(o, fin.outcome)
      <4>1. status'[o] \in Good
        BY <1>1, <2>1, <3>3, SettleEffect DEF SavedRow, Good, Final
      <4> QED BY <4>1 DEF Pending, Good
    <3> QED BY <1>o, <3>1, <3>2, <3>3
            DEF FinishStep, FinishReceipt, FinishIntent, FinishSettle, FinishUnlink
  <2>3. receipt'[o] \in Good \cup {None}
    BY <1>o, <1>1, <2>1
       DEF FinishStep, FinishReceipt, FinishIntent, FinishSettle, FinishUnlink, disk, SavedRow
  <2>4. CASE run' = run /\ fin' # Idle /\ fin'.op = fin.op /\ fin'.outcome = fin.outcome
    BY <1>o, <1>2, <2>1, <2>2, <2>3, <2>4 DEF SavedRow, InFinish
  <2>5. CASE Return
    <3>1. \/ run'[o] = run[o] /\ (scan # NoScan \/ run[o].pc \notin {"queued", "running"})
          \/ run'[o].pc = "done"
      BY <1>o, <1>1, <2>5, ReturnEffect
    <3>2. scan # NoScan => run[o].pc \notin {"queued", "running"}
      BY <1>o, <1>1 DEF CoreInv, ScanInv, Active
    <3>3. run'[o].pc \in {"absent", "done"} /\ ~InFinish(o)'
      BY <2>1, <2>5, <3>1, <3>2 DEF SavedRow, Return, InFinish
    <3> QED BY <1>2, <2>1, <2>2, <2>3, <3>3 DEF SavedRow
  <2> QED BY <1>2, <2>4, <2>5
<1> QED BY <1>2, <1>3, <1>4 DEF SavedInv

LEMMA SavedScan ==
  ASSUME Base, CoreInv, SavedInv, forgotten \subseteq forgotten', ScanStep
  PROVE  SavedInv'
<1>1. /\ scan # NoScan /\ UNCHANGED saved /\ saved \subseteq Operations
      /\ scan \in [at : {"receipts", "unlink", "intents", "orphans"}, todo : SUBSET Operations,
                   current : Operations \cup {None}, active : SUBSET Operations,
                   held : SUBSET Operations]
      /\ scan.at # "orphans" => fin = Idle
      /\ receipt \in [Operations -> Final \cup {None}]
      /\ intent \in [Operations -> Final \cup {None}]
  BY ScanEffect, ScanTypes, Types
<1> SUFFICES ASSUME NEW p \in saved \ forgotten' PROVE SavedRow(p)'
  BY <1>1 DEF SavedInv
<1>2. SavedRow(p) /\ p \in Operations
  BY <1>1 DEF SavedInv
<1>3. run' = run \/ run' = [o \in Operations |-> NoRun]
  BY ScanEffect
<1>4. run'[p].pc \in {run[p].pc, "absent", "done"}
  BY <1>2, <1>3 DEF NoRun
<1>5. ASSUME NEW o \in Operations, NEW outcome \in Final, Settle(o, outcome), p = o => outcome \in Good
      PROVE  /\ status'[p] \in Good \/ (status'[p] = "processing" /\ intent'[p] \in Good)
             /\ Pending(p)' => Pending(p) /\ p # o
  <2>1. CASE p = o
    <3>1. status'[p] \in Good
      BY <1>2, <1>5, <2>1, SettleEffect DEF SavedRow, Good, Final
    <3> QED BY <3>1 DEF Good, Pending
  <2>2. CASE p # o
    BY <1>2, <1>5, <2>2, SettleEffect DEF SavedRow, Pending
  <2> QED BY <2>1, <2>2
<1>6. ASSUME NEW o \in Operations, ScanReceipt(o) PROVE SavedRow(p)'
  <2>1. /\ scan'.at = "unlink" /\ UNCHANGED <<run, fin, receipt>> /\ Settle(o, receipt[o]) /\ fin = Idle
        /\ receipt[o] \in Final
    BY <1>1, <1>6 DEF ScanReceipt, disk, Base, OutcomeInv, Control
  <2>2. status'[p] \in Good \/ (status'[p] = "processing" /\ intent'[p] \in Good)
    BY <1>2, <1>5, <2>1, NoneAssumption DEF SavedRow
  <2> QED BY <1>2, <2>1, <2>2 DEF SavedRow, InFinish
<1>7. ASSUME NEW o \in Operations, ScanIntent(o) PROVE SavedRow(p)'
  <2>1. /\ scan.at = "intents" /\ UNCHANGED <<run, fin, receipt>> /\ fin = Idle
        /\ intent[o] \in Final
        /\ \/ Settle(o, intent[o]) /\ scan' = [scan EXCEPT !.todo = @ \ {o}, !.held = @ \ {o}]
           \/ UNCHANGED ledgerVars /\ scan' = [scan EXCEPT !.todo = @ \ {o}]
    BY <1>1, <1>7 DEF ScanIntent, disk, Base, OutcomeInv, Control
  <2>2. CASE Settle(o, intent[o]) /\ scan' = [scan EXCEPT !.todo = @ \ {o}, !.held = @ \ {o}]
    <3>1. p = o => intent[o] \in Good \/ status[o] \in Good
      BY <1>2 DEF SavedRow
    <3>2. /\ status'[p] \in Good \/ (status'[p] = "processing" /\ intent'[p] \in Good)
          /\ Pending(p)' => Pending(p) /\ p # o
      <4>1. CASE p = o /\ status[o] \in Good
        BY <2>1, <2>2, <4>1, SettleEffect DEF Good, Pending, Final
      <4> QED BY <1>5, <2>1, <2>2, <3>1, <4>1
    <3>3. scan'.at = "intents" /\ scan'.held = scan.held \ {o}
      BY <1>1, <2>1, <2>2
    <3> QED BY <1>2, <2>1, <3>2, <3>3 DEF SavedRow, InFinish
  <2>3. CASE UNCHANGED ledgerVars /\ scan' = [scan EXCEPT !.todo = @ \ {o}]
    <3>1. scan'.at = "intents" /\ scan'.held = scan.held
      BY <1>1, <2>1, <2>3
    <3> QED BY <1>2, <2>1, <2>3, <3>1 DEF SavedRow, InFinish, Pending, ledgerVars
  <2> QED BY <2>1, <2>2, <2>3
<1>8. CASE ScanToIntents
  <2>1. /\ scan'.at = "intents" /\ scan'.held = {o \in Operations : intent[o] # None}
        /\ UNCHANGED <<run, fin, receipt, status, intent>> /\ fin = Idle
    BY <1>1, <1>8 DEF ScanToIntents, disk, ledgerVars
  <2>2. Pending(p) => intent[p] # None
    BY <1>2, Types DEF SavedRow, Pending, Good, Final
  <2> QED BY <1>2, <2>1, <2>2 DEF SavedRow, InFinish, Pending
<1>9. CASE ScanToOrphans
  <2>1. /\ scan.at = "intents" /\ scan'.at = "orphans" /\ UNCHANGED <<run, fin, receipt, status, intent>>
        /\ scan'.todo = {o \in Operations : Pending(o)} \ (scan.active \cup scan.held) /\ fin = Idle
    BY <1>1, <1>9 DEF ScanToOrphans, disk, ledgerVars
  <2>2. p \notin scan'.todo
    BY <1>2, <2>1 DEF SavedRow
  <2> QED BY <1>2, <2>1, <2>2 DEF SavedRow, InFinish
<1>10. ASSUME NEW o \in Operations, ScanOrphan(o) PROVE SavedRow(p)'
  <2>1. /\ scan.at = "orphans" /\ o \in scan.todo /\ fin = Idle
        /\ scan'.at = "orphans" /\ scan'.todo = scan.todo \ {o}
        /\ fin'.op = o /\ UNCHANGED <<run, receipt, status, intent>>
    BY <1>1, <1>10 DEF ScanOrphan, Finish, disk, ledgerVars
  <2>2. p # o /\ ~InFinish(p) /\ ~InFinish(p)'
    BY <1>2, <2>1 DEF SavedRow, InFinish
  <2> QED BY <1>2, <2>1, <2>2 DEF SavedRow
<1>11. CASE ScanUnlink \/ ScanAborts \/ ScanEnd \/ \E o \in Operations : ScanUnreadable(o)
  <2>1. UNCHANGED <<fin, status, intent>>
    BY <1>11 DEF ScanUnlink, ScanAborts, ScanEnd, ScanUnreadable, ledgerVars
  <2>2. scan'.at \notin {"intents", "orphans"}
    <3>1. CASE ScanUnlink
      BY <1>1, <3>1 DEF ScanUnlink
    <3>2. CASE ScanAborts \/ ScanEnd
      BY <3>2 DEF ScanAborts, ScanEnd, NoScan
    <3>3. ASSUME NEW o \in Operations, ScanUnreadable(o) PROVE scan'.at = "receipts"
      BY <1>1, <3>3 DEF ScanUnreadable
    <3> QED BY <1>11, <3>1, <3>2, <3>3
  <2>3. receipt'[p] \in {receipt[p], None}
    BY <1>1, <1>2, <1>11 DEF ScanUnlink, ScanAborts, ScanEnd, ScanUnreadable, disk
  <2> QED BY <1>2, <1>4, <2>1, <2>2, <2>3, SavedSame DEF InFinish
<1> QED BY <1>6, <1>7, <1>8, <1>9, <1>10, <1>11 DEF ScanStep

(* Steps that save nothing and call finish for nobody with a result.        *)
LEMMA SavedKept ==
  ASSUME Base, SavedInv, saved' = saved, forgotten \subseteq forgotten',
         \A p \in saved \ forgotten' :
           /\ run'[p].pc \in {run[p].pc, "absent", "done"}
           /\ status'[p] = status[p] /\ intent'[p] = intent[p] /\ receipt'[p] = receipt[p]
           /\ InFinish(p)' <=> InFinish(p)
           /\ InFinish(p) => fin'.outcome = fin.outcome,
         scan' = scan \/ scan'.at \notin {"intents", "orphans"}
  PROVE  SavedInv'
<1> SUFFICES ASSUME NEW p \in saved \ forgotten' PROVE SavedRow(p)'
  BY DEF SavedInv
<1>1. p \in Operations /\ SavedRow(p)
  BY Types DEF SavedInv
<1> QED BY <1>1, SavedSame

LEMMA SavedRequest ==
  ASSUME Base, CoreInv, LiveInv, SavedInv, forgotten \subseteq forgotten',
         NEW o \in Operations, NEW i \in Copies, Request(o, i)
  PROVE  SavedInv'
<1>1. /\ LoopFree
      /\ UNCHANGED <<receipt, scan, saved, intent>>
      /\ \A p \in Operations \ {o} : status'[p] = status[p]
      /\ status'[o] = status[o] \/ (status[o] = "none" /\ status'[o] = "reserved")
      /\ \A p \in Operations \ {o} :
           run'[p] = run[p] \/ (run[p].pc = "done" /\ run'[p] = NoRun)
  BY RequestEffect
<1>2. saved \subseteq Operations /\ fin = Idle
  BY <1>1, Types DEF LoopFree
<1>3. ASSUME NEW p \in saved \ forgotten' PROVE status'[p] = status[p]
  <2>1. status[p] # "none"
    BY <1>3 DEF SavedInv, SavedRow, Good
  <2> QED BY <1>1, <1>2, <2>1
<1>4. UNCHANGED fin \/ (o \in Targets \ admitted /\ fin'.op = o)
  BY DEF Request, Deliver, PreparationStopped, PreparationRefused, AdmitChat, AdmitTarget, RejectTarget,
         Finish
<1>5. ASSUME NEW p \in saved \ forgotten' PROVE (InFinish(p)' <=> InFinish(p)) /\ ~InFinish(p)
  <2>1. p \notin Targets \ admitted
    BY <1>5 DEF CoreInv, TargetInv
  <2> QED BY <1>2, <1>4, <2>1 DEF InFinish
<1>6. ASSUME NEW p \in saved \ forgotten' PROVE run'[p].pc \in {run[p].pc, "absent", "done"}
  <2>1. CASE p # o
    BY <1>1, <1>2, <1>6, <2>1 DEF NoRun
  <2>2. CASE p = o /\ UNCHANGED run
    BY <2>2
  <2>3. CASE p = o /\ Submit(o) /\ (run[o].pc # "absent" \/ status[o] \in Final)
    BY <2>3, SubmitEffect
  <2>4. CASE p = o /\ AdmitChat(o, i)
    <3>1. /\ Pending(o) \/ status[o] \in Final
          /\ Loading(o) /\ o \in Operations \ (Targets \cup forgotten)
      BY <1>6, <2>4 DEF SavedInv, SavedRow, Good, Final, Pending, AdmitChat, Loading
    <3>2. Submit(o) /\ (run[o].pc # "absent" \/ status[o] \in Final)
      BY <2>4, <3>1 DEF LiveInv, Shared, AdmitChat
    <3> QED BY <2>4, <3>2, SubmitEffect
  <2>5. o \in Targets /\ ~UNCHANGED run => o \notin admitted
    BY DEF Request, Deliver, PreparationStopped, PreparationRefused, AdmitChat, AdmitTarget, RejectTarget
  <2>6. p \notin Targets \ admitted
    BY <1>6 DEF CoreInv, TargetInv
  <2>7. UNCHANGED run \/ o \in Targets \/ AdmitChat(o, i) \/ (Submit(o) /\ status[o] \in Final)
    BY DEF Request, Deliver, PreparationStopped, PreparationRefused, AdmitTarget, RejectTarget
  <2> QED BY <2>1, <2>2, <2>3, <2>4, <2>5, <2>6, <2>7
<1> QED BY <1>1, <1>3, <1>5, <1>6, SavedKept

LEMMA SavedExecution ==
  ASSUME Base, CoreInv, LiveInv, SavedInv, forgotten \subseteq forgotten',
         NEW o \in Operations, Execution(o)
  PROVE  SavedInv'
<1>1. CASE \E c \in Calls : BeforeCall(o, c) \/ CallReturns(o, c) \/ CallFails(o, c)
  <2>1. UNCHANGED <<disk, run, fin, scan, status, saved, intent>>
    BY <1>1, CallEffect
  <2> QED BY <2>1, SavedKept DEF disk, InFinish
<1>2. CASE BudgetExhausted(o)
  <2>1. /\ UNCHANGED <<ledgerVars, disk, fin, scan>>
        /\ \A p \in Operations : run'[p].pc = run[p].pc
    BY <1>2, BudgetEffect
  <2> QED BY <2>1, SavedKept, Types DEF disk, ledgerVars, InFinish
<1>3. CASE StartRun(o) \/ SourceFinal(o) \/ SourceFails(o) \/ SourceStopped(o) \/ SourceClosed(o)
           \/ CancelDelivered(o)
  <2>1. LoopFree /\ run[o].pc \in {"queued", "running"}
    BY <1>3 DEF StartRun, SourceFinal, SourceFails, SourceStopped, SourceClosed, CancelDelivered,
                Executing
  <2>2. fin = Idle /\ scan = NoScan /\ \A p \in Operations : ~InFinish(p)
    BY <2>1 DEF LoopFree, InFinish
  <2>3. o \notin saved \ forgotten
    BY <2>1, <2>2 DEF SavedInv, SavedRow
  <2>4. ASSUME NEW p \in saved \ forgotten'
        PROVE  /\ run'[p] = run[p] /\ status'[p] = status[p] /\ intent'[p] = intent[p]
               /\ receipt'[p] = receipt[p] /\ ~InFinish(p)'
    <3>1. p \in Operations \ {o}
      BY <2>3, <2>4, Types
    <3>2. CASE StartRun(o)
      BY <2>2, <3>1, <3>2, StartRunEffect DEF Finish, InFinish
    <3>3. CASE SourceClosed(o) \/ CancelDelivered(o)
      BY <2>2, <3>1, <3>3, ClosedEffect, CancelEffect DEF InFinish, ledgerVars, disk
    <3>4. CASE SourceFinal(o) \/ SourceFails(o) \/ SourceStopped(o)
      <4>1. /\ UNCHANGED <<disk, run>> /\ fin'.op = o
            /\ UNCHANGED <<status, intent>> \/ SaveResult(o)
        BY <3>4, EndEffect
      <4>2. SaveResult(o) => SetIntent(o, "completed") /\ "completed" \in Final
        BY DEF SaveResult, Final
      <4> QED BY <3>1, <4>1, <4>2, IntentEffect DEF InFinish, disk
    <3> QED BY <1>3, <3>2, <3>3, <3>4
  <2>5. CASE ~SourceFinal(o)
    <3>1. UNCHANGED <<saved, scan>>
      <4>1. CASE SourceFails(o) \/ SourceStopped(o)
        BY <4>1 DEF SourceFails, SourceStopped, ledgerVars
      <4>2. CASE StartRun(o) \/ SourceClosed(o) \/ CancelDelivered(o)
        BY <4>2, StartRunEffect, ClosedEffect, CancelEffect DEF ledgerVars
      <4> QED BY <1>3, <2>5, <4>1, <4>2
    <3>2. ASSUME NEW p \in saved \ forgotten'
          PROVE  /\ run'[p].pc \in {run[p].pc, "absent", "done"}
                 /\ status'[p] = status[p] /\ intent'[p] = intent[p] /\ receipt'[p] = receipt[p]
                 /\ ~InFinish(p)' /\ ~InFinish(p)
      BY <2>2, <2>4, <3>2, Types
    <3> QED BY <3>1, <3>2, SavedKept
  <2>6. CASE SourceFinal(o)
    <3>1. /\ fin' # Idle /\ fin'.op = o /\ fin'.outcome \in Good
          /\ UNCHANGED <<receipt, run, scan>> /\ SaveResult(o)
      <4>1. fin' # Idle /\ fin'.op = o /\ UNCHANGED <<disk, run, scan>> /\ SaveResult(o)
        BY <2>6, EndEffect DEF SourceFinal
      <4>2. fin'.outcome \in Good
        BY <2>6 DEF SourceFinal, Finish, Ending, Good
      <4> QED BY <4>1, <4>2 DEF disk
    <3>2. ASSUME o \notin forgotten PROVE CanContinue(o) /\ run[o].pc = "running"
      <4>1. Working(o) /\ run[o].pc = "running"
        BY <2>1, <2>2, <2>6 DEF Working, SourceFinal, Executing
      <4> QED BY <2>6, <3>2, <4>1 DEF SourceFinal, LiveInv, Live
    <3>3. /\ saved' = saved \cup {o}
          /\ o \notin forgotten => status'[o] = "processing" /\ intent'[o] = "completed"
      <4>1. SetIntent(o, "completed") /\ "completed" \in Final /\ saved' = saved \cup {o}
        BY <3>1 DEF SaveResult, Final
      <4> QED BY <3>2, <4>1, IntentEffect DEF CanContinue, Pending
    <3>4. ASSUME NEW p \in saved \ forgotten' PROVE SavedRow(p)'
      <4>1. p \in Operations /\ SavedRow(p)
        BY <3>4, Types DEF SavedInv
      <4> QED BY <2>2, <2>4, <3>1, <4>1, SavedSame
    <3>5. o \notin forgotten' => SavedRow(o)'
      <4>1. scan'.at \notin {"intents", "orphans"}
        BY <2>2, <3>1 DEF NoScan
      <4> QED BY <3>1, <3>2, <3>3, <4>1 DEF SavedRow, InFinish, CanContinue, Good
    <3> QED BY <3>3, <3>4, <3>5 DEF SavedInv
  <2> QED BY <2>5, <2>6
<1> QED BY <1>1, <1>2, <1>3 DEF Execution

LEMMA SavedRest ==
  ASSUME Base, CoreInv, SavedInv, forgotten \subseteq forgotten',
         Stop \/ Process \/ Scan \/ Administration \/ UNCHANGED vars
  PROVE  SavedInv'
<1> USE Types DEF ledgerVars, disk, InFinish
<1>1. CASE Stop
  <2>1. ASSUME NEW t, NEW selected \in SUBSET Operations, NEW targets,
               RequestStop(t, selected, targets)
        PROVE  SavedInv'
    BY <2>1, AskEffect, SavedKept
  <2>2. ASSUME NEW o \in Operations, StopVisit(o) PROVE SavedInv'
    <3>1. /\ o \in stopping /\ fin = Idle /\ UNCHANGED <<status, intent, saved, receipt, scan>>
          /\ \A p \in Operations \ {o} : run'[p] = run[p]
          /\ UNCHANGED fin \/ fin'.op = o
      BY <2>2, VisitEffect
    <3>2. o \notin saved \ forgotten
      BY <3>1 DEF CoreInv, StoppingInv, Active, SavedInv, SavedRow
    <3> QED BY <3>1, <3>2, SavedKept
  <2> QED BY <1>1, <2>1, <2>2 DEF Stop
<1>2. CASE Shutdown \/ Close
  BY <1>2, ShutdownEffect, SavedKept
<1>3. CASE Exit \/ Crash
  <2>1. /\ UNCHANGED <<status, intent, saved, receipt>> /\ fin' = Idle /\ scan' = NoScan
        /\ run' = [o \in Operations |-> NoRun]
    BY <1>3, DownEffect
  <2> SUFFICES ASSUME NEW p \in saved \ forgotten' PROVE SavedRow(p)'
    BY <2>1 DEF SavedInv
  <2>2. p \in Operations /\ SavedRow(p)
    BY DEF SavedInv
  <2>3. run'[p].pc = "absent" /\ scan'.at = "idle"
    BY <2>1, <2>2 DEF NoRun, NoScan
  <2> QED BY <2>1, <2>2, <2>3 DEF SavedRow
<1>4. CASE Start
  <2>1. UNCHANGED <<status, intent, saved, receipt, fin>>
    BY <1>4, StartEffect
  <2>2. PICK resumed \in SUBSET {o \in admitted \ saved : Pending(o)} :
          /\ scan' = [at |-> "receipts", todo |-> {o \in Operations : receipt[o] # None},
                      current |-> None, active |-> resumed, held |-> {}]
          /\ \A p \in Operations :
               run'[p] = IF p \in resumed THEN [NoRun EXCEPT !.pc = "queued"] ELSE NoRun
    BY <1>4, StartEffect
  <2>3. \A p \in saved : run'[p].pc = "absent"
    BY <2>2 DEF NoRun
  <2>4. scan'.at = "receipts"
    BY <2>2
  <2> QED BY <2>1, <2>3, <2>4, SavedKept
<1>5. CASE Scan
  BY <1>5, SavedKept DEF Scan, BeginScan
<1>6. CASE Administration \/ UNCHANGED vars
  BY <1>6, AdminEffect, SavedKept DEF proc
<1> QED BY <1>1, <1>2, <1>3, <1>4, <1>5, <1>6 DEF Process

LEMMA SavedInvStep ==
  ASSUME Base, CoreInv, LiveInv, SavedInv, [Next]_vars
  PROVE  SavedInv'
<1>f. forgotten \subseteq forgotten'
  BY ForgetStep DEF Forget
<1>1. CASE Stop \/ Process \/ Scan \/ Administration \/ UNCHANGED vars
  BY <1>f, <1>1, SavedRest
<1>2. CASE FinishStep \/ ScanStep
  BY <1>f, <1>2, SavedFinish, SavedScan
<1>3. ASSUME NEW o \in Operations, NEW i \in Copies, Request(o, i) PROVE SavedInv'
  BY <1>f, <1>3, SavedRequest
<1>4. ASSUME NEW o \in Operations, Execution(o) PROVE SavedInv'
  BY <1>f, <1>4, SavedExecution
<1> QED BY <1>1, <1>2, <1>3, <1>4 DEF Next

(* A stored result is paid for, whatever fails, whoever is restarted, unless*)
(* the run that stored it was forgotten too soon and is run again.          *)
THEOREM ResultsArePaidFor == Spec => []SavedResultIsCharged
<1>1. Init => SavedInv
  BY DEF Init, LedgerInit, SavedInv
<1>2. Base /\ CoreInv /\ LiveInv /\ SavedInv /\ [Next]_vars => SavedInv'
  BY SavedInvStep
<1>3. SavedInv => SavedResultIsCharged
  BY DEF SavedInv, SavedRow, SavedResultIsCharged, Good, Final
<1> QED BY <1>1, <1>2, <1>3, LiveHolds, BaseHolds, PTL DEF Spec

-----------------------------------------------------------------------------
(* The receipt decides, where receipts can be read.  A scan looks at every  *)
(* receipt before it takes anyone for an orphan; a run that is alive has    *)
(* none, unless it was rejected once and has cost nothing.  So finish never *)
(* replaces a receipt by one that costs something else.                     *)

Agrees(o, outcome) ==
  \/ receipt[o] = None
  \/ receipt[o] = "failed" /\ outcome = "failed"
  \/ receipt[o] # "failed" /\ outcome # "failed"
  \/ Unused(o)

Receipted(o) ==
  /\ scan.at = "receipts" /\ receipt[o] # None => o \in scan.todo
  /\ scan.at = "unlink" /\ receipt[o] # None => o \in scan.todo \cup {scan.current}
  /\ scan.at = "intents" => receipt[o] = None
  /\ scan.at = "orphans" /\ o \in scan.todo \cup scan.active => receipt[o] = None
  /\ mode # "starting" /\ Working(o) /\ receipt[o] # None => Unused(o)
  /\ InFinish(o) /\ fin.at # "unlink" => Agrees(o, fin.outcome)
  /\ scan.at = "orphans" /\ InFinish(o) => o \notin scan.todo

ReceiptInv == \A o \in Operations \ forgotten : Receipted(o)

LEMMA UnusedCostsNothing ==
  ASSUME NEW d \in Nat \ {0} PROVE HalfUp(0, d) = 0
BY DEF HalfUp

LEMMA AgreesCharge ==
  ASSUME Base, NEW o \in Operations, receipt[o] # None, NEW outcome, Agrees(o, outcome)
  PROVE  Charge(o, outcome) = Charge(o, receipt[o])
<1>1. CASE Unused(o)
  <2>1. HalfUp(consumed[o], Scale) = 0
    BY <1>1, CostsAssumption, UnusedCostsNothing DEF Unused
  <2>2. budget[o] \in Nat
    BY DEF Base, OutcomeInv, StatementInv, LedgerInv, TypeOK
  <2> QED BY <2>1, <2>2 DEF Charge, Least
<1>2. CASE ~Unused(o)
  BY <1>2 DEF Agrees, Charge
<1> QED BY <1>1, <1>2

(* An operation that a step does not touch.                                 *)
LEMMA ReceiptSame ==
  ASSUME NEW p \in Operations, Receipted(p), UNCHANGED receipt[p],
         scan' = scan \/ scan' = NoScan,
         mode' # "starting" => mode # "starting",
         Working(p)' => Working(p), Unused(p) => Unused(p)' \/ receipt[p] = None,
         InFinish(p)' <=> InFinish(p), InFinish(p) => fin' = fin
  PROVE  Receipted(p)'
<1>1. scan' = scan \/ scan'.at = "idle"
  BY DEF NoScan
<1>2. mode' # "starting" /\ Working(p)' /\ receipt'[p] # None => Unused(p)'
  BY DEF Receipted
<1>3. InFinish(p)' /\ fin'.at # "unlink" => Agrees(p, fin.outcome)'
  BY DEF Receipted, Agrees
<1> QED BY <1>1, <1>2, <1>3 DEF Receipted, Agrees

(* A run that works hands itself to finish.                                 *)
LEMMA ReceiptEnds ==
  ASSUME NEW o \in Operations, Receipted(o), Working(o), mode # "starting", scan' = NoScan,
         UNCHANGED receipt[o], Unused(o) => Unused(o)', fin' # Idle, fin'.op = o
  PROVE  Receipted(o)'
<1>1. Agrees(o, fin.outcome)'
  BY DEF Receipted, Agrees
<1>2. ~Working(o)'
  BY DEF Working, InFinish
<1> QED BY <1>1, <1>2 DEF Receipted, NoScan

LEMMA ReceiptFinish ==
  ASSUME Base, CoreInv, ReceiptInv, forgotten \subseteq forgotten', FinishStep
  PROVE  ReceiptInv'
<1>1. /\ fin \in [at : {"receipt", "finalize", "settle", "unlink"}, op : Operations, outcome : Final]
      /\ fin # Idle /\ receipt \in [Operations -> Final \cup {None}]
  BY FinishEffect, FinTypes, Types
<1>2. /\ UNCHANGED <<scan, mode, inflight, consumed>>
      /\ \A p \in Operations \ {fin.op} : run'[p] = run[p] /\ receipt'[p] = receipt[p]
      /\ \/ run' = run /\ fin' # Idle /\ fin'.op = fin.op /\ fin'.outcome = fin.outcome
         \/ Return
  BY FinishEffect
<1>o. PICK o \in Operations : o = fin.op
  BY <1>1
<1>3. ASSUME NEW p \in Operations \ forgotten', p # o PROVE Receipted(p)'
  <2>1. ~InFinish(p) /\ ~InFinish(p)'
    BY <1>o, <1>1, <1>2, <1>3 DEF InFinish, Return
  <2>2. Receipted(p) /\ UNCHANGED receipt[p] /\ run'[p] = run[p]
    BY <1>o, <1>2, <1>3 DEF ReceiptInv
  <2>3. (Working(p)' => Working(p)) /\ (Unused(p) => Unused(p)')
    BY <1>2, <2>1, <2>2 DEF Working, Unused
  <2> QED BY <1>2, <2>1, <2>2, <2>3, ReceiptSame
<1>4. ASSUME o \notin forgotten' PROVE Receipted(o)'
  <2>1. Receipted(o) /\ InFinish(o)
    BY <1>o, <1>1, <1>4 DEF ReceiptInv, InFinish
  <2>2. scan.at \notin {"receipts", "unlink", "intents"}
    BY <1>1 DEF Base, OutcomeInv, Control
  <2>3. scan.at = "orphans" => o \notin scan.todo \cup scan.active
    BY <1>o, <1>1, <2>1 DEF Receipted, CoreInv, ScanInv, NoScan
  <2>4. CASE run' = run /\ fin' # Idle /\ fin'.op = fin.op /\ fin'.outcome = fin.outcome
    <3>1. ~Working(o)'
      BY <1>o, <2>4 DEF Working, InFinish
    <3>2. fin'.at # "unlink" => Agrees(o, fin.outcome)'
      <4>1. CASE receipt'[o] = fin.outcome
        BY <2>4, <4>1 DEF Agrees
      <4>2. CASE receipt'[o] = receipt[o]
        <5>1. fin'.at # "unlink" => fin.at # "unlink"
          BY <1>1, <2>4 DEF FinishStep, FinishReceipt, FinishIntent, FinishSettle, FinishUnlink, Return
        <5> QED BY <1>2, <2>1, <2>4, <4>2, <5>1 DEF Receipted, Agrees, Unused
      <4>3. receipt'[o] \in {receipt[o], fin.outcome}
        BY <1>o, <1>1, <2>4
           DEF FinishStep, FinishReceipt, FinishIntent, FinishSettle, FinishUnlink, Return, disk
      <4> QED BY <4>1, <4>2, <4>3
    <3> QED BY <1>2, <2>2, <2>3, <3>1, <3>2 DEF Receipted
  <2>5. CASE Return
    <3>1. \/ run'[o] = run[o] /\ (scan # NoScan \/ run[o].pc \notin {"queued", "running"})
          \/ run'[o].pc = "done"
      BY <1>o, <1>1, <2>5, ReturnEffect
    <3>2. scan # NoScan => run[o].pc \notin {"queued", "running"}
      BY <1>o, <1>1 DEF CoreInv, ScanInv, Active
    <3>3. ~Working(o)' /\ ~InFinish(o)'
      BY <2>5, <3>1, <3>2 DEF Working, Return, InFinish
    <3> QED BY <1>2, <2>2, <2>3, <3>3 DEF Receipted
  <2> QED BY <1>2, <2>4, <2>5
<1> QED BY <1>3, <1>4 DEF ReceiptInv

LEMMA ReceiptScan ==
  ASSUME Unreadable = FALSE, Base, CoreInv, ReceiptInv, forgotten \subseteq forgotten', ScanStep
  PROVE  ReceiptInv'
<1>1. /\ scan # NoScan /\ UNCHANGED <<inflight, consumed>>
      /\ scan \in [at : {"receipts", "unlink", "intents", "orphans"}, todo : SUBSET Operations,
                   current : Operations \cup {None}, active : SUBSET Operations,
                   held : SUBSET Operations]
      /\ scan.at # "orphans" => fin = Idle
      /\ receipt \in [Operations -> Final \cup {None}]
  BY ScanEffect, ScanTypes, Types
<1> SUFFICES ASSUME NEW p \in Operations \ forgotten' PROVE Receipted(p)'
  BY DEF ReceiptInv
<1>2. Receipted(p) /\ (Unused(p)' <=> Unused(p))
  BY <1>1 DEF ReceiptInv, Unused
<1>3. CASE ScanAborts
  <2>1. scan' = NoScan /\ UNCHANGED <<receipt, fin>>
    BY <1>3 DEF ScanAborts, disk
  <2>2. UNCHANGED <<mode, run>> \/ run' = [o \in Operations |-> NoRun]
    BY <1>3 DEF ScanAborts
  <2>4. CASE UNCHANGED <<mode, run>>
    BY <1>2, <2>1, <2>4, ReceiptSame DEF Working, InFinish
  <2>5. CASE run' = [o \in Operations |-> NoRun]
    <3>1. ~Working(p)'
      BY <2>5 DEF Working, NoRun
    <3> QED BY <1>2, <2>1, <3>1 DEF Receipted, InFinish, Agrees, NoScan
  <2> QED BY <2>2, <2>4, <2>5
<1>4. CASE ScanEnd
  <2>1. /\ scan.at = "orphans" /\ scan' = NoScan /\ fin = Idle /\ UNCHANGED <<receipt, fin, run>>
    BY <1>4 DEF ScanEnd, disk
  <2>2. Working(p) => receipt[p] = None
    BY <1>1, <1>2, <2>1 DEF Working, Active, CoreInv, ScanInv, Receipted
  <2>3. Working(p)' => Working(p)
    BY <2>1 DEF Working, InFinish
  <2>4. ~InFinish(p)'
    BY <2>1 DEF InFinish
  <2> QED BY <2>1, <2>2, <2>3, <2>4 DEF Receipted, NoScan
<1>5. CASE ~ScanAborts /\ ~ScanEnd
  <2>1. UNCHANGED <<run, mode>>
    BY <1>5 DEF ScanStep, ScanReceipt, ScanUnreadable, ScanIntent, ScanOrphan, ScanUnlink, ScanToIntents,
                ScanToOrphans
  <2>2. ASSUME NEW o \in Operations, ScanReceipt(o) PROVE Receipted(p)'
    <3>1. /\ scan.at = "receipts" /\ scan'.at = "unlink" /\ scan'.todo = scan.todo \ {o}
          /\ scan'.current = o /\ UNCHANGED <<receipt, fin>> /\ fin = Idle
      BY <1>1, <2>2 DEF ScanReceipt, disk
    <3> QED BY <1>2, <2>1, <3>1 DEF Receipted, InFinish, Working
  <2>3. CASE ScanUnlink
    <3>1. /\ scan.at = "unlink" /\ scan'.at = "receipts" /\ scan'.todo = scan.todo
          /\ receipt' = [receipt EXCEPT ![scan.current] = None] /\ UNCHANGED fin /\ fin = Idle
      BY <1>1, <2>3 DEF ScanUnlink
    <3>2. receipt'[p] = IF p = scan.current THEN None ELSE receipt[p]
      BY <1>1, <3>1
    <3> QED BY <1>2, <2>1, <3>1, <3>2 DEF Receipted, InFinish, Working
  <2>4. CASE ScanToIntents
    <3>1. /\ scan.at = "receipts" /\ scan.todo = {} /\ scan'.at = "intents"
          /\ UNCHANGED <<receipt, fin>> /\ fin = Idle
      BY <1>1, <2>4 DEF ScanToIntents, disk
    <3> QED BY <1>2, <2>1, <3>1 DEF Receipted, InFinish, Working
  <2>5. ASSUME NEW o \in Operations, ScanIntent(o) PROVE Receipted(p)'
    <3>1. /\ scan.at = "intents" /\ UNCHANGED <<receipt, fin>> /\ fin = Idle
          /\ \/ scan' = [scan EXCEPT !.todo = @ \ {o}, !.held = @ \ {o}]
             \/ scan' = [scan EXCEPT !.todo = @ \ {o}]
      BY <1>1, <2>5 DEF ScanIntent, disk
    <3>2. scan'.at = "intents"
      BY <1>1, <3>1
    <3> QED BY <1>2, <2>1, <3>1, <3>2 DEF Receipted, InFinish, Working
  <2>6. CASE ScanToOrphans
    <3>1. /\ scan.at = "intents" /\ scan'.at = "orphans" /\ UNCHANGED <<receipt, fin>> /\ fin = Idle
      BY <1>1, <2>6 DEF ScanToOrphans, disk
    <3> QED BY <1>2, <2>1, <3>1 DEF Receipted, InFinish, Working
  <2>7. ASSUME NEW o \in Operations, ScanOrphan(o) PROVE Receipted(p)'
    <3>1. /\ scan.at = "orphans" /\ o \in scan.todo /\ fin = Idle /\ fin' # Idle /\ fin'.op = o
          /\ scan'.at = "orphans" /\ scan'.todo = scan.todo \ {o} /\ scan'.active = scan.active
          /\ UNCHANGED receipt
      BY <1>1, <2>7 DEF ScanOrphan, Finish, Idle, disk
    <3>2. CASE p = o
      <4>1. receipt[o] = None
        BY <1>2, <3>1, <3>2 DEF Receipted
      <4> QED BY <3>1, <3>2, <4>1 DEF Receipted, Agrees
    <3>3. CASE p # o
      BY <1>2, <2>1, <3>1, <3>3 DEF Receipted, InFinish, Working
    <3> QED BY <3>2, <3>3
  <2>8. \A o \in Operations : ~ScanUnreadable(o)
    BY DEF ScanUnreadable
  <2> QED BY <1>5, <2>2, <2>3, <2>4, <2>5, <2>6, <2>7, <2>8 DEF ScanStep
<1> QED BY <1>3, <1>4, <1>5

LEMMA ReceiptRequest ==
  ASSUME Base, CoreInv, LiveInv', ReceiptInv, forgotten \subseteq forgotten',
         NEW o \in Operations, NEW i \in Copies, Request(o, i)
  PROVE  ReceiptInv'
<1>1. /\ LoopFree /\ mode \in {"serving", "draining", "closing"}
      /\ UNCHANGED <<receipt, mode, inflight, scan, consumed>>
      /\ \A p \in Operations \ {o} :
           run'[p] = run[p] \/ (run[p].pc = "done" /\ run'[p] = NoRun)
  BY RequestEffect
<1>2. fin = Idle /\ scan' = NoScan /\ \A p \in Operations : ~InFinish(p)
  BY <1>1 DEF LoopFree, InFinish
<1>3. UNCHANGED fin \/ (o \in Targets \ admitted /\ fin' # Idle /\ fin'.op = o)
  BY DEF Request, Deliver, PreparationStopped, PreparationRefused, AdmitChat, AdmitTarget, RejectTarget,
         Finish, Idle
<1>4. ASSUME NEW p \in Operations \ forgotten' PROVE Receipted(p) /\ (Unused(p)' <=> Unused(p))
  BY <1>1 DEF ReceiptInv, Unused
<1>5. ASSUME NEW p \in Operations \ forgotten', p # o PROVE Receipted(p)'
  <2>1. ~InFinish(p)'
    BY <1>2, <1>3, <1>5 DEF InFinish
  <2>2. Working(p)' => Working(p)
    BY <1>1, <1>2, <1>5 DEF Working, NoRun
  <2> QED BY <1>1, <1>2, <1>4, <2>1, <2>2, ReceiptSame
<1>6. ASSUME o \notin forgotten' PROVE Receipted(o)'
  <2>1. CASE o \in Targets \ admitted
    <3>1. Unused(o)'
      BY <1>4, <1>6, <2>1 DEF CoreInv, TargetInv
    <3> QED BY <1>2, <3>1 DEF Receipted, Agrees, NoScan
  <2>2. CASE o \in Targets /\ o \in admitted
    <3>1. UNCHANGED <<run, fin>>
      BY <1>3, <2>2 DEF Request, Deliver, PreparationStopped, PreparationRefused, AdmitChat, AdmitTarget,
                 RejectTarget
    <3> QED BY <1>1, <1>2, <1>4, <1>6, <3>1, ReceiptSame DEF Working, InFinish
  <2>3. CASE o \notin Targets
    <3>1. Working(o)' => receipt'[o] = None
      BY <1>6, <2>3 DEF LiveInv, Live, CanContinue
    <3>2. ~InFinish(o)'
      BY <1>2, <1>3, <2>3 DEF InFinish
    <3> QED BY <1>2, <3>1, <3>2 DEF Receipted, NoScan
  <2> QED BY <2>1, <2>2, <2>3
<1> QED BY <1>5, <1>6 DEF ReceiptInv

LEMMA ReceiptExecution ==
  ASSUME Base, CoreInv, ReceiptInv, forgotten \subseteq forgotten', NEW o \in Operations, Execution(o)
  PROVE  ReceiptInv'
<1>1. CASE \E c \in Calls : BeforeCall(o, c) \/ CallReturns(o, c) \/ CallFails(o, c)
  <2>1. /\ UNCHANGED <<disk, mode, run, fin, scan>>
        /\ \A p \in Operations \ {o} : inflight'[p] = inflight[p] /\ consumed'[p] = consumed[p]
        /\ inflight'[o] \subseteq inflight[o] \/ Gate(o)
        /\ inflight[o] = {} => consumed' = consumed
    BY <1>1, CallEffect
  <2> SUFFICES ASSUME NEW p \in Operations \ forgotten' PROVE Receipted(p)'
    BY DEF ReceiptInv
  <2>2. Unused(p) => Unused(p)' \/ receipt[p] = None
    BY <2>1 DEF Unused, Gate, CanContinue
  <2> QED BY <2>1, <2>2, ReceiptSame DEF ReceiptInv, Working, InFinish, disk
<1>2. CASE BudgetExhausted(o)
  <2>1. /\ UNCHANGED <<ledgerVars, disk, mode, inflight, fin, scan>>
        /\ \A p \in Operations : run'[p].pc = run[p].pc
    BY <1>2, BudgetEffect
  <2> SUFFICES ASSUME NEW p \in Operations \ forgotten' PROVE Receipted(p)'
    BY DEF ReceiptInv
  <2>2. (Unused(p) => Unused(p)') /\ (Working(p)' => Working(p))
    BY <2>1 DEF Unused, Working, InFinish, ledgerVars
  <2> QED BY <2>1, <2>2, ReceiptSame DEF ReceiptInv, InFinish, disk
<1>3. CASE StartRun(o) \/ SourceFinal(o) \/ SourceFails(o) \/ SourceStopped(o) \/ SourceClosed(o)
           \/ CancelDelivered(o)
  <2>1. LoopFree /\ run[o].pc \in {"queued", "running"} /\ mode \in {"serving", "draining", "closing"}
    BY <1>3 DEF StartRun, SourceFinal, SourceFails, SourceStopped, SourceClosed, CancelDelivered,
                Executing
  <2>2. fin = Idle /\ scan = NoScan /\ \A p \in Operations : ~InFinish(p)
    BY <2>1 DEF LoopFree, InFinish
  <2>3. /\ UNCHANGED <<mode, receipt, scan, inflight, consumed>>
        /\ \A p \in Operations \ {o} : run'[p] = run[p]
        /\ \/ UNCHANGED fin
           \/ fin' # Idle /\ fin'.op = o
    <3>1. CASE StartRun(o)
      BY <3>1, StartRunEffect DEF Finish, Idle
    <3>2. CASE SourceFinal(o) \/ SourceFails(o) \/ SourceStopped(o)
      BY <3>2, EndEffect DEF disk
    <3>3. CASE SourceClosed(o) \/ CancelDelivered(o)
      BY <3>3, ClosedEffect, CancelEffect DEF disk, ledgerVars
    <3> QED BY <1>3, <3>1, <3>2, <3>3
  <2> SUFFICES ASSUME NEW p \in Operations \ forgotten' PROVE Receipted(p)'
    BY DEF ReceiptInv
  <2>4. Receipted(p) /\ (Unused(p) => Unused(p)')
    BY <2>3 DEF ReceiptInv, Unused
  <2>5. CASE p = o /\ ~UNCHANGED fin
    <3>1. Working(p)
      BY <2>1, <2>2, <2>5 DEF Working
    <3> QED BY <2>1, <2>2, <2>3, <2>4, <2>5, <3>1, ReceiptEnds
  <2>6. CASE p # o \/ UNCHANGED fin
    <3>1. ~InFinish(p)'
      BY <2>2, <2>3, <2>6 DEF InFinish
    <3>2. Working(p)' => Working(p)
      BY <2>1, <2>2, <2>3 DEF Working
    <3> QED BY <2>2, <2>3, <2>4, <3>1, <3>2, ReceiptSame
  <2> QED BY <2>5, <2>6
<1> QED BY <1>1, <1>2, <1>3 DEF Execution

LEMMA ReceiptRest ==
  ASSUME Base, CoreInv, ReceiptInv, forgotten \subseteq forgotten',
         Stop \/ Process \/ Scan \/ Administration \/ UNCHANGED vars
  PROVE  ReceiptInv'
<1> SUFFICES ASSUME NEW p \in Operations \ forgotten' PROVE Receipted(p)'
  BY DEF ReceiptInv
<1>1. Receipted(p)
  BY DEF ReceiptInv
<1>2. CASE Stop
  <2>1. ASSUME NEW t, NEW selected \in SUBSET Operations, NEW targets,
               RequestStop(t, selected, targets)
        PROVE  Receipted(p)'
    <3>1. UNCHANGED <<ledgerVars, receipt, mode, run, inflight, fin, scan>>
      BY <2>1, AskEffect
    <3> QED BY <1>1, <3>1, ReceiptSame DEF Working, InFinish, Unused, ledgerVars
  <2>2. ASSUME NEW o \in Operations, StopVisit(o) PROVE Receipted(p)'
    <3>1. /\ o \in stopping /\ fin = Idle
          /\ UNCHANGED <<ledgerVars, receipt, mode, inflight, scan>>
          /\ \A q \in Operations : run'[q].pc = run[q].pc
          /\ UNCHANGED fin \/ (fin' # Idle /\ fin'.op = o)
      BY <2>2, VisitEffect DEF disk
    <3>2. mode = "serving" /\ scan = NoScan /\ Working(o)
      BY <3>1 DEF CoreInv, StoppingInv, Active, Working, InFinish, Base, OutcomeInv, Control
    <3>3. Unused(p) => Unused(p)'
      BY <3>1 DEF Unused, ledgerVars
    <3>4. CASE p = o /\ ~UNCHANGED fin
      BY <1>1, <3>1, <3>2, <3>3, <3>4, ReceiptEnds
    <3>5. CASE p # o \/ UNCHANGED fin
      <4>1. ~InFinish(p) /\ ~InFinish(p)'
        BY <3>1, <3>5 DEF InFinish
      <4>2. Working(p)' => Working(p)
        BY <3>1, <4>1 DEF Working
      <4> QED BY <1>1, <3>1, <3>3, <4>1, <4>2, ReceiptSame
    <3> QED BY <3>4, <3>5
  <2> QED BY <1>2, <2>1, <2>2 DEF Stop
<1>3. CASE Shutdown \/ Close
  <2>1. /\ UNCHANGED <<ledgerVars, disk, inflight, fin, scan>> /\ run'[p].pc = run[p].pc
        /\ mode \in {"serving", "draining"}
    BY <1>3, ShutdownEffect
  <2>2. (Unused(p) => Unused(p)') /\ (Working(p)' => Working(p))
    BY <2>1 DEF Unused, Working, InFinish, ledgerVars
  <2> QED BY <1>1, <2>1, <2>2, ReceiptSame DEF InFinish, disk
<1>4. CASE Exit \/ Crash
  <2>1. run'[p] = NoRun /\ fin' = Idle /\ scan' = NoScan
    BY <1>4, DownEffect
  <2> QED BY <2>1 DEF Receipted, Working, InFinish, NoRun, NoScan
<1>5. CASE Start
  <2>1. /\ mode = "down" /\ mode' = "starting" /\ UNCHANGED <<disk, fin>>
        /\ scan'.at = "receipts" /\ scan'.todo = {o \in Operations : receipt[o] # None}
    BY <1>5, StartEffect
  <2>2. fin' = Idle
    BY <2>1 DEF Base, OutcomeInv, Control, LoopFree
  <2> QED BY <2>1, <2>2 DEF Receipted, InFinish, disk
<1>6. CASE Scan
  <2>1. /\ scan'.at = "receipts" /\ scan'.todo = {o \in Operations : receipt[o] # None}
        /\ UNCHANGED <<ledgerVars, disk, mode, run, inflight, fin>> /\ fin = Idle
    BY <1>6 DEF Scan, BeginScan, LoopFree
  <2> QED BY <1>1, <2>1 DEF Receipted, Working, InFinish, Unused, disk, ledgerVars
<1>7. CASE Administration \/ UNCHANGED vars
  <2>1. UNCHANGED <<receipt, scan, mode, run, fin, inflight, consumed>>
    BY <1>7, AdminEffect DEF proc, disk
  <2> QED BY <1>1, <2>1, ReceiptSame DEF Working, InFinish, Unused
<1> QED BY <1>2, <1>3, <1>4, <1>5, <1>6, <1>7 DEF Process

LEMMA ReceiptInvStep ==
  ASSUME Unreadable = FALSE, Base, CoreInv, LiveInv, LiveInv', ReceiptInv, [Next]_vars
  PROVE  ReceiptInv'
<1>f. forgotten \subseteq forgotten'
  BY ForgetStep DEF Forget
<1>1. CASE Stop \/ Process \/ Scan \/ Administration \/ UNCHANGED vars
  BY <1>f, <1>1, ReceiptRest
<1>2. CASE FinishStep \/ ScanStep
  BY <1>f, <1>2, ReceiptFinish, ReceiptScan
<1>3. ASSUME NEW o \in Operations, NEW i \in Copies, Request(o, i) PROVE ReceiptInv'
  BY <1>f, <1>3, ReceiptRequest
<1>4. ASSUME NEW o \in Operations, Execution(o) PROVE ReceiptInv'
  BY <1>f, <1>4, ReceiptExecution
<1> QED BY <1>1, <1>2, <1>3, <1>4 DEF Next

(* What a step does to an operation that has a receipt.                     *)
LEMMA ReceiptKept ==
  ASSUME Base, CoreInv, ReceiptInv, [Next]_vars, NEW o \in Operations \ forgotten, Pending(o),
         receipt[o] # None
  PROVE  /\ receipt'[o] # None
         /\ Charge(o, receipt'[o]) = Charge(o, receipt[o])
         /\ status'[o] \in Final => charged'[o] = Charge(o, receipt[o])
<1>1. CASE FinishStep
  <2>1. /\ fin \in [at : {"receipt", "finalize", "settle", "unlink"}, op : Operations, outcome : Final]
        /\ fin # Idle /\ receipt \in [Operations -> Final \cup {None}] /\ None \notin Final
    BY <1>1, FinishEffect, FinTypes, Types
  <2>2. CASE o # fin.op
    <3>1. receipt'[o] = receipt[o] /\ status'[o] = status[o]
      BY <1>1, <2>2, FinishEffect
    <3> QED BY <3>1 DEF Pending, Final
  <2>3. CASE o = fin.op
    <3>1. fin.at # "unlink"
      BY <2>3 DEF CoreInv, SettledInv, Pending, Final
    <3>2. Agrees(o, fin.outcome)
      BY <2>1, <2>3, <3>1 DEF ReceiptInv, Receipted, InFinish
    <3>3. Charge(o, fin.outcome) = Charge(o, receipt[o])
      BY <2>1, <3>2, AgreesCharge
    <3>4. CASE FinishReceipt
      <4>1. receipt'[o] \in {receipt[o], fin.outcome} /\ UNCHANGED status
        BY <2>1, <2>3, <3>4 DEF FinishReceipt, ledgerVars
      <4> QED BY <2>1, <3>3, <4>1 DEF Pending, Final
    <3>5. CASE FinishIntent
      <4>1. UNCHANGED receipt /\ (UNCHANGED status \/ Finalize(fin.op, fin.outcome))
        BY <3>5 DEF FinishIntent, disk, ledgerVars
      <4>2. status'[o] \notin Final
        <5>1. CASE UNCHANGED status
          BY <5>1 DEF Pending, Final
        <5>2. CASE Finalize(fin.op, fin.outcome)
          BY <2>1, <2>3, <5>2, IntentEffect DEF Finalize, Final
        <5> QED BY <4>1, <5>1, <5>2
      <4> QED BY <4>1, <4>2
    <3>6. CASE FinishSettle
      <4>1. UNCHANGED receipt /\ (UNCHANGED status \/ Settle(fin.op, fin.outcome))
        BY <3>6 DEF FinishSettle, disk, ledgerVars
      <4>2. status'[o] \in Final => charged'[o] = Charge(o, fin.outcome)
        <5>1. CASE UNCHANGED status
          BY <5>1 DEF Pending, Final
        <5>2. CASE Settle(fin.op, fin.outcome)
          BY <2>1, <2>3, <5>2, SettleEffect DEF Pending, Final
        <5> QED BY <4>1, <5>1, <5>2
      <4> QED BY <3>3, <4>1, <4>2
    <3> QED BY <1>1, <3>1, <3>4, <3>5, <3>6 DEF FinishStep, FinishUnlink
  <2> QED BY <2>2, <2>3
<1>2. CASE ScanStep
  <2>1. receipt'[o] = receipt[o]
    <3>1. CASE ScanUnlink
      <4>1. o # scan.current
        BY <3>1 DEF ScanUnlink, CoreInv, SettledInv, Pending, Final
      <4> QED BY <3>1, <4>1, Types DEF ScanUnlink
    <3>2. CASE ~ScanUnlink
      BY <1>2, <3>2 DEF ScanStep, ScanReceipt, ScanUnreadable, ScanIntent, ScanOrphan, ScanAborts,
             ScanToIntents, ScanToOrphans, ScanEnd, disk
    <3> QED BY <3>1, <3>2
  <2>2. ASSUME NEW p \in Operations, ScanReceipt(p)
        PROVE  status'[o] \in Final => charged'[o] = Charge(o, receipt[o])
    <3>1. Settle(p, receipt[p]) /\ receipt[p] \in Final
      BY <2>2, Types DEF ScanReceipt, Base, OutcomeInv, Control
    <3> QED BY <3>1, SettleEffect DEF Pending, Final
  <2>3. \A p \in Operations : ~ScanIntent(p)
    BY DEF ScanIntent, ReceiptInv, Receipted
  <2>4. CASE UNCHANGED status
    BY <2>1, <2>4 DEF Pending, Final
  <2>5. UNCHANGED status \/ \E p \in Operations : ScanReceipt(p)
    BY <1>2, <2>3 DEF ScanStep, ScanUnreadable, ScanOrphan, ScanUnlink, ScanAborts, ScanToIntents,
           ScanToOrphans, ScanEnd, ledgerVars
  <2> QED BY <2>1, <2>2, <2>4, <2>5
<1>3. ASSUME NEW p \in Operations, NEW i \in Copies, Request(p, i)
      PROVE  receipt'[o] = receipt[o] /\ status'[o] \notin Final
  <2>1. UNCHANGED receipt /\ status'[o] \in {status[o], "reserved"}
    BY <1>3, RequestEffect
  <2> QED BY <2>1 DEF Pending, Final
<1>4. ASSUME NEW p \in Operations, Execution(p)
      PROVE  receipt'[o] = receipt[o] /\ status'[o] \notin Final
  <2>1. UNCHANGED receipt
    BY <1>4 DEF Execution, StartRun, BeforeCall, CallReturns, CallFails, BudgetExhausted, SourceFinal,
                SourceFails, SourceStopped, SourceClosed, CancelDelivered, disk
  <2>2. status'[o] \in {status[o], "running", "processing"}
    <3>1. CASE \E c \in Calls : BeforeCall(p, c) \/ CallReturns(p, c) \/ CallFails(p, c)
      BY <1>4, <3>1, CallEffect
    <3>2. CASE StartRun(p)
      BY <1>4, <3>2, StartRunEffect
    <3>3. CASE SourceFinal(p) \/ SourceFails(p) \/ SourceStopped(p)
      <4>1. UNCHANGED status \/ SaveResult(p)
        BY <1>4, <3>3, EndEffect
      <4>2. SaveResult(p) => SetIntent(p, "completed") /\ "completed" \in Final
        BY DEF SaveResult, Final
      <4> QED BY <1>4, <4>1, <4>2, IntentEffect
    <3>4. CASE BudgetExhausted(p) \/ SourceClosed(p) \/ CancelDelivered(p)
      BY <1>4, <3>4, BudgetEffect, ClosedEffect, CancelEffect DEF ledgerVars
    <3> QED BY <1>4, <3>1, <3>2, <3>3, <3>4 DEF Execution
  <2> QED BY <2>1, <2>2 DEF Pending, Final
<1>5. CASE Stop \/ Process \/ Scan \/ Administration \/ UNCHANGED vars
  <2>1. UNCHANGED <<status, receipt>>
    BY <1>5, AdminEffect
       DEF Stop, RequestStop, StopVisit, Process, Shutdown, Close, Exit, Crash, Down, Start, Scan,
           ledgerVars, disk
  <2> QED BY <2>1 DEF Pending, Final
<1> QED BY <1>1, <1>2, <1>3, <1>4, <1>5 DEF Next

(* Where receipts can be read, the outcome that reached the disk is the one *)
(* that is charged, or one that costs the same, of every operation whose run*)
(* was not forgotten too soon.                                              *)
THEOREM TheReceiptDecides ==
  ASSUME Unreadable = FALSE
  PROVE  Spec => ReceiptDecides
<1>1. Init => ReceiptInv
  <2> SUFFICES ASSUME Init, NEW o \in Operations PROVE Receipted(o)
    BY DEF ReceiptInv
  <2>1. receipt[o] = None /\ scan = NoScan /\ fin = Idle
    BY DEF Init
  <2> QED BY <2>1 DEF Receipted, InFinish, NoScan
<1>2. Base /\ CoreInv /\ LiveInv /\ LiveInv' /\ ReceiptInv /\ [Next]_vars => ReceiptInv'
  BY ReceiptInvStep
<1>3. Base /\ CoreInv /\ ReceiptInv /\ [Next]_vars =>
        [\A o \in Operations \ forgotten : Pending(o) /\ receipt[o] # None =>
           /\ receipt'[o] # None
           /\ Charge(o, receipt'[o]) = Charge(o, receipt[o])
           /\ status'[o] \in Final => charged'[o] = Charge(o, receipt[o])]_vars
  BY ReceiptKept
<1> QED BY <1>1, <1>2, <1>3, LiveHolds, BaseHolds, PTL DEF Spec, ReceiptDecides

=============================================================================
