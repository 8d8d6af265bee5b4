----------------------------- MODULE TargetTasks -----------------------------
(***************************************************************************)
(* Automatic writing tasks (executor/app/domains/writing/target_tasks.py,  *)
(* run_gate.py, routers/target_tasks.py) and the conversation that would   *)
(* write in the same work (agent.py, generate_stream).                     *)
(*                                                                         *)
(* An isolated task (an experiment's, without owner) is written by a worker*)
(* process that its monitor spawns; an owned task by its monitor itself, in*)
(* the user's work.  Several parties write the journal of a task: the      *)
(* worker, the monitor and a stop request.  The verdict is the trusted     *)
(* record, which only the parent process writes.  All owned tasks and the  *)
(* conversation belong to one work.  Billed tasks are in BillingRuns.      *)
(***************************************************************************)
EXTENDS Integers, FiniteSets

CONSTANTS
  Isolated, Owned,  \* the task ids
  None,
  MaxRestarts       \* processes of the executor after the first

ASSUME KindsAssumption == Isolated \cap Owned = {} /\ None \notin Isolated \cup Owned
ASSUME RestartsAssumption == MaxRestarts \in Nat

VARIABLES
  trusted,    \* the trusted record: status and verified
  journal,    \* the status in record.json
  stopFile,   \* the tasks with a stop file
  claim,      \* the task named in the work's target-task.json
  delivered,  \* the tasks whose artifacts pass the parent's checks
  mode,       \* of the executor process: "up", "closing", "down"
  life,       \* its number
  monitor,    \* the coroutine _monitor or _run_normal
  cancelled,  \* the monitors with a cancellation to deliver
  stopper,    \* what the stop request of a task waits for
  worker,     \* the worker process that each life spawned for a task
  chat        \* the conversation

disk == <<trusted, journal, stopFile, claim, delivered>>
proc == <<mode, life>>
vars == <<disk, proc, monitor, cancelled, stopper, worker, chat>>

Tasks == Isolated \cup Owned
Lives == 0..MaxRestarts

Terminal == {"completed", "failed", "stopped"}
Unfinished == {"pending", "running", "recovering", "interrupted", "stopping"}
Statuses == Terminal \cup Unfinished

-----------------------------------------------------------------------------
Admitted(t) == trusted[t].status # "absent"

Verified(t) == trusted[t].verified /\ trusted[t].status \in Terminal

(* TargetTaskManager.result, its status.                                    *)
Result(t) ==
  IF trusted[t].verified THEN trusted[t].status
  ELSE IF journal[t] \in Terminal THEN "recovering" ELSE journal[t]

Live(t) == monitor[t] # "none"

(* A worker whose parent has gone sees another parent process id.           *)
Orphan(k) == k # life \/ mode = "down"

(* The holder of worker.lock: a worker process from its preparation to its  *)
(* exit, or the monitor of an owned task.                                   *)
HoldsLock(t, k) == worker[t][k] \in {"prepare", "run", "exit"}

WorkerAlive(t) ==
  \/ \E k \in Lives : HoldsLock(t, k)
  \/ t \in Owned /\ monitor[t] \in {"prepare", "run", "ending"}

(* Whoever ends an unfinished task says why.                                *)
Ended(t) == IF t \in stopFile THEN "stopped" ELSE "interrupted"

SetJournal(t, s) == journal' = [journal EXCEPT ![t] = s]
SetMonitor(t, pc) == monitor' = [monitor EXCEPT ![t] = pc]
SetWorker(t, k, pc) == worker' = [worker EXCEPT ![t][k] = pc]
SetStopper(t, pc) == stopper' = [stopper EXCEPT ![t] = pc]

(* completion_checks on the artifacts there are.                            *)
Passes(t) == t \in delivered

(* The verdict on status s: completed is checked against the artifacts.     *)
Verdict(t, s) == IF s = "completed" /\ ~Passes(t) THEN "failed" ELSE s

(* verify_result, after the journal reached status s.                       *)
Verify(t, s) ==
  /\ trusted' = [trusted EXCEPT ![t] = [status |-> Verdict(t, s), verified |-> TRUE]]
  /\ SetJournal(t, Verdict(t, s))

(* _release_workspace with verdict s: the claim goes when the task is over. *)
Free(t, s) == IF t = claim /\ s \in Terminal THEN None ELSE claim

Init ==
  /\ trusted = [t \in Tasks |-> [status |-> "absent", verified |-> FALSE]]
  /\ journal = [t \in Tasks |-> "pending"]
  /\ stopFile = {} /\ delivered = {} /\ cancelled = {}
  /\ claim = None
  /\ mode = "up" /\ life = 0
  /\ monitor = [t \in Tasks |-> "none"]
  /\ stopper = [t \in Tasks |-> "none"]
  /\ worker = [t \in Tasks |-> [k \in Lives |-> "none"]]
  /\ chat = "idle"

-----------------------------------------------------------------------------
(* Requests, each one stretch of the event loop.                            *)

(* claim_target_workspace succeeds.                                         *)
ClaimFree(t) == claim \in {None, t}

ClaimFor(t) == IF t \in Owned THEN t ELSE claim

(* list_active_runs has no run of this work with status "running"; an owned *)
(* task writes with a recorder of its own.                                  *)
WorkIdle == chat \notin {"registered", "writing"}

(* Mutant: whoever has a record and no monitor is started again.            *)
OpenOnceMore(t) == Admitted(t)

Open(t) == Admitted(t) /\ ~Verified(t)

(* start, after the trusted record was found open and without a monitor.    *)
Begin(t) ==
  /\ trusted' = [trusted EXCEPT ![t] = [status |-> trusted[t].status, verified |-> FALSE]]
  /\ SetMonitor(t, "begin")

Submit(t) ==
  /\ mode = "up" /\ ~Admitted(t)
  /\ t \in Owned => WorkIdle /\ ClaimFree(t)
  /\ claim' = ClaimFor(t)
  /\ trusted' = [trusted EXCEPT ![t] = [status |-> "pending", verified |-> FALSE]]
  /\ SetMonitor(t, "begin")
  /\ UNCHANGED <<journal, stopFile, delivered, proc, cancelled, stopper, worker, chat>>

(* A request for an isolated task, submit or GET, starts it again.          *)
Poll(t) ==
  /\ mode = "up" /\ t \in Isolated
  /\ Open(t) /\ ~Live(t)
  /\ Begin(t)
  /\ UNCHANGED <<journal, stopFile, claim, delivered, proc, cancelled, stopper, worker, chat>>

(* Mutant: it does not look for an executor of an earlier process.          *)
StopRestBlind(t) == Verify(t, "stopped") /\ claim' = Free(t, "stopped")

(* The rest of a stop once no process of this parent is left: it is not over*)
(* while somebody holds worker.lock.                                        *)
StopRest(t) ==
  IF WorkerAlive(t)
  THEN SetJournal(t, "stopping") /\ UNCHANGED <<trusted, claim>>
  ELSE Verify(t, "stopped") /\ claim' = Free(t, "stopped")

(* stop up to its first await.  The process of this parent is known while   *)
(* its monitor is.                                                          *)
Stop(t) ==
  /\ mode = "up" /\ stopper[t] = "none"
  /\ Admitted(t) /\ Result(t) \notin Terminal
  /\ stopFile' = stopFile \cup {t}
  /\ cancelled' = IF t \in Owned /\ Live(t) THEN cancelled \cup {t} ELSE cancelled
  /\ \/ /\ t \in Owned /\ Live(t)
        /\ SetStopper(t, "monitor")
        /\ SetJournal(t, "stopping") /\ UNCHANGED <<trusted, claim>>
     \/ /\ t \in Isolated /\ monitor[t] \in {"wait", "tracing"}
        /\ SetStopper(t, "process")
        /\ SetJournal(t, "stopping") /\ UNCHANGED <<trusted, claim>>
     \/ /\ IF t \in Owned THEN ~Live(t) ELSE monitor[t] \notin {"wait", "tracing"}
        /\ StopRest(t) /\ UNCHANGED stopper
  /\ UNCHANGED <<delivered, proc, monitor, worker, chat>>

(* The wait of ten seconds for the monitor of an owned task ends.           *)
StopAfterMonitor(t) ==
  /\ stopper[t] = "monitor" /\ ~Live(t)
  /\ SetStopper(t, "none")
  /\ IF Result(t) \in Terminal THEN UNCHANGED <<trusted, journal, claim>> ELSE StopRest(t)
  /\ UNCHANGED <<stopFile, delivered, proc, monitor, cancelled, worker, chat>>

StopTimesOut(t) ==
  /\ stopper[t] = "monitor" /\ Live(t)
  /\ SetStopper(t, "none")
  /\ SetJournal(t, "stopping")
  /\ UNCHANGED <<trusted, stopFile, claim, delivered, proc, monitor, cancelled, worker, chat>>

(* The process has exited, by itself or not, see WorkerDies.                *)
StopAfterProcess(t) ==
  /\ stopper[t] = "process" /\ worker[t][life] = "none"
  /\ SetStopper(t, "none")
  /\ StopRest(t)
  /\ UNCHANGED <<stopFile, delivered, proc, monitor, cancelled, worker, chat>>

StopSteps(t) == StopAfterMonitor(t) \/ StopTimesOut(t) \/ StopAfterProcess(t)

-----------------------------------------------------------------------------
(* The monitor of an isolated task.                                         *)

(* Mutant: a stop that came before this process is not looked for.          *)
OverByReport(t) == journal[t] \in Terminal

OverAlready(t) == journal[t] \in Terminal \/ t \in stopFile

(* It waits for an executor of an earlier process, then looks at what there *)
(* is.                                                                      *)
MonitorBegins(t) ==
  /\ t \in Isolated /\ monitor[t] = "begin" /\ t \notin cancelled
  /\ ~WorkerAlive(t)
  /\ IF OverAlready(t)
     THEN /\ Verify(t, IF journal[t] \in Terminal THEN journal[t] ELSE "stopped")
          /\ SetMonitor(t, "none")
     ELSE /\ SetJournal(t, IF journal[t] = "pending" THEN "pending" ELSE "recovering")
          /\ SetMonitor(t, "prepare")
          /\ UNCHANGED trusted
  /\ UNCHANGED <<stopFile, claim, delivered, proc, cancelled, stopper, worker, chat>>

(* ensure_package, in a thread.                                             *)
PackageFails(t) ==
  /\ t \in Isolated /\ monitor[t] = "prepare" /\ t \notin cancelled
  /\ SetJournal(t, "interrupted")
  /\ SetMonitor(t, "none")
  /\ UNCHANGED <<trusted, stopFile, claim, delivered, proc, cancelled, stopper, worker, chat>>

Spawn(t) ==
  /\ t \in Isolated /\ monitor[t] = "prepare" /\ t \notin cancelled
  /\ IF t \in stopFile
     THEN SetMonitor(t, "none") /\ UNCHANGED worker
     ELSE SetMonitor(t, "wait") /\ SetWorker(t, life, "spawned")
  /\ UNCHANGED <<disk, proc, cancelled, stopper, chat>>

(* The process has exited.                                                  *)
ProcessGone(t) ==
  /\ monitor[t] = "wait" /\ t \notin cancelled
  /\ worker[t][life] = "none"
  /\ Verify(t, IF journal[t] \in Terminal THEN journal[t] ELSE "interrupted")
  /\ SetMonitor(t, "tracing")
  /\ UNCHANGED <<stopFile, claim, delivered, proc, cancelled, stopper, worker, chat>>

-----------------------------------------------------------------------------
(* The monitor of an owned task, _run_normal; it holds worker.lock.         *)

OwnedBegins(t) ==
  /\ t \in Owned /\ monitor[t] = "begin" /\ t \notin cancelled
  /\ IF OverAlready(t)
     THEN /\ Verify(t, IF journal[t] \in Terminal THEN journal[t] ELSE "stopped")
          /\ SetMonitor(t, "tracing")
     ELSE SetMonitor(t, "prepare") /\ UNCHANGED <<trusted, journal>>
  /\ UNCHANGED <<stopFile, claim, delivered, proc, cancelled, stopper, worker, chat>>

(* The package is there and _run_worker begins, or not.                     *)
OwnedPrepared(t) ==
  /\ t \in Owned /\ monitor[t] = "prepare" /\ t \notin cancelled
  /\ \/ /\ SetMonitor(t, "run")
        /\ SetJournal(t, "running")
        /\ UNCHANGED trusted
     \/ /\ Verify(t, "failed")
        /\ SetMonitor(t, "tracing")
  /\ UNCHANGED <<stopFile, claim, delivered, proc, cancelled, stopper, worker, chat>>

OwnedDelivers(t) ==
  /\ t \in Owned /\ monitor[t] = "run"
  /\ delivered' = delivered \cup {t}
  /\ UNCHANGED <<trusted, journal, stopFile, claim, proc, monitor, cancelled, stopper, worker, chat>>

(* _run_worker records how the writing ended and closes its recorder.       *)
OwnedRuns(t) ==
  /\ t \in Owned /\ monitor[t] = "run" /\ t \notin cancelled
  /\ \/ t \in delivered /\ SetJournal(t, "completed")
     \/ SetJournal(t, "failed")
     \/ t \in stopFile /\ SetJournal(t, "stopped")
  /\ SetMonitor(t, "ending")
  /\ UNCHANGED <<trusted, stopFile, claim, delivered, proc, cancelled, stopper, worker, chat>>

OwnedEnds(t) ==
  /\ t \in Owned /\ monitor[t] = "ending" /\ t \notin cancelled
  /\ Verify(t, journal[t])
  /\ SetMonitor(t, "tracing")
  /\ UNCHANGED <<stopFile, claim, delivered, proc, cancelled, stopper, worker, chat>>

(* Either monitor, after it reported the traces.                            *)
MonitorEnds(t) ==
  /\ monitor[t] = "tracing" /\ t \notin cancelled
  /\ SetMonitor(t, "none")
  /\ claim' = IF t \in Owned THEN Free(t, Result(t)) ELSE claim
  /\ UNCHANGED <<trusted, journal, stopFile, delivered, proc, cancelled, stopper, worker, chat>>

(* A cancellation arrives at the await where the monitor is.  One that has  *)
(* not begun never does; one that reports traces skips the release.         *)
CancelArrives(t) ==
  /\ t \in cancelled
  /\ cancelled' = cancelled \ {t}
  /\ \/ /\ t \in Isolated \/ monitor[t] \in {"begin", "tracing"}
        /\ SetMonitor(t, "none")
        /\ UNCHANGED <<trusted, journal>>
     \/ /\ t \in Owned /\ monitor[t] \in {"prepare", "ending"}
        /\ Verify(t, IF journal[t] \in Terminal THEN journal[t] ELSE Ended(t))
        /\ SetMonitor(t, "tracing")
     \/ /\ t \in Owned /\ monitor[t] = "run"
        /\ SetJournal(t, Ended(t))
        /\ SetMonitor(t, "ending")
        /\ UNCHANGED trusted
  /\ UNCHANGED <<stopFile, claim, delivered, proc, stopper, worker, chat>>

MonitorSteps(t) ==
  \/ MonitorBegins(t) \/ PackageFails(t) \/ Spawn(t) \/ ProcessGone(t)
  \/ OwnedBegins(t) \/ OwnedPrepared(t) \/ OwnedRuns(t) \/ OwnedEnds(t)
  \/ MonitorEnds(t) \/ CancelArrives(t)

-----------------------------------------------------------------------------
(* The worker process of life k, which survives its parent.                 *)

WorkerUnchanged == UNCHANGED <<trusted, stopFile, claim, proc, monitor, cancelled, stopper, chat>>

(* Mutant: the lock is taken over from whoever holds it.                    *)
LockIgnored(t) == TRUE

LockFree(t) == ~WorkerAlive(t)

(* The lock is not waited for.                                              *)
WorkerLocks(t, k) ==
  /\ worker[t][k] = "spawned"
  /\ SetWorker(t, k, IF LockFree(t) THEN "prepare" ELSE "none")
  /\ UNCHANGED <<journal, delivered>> /\ WorkerUnchanged

(* watch_stop gets its turn before the writing begins.                      *)
WorkerBegins(t, k) ==
  /\ worker[t][k] = "prepare"
  /\ ~Orphan(k) /\ t \notin stopFile
  /\ SetWorker(t, k, "run")
  /\ SetJournal(t, "running")
  /\ UNCHANGED delivered /\ WorkerUnchanged

WorkerCancelled(t, k) ==
  /\ worker[t][k] \in {"prepare", "run"}
  /\ Orphan(k) \/ t \in stopFile
  /\ SetWorker(t, k, "exit")
  /\ SetJournal(t, Ended(t))
  /\ UNCHANGED delivered /\ WorkerUnchanged

WorkerDelivers(t, k) ==
  /\ worker[t][k] = "run"
  /\ delivered' = delivered \cup {t}
  /\ UNCHANGED <<journal, worker>> /\ WorkerUnchanged

(* A candidate may report an end that is not so.                            *)
WorkerReports(t, k, s) ==
  /\ \/ worker[t][k] = "run"
     \/ worker[t][k] = "prepare" /\ s = "failed"
  /\ SetWorker(t, k, "exit")
  /\ SetJournal(t, s)
  /\ UNCHANGED delivered /\ WorkerUnchanged

WorkerExits(t, k) ==
  /\ worker[t][k] = "exit"
  /\ SetWorker(t, k, "none")
  /\ UNCHANGED <<journal, delivered>> /\ WorkerUnchanged

(* Killed, by the stop request after ten seconds or by the system.          *)
WorkerDies(t, k) ==
  /\ worker[t][k] \in {"spawned", "prepare", "run"}
  /\ SetWorker(t, k, "none")
  /\ UNCHANGED <<journal, delivered>> /\ WorkerUnchanged

WorkerSteps(t, k) ==
  \/ WorkerLocks(t, k) \/ WorkerBegins(t, k) \/ WorkerCancelled(t, k)
  \/ WorkerDelivers(t, k) \/ WorkerExits(t, k) \/ WorkerDies(t, k)
  \/ \E s \in {"completed", "failed"} : WorkerReports(t, k, s)

-----------------------------------------------------------------------------
(* The conversation: generate_stream asks for the reason to block before it *)
(* prepares and again, under the mutation lock, before it writes.           *)

ChatUnchanged == UNCHANGED <<disk, proc, monitor, cancelled, stopper, worker>>

ChatBegins ==
  /\ mode = "up" /\ claim = None
  /\ \/ chat = "idle" /\ chat' = "checked"
     \/ chat = "waiting" /\ chat' = "resuming"
  /\ ChatUnchanged

(* create_run or resume_run: the run is in list_active_runs.                *)
ChatRegisters ==
  /\ mode = "up" /\ chat \in {"checked", "resuming"}
  /\ chat' = "registered"
  /\ ChatUnchanged

(* Mutant: only asked before the preparation.                               *)
ChatWritesUnasked ==
  /\ mode = "up" /\ chat = "registered"
  /\ chat' = "writing"
  /\ ChatUnchanged

ChatWrites ==
  /\ mode = "up" /\ chat = "registered"
  /\ chat' = IF claim = None THEN "writing" ELSE "idle"
  /\ ChatUnchanged

(* The round ends, or waits for the user's answer.                          *)
ChatEnds ==
  /\ mode = "up" /\ chat = "writing"
  /\ chat' \in {"idle", "waiting"}
  /\ ChatUnchanged

ChatSteps == ChatBegins \/ ChatRegisters \/ ChatWrites \/ ChatEnds

-----------------------------------------------------------------------------
(* The executor process.                                                    *)

(* The lifespan ends after the requests did; close cancels the monitors.    *)
Close ==
  /\ mode = "up" /\ life < MaxRestarts
  /\ \A t \in Tasks : stopper[t] = "none"
  /\ chat \in {"idle", "waiting"}
  /\ mode' = "closing"
  /\ cancelled' = {t \in Tasks : Live(t)}
  /\ UNCHANGED <<disk, life, monitor, stopper, worker, chat>>

Down ==
  /\ mode' = "down"
  /\ monitor' = [t \in Tasks |-> "none"]
  /\ stopper' = [t \in Tasks |-> "none"]
  /\ cancelled' = {}
  /\ chat' = IF chat \in {"waiting", "resuming"} THEN "waiting" ELSE "idle"
  /\ UNCHANGED <<disk, life, worker>>

Exit == mode = "closing" /\ (\A t \in Tasks : ~Live(t)) /\ Down

Crash == mode # "down" /\ life < MaxRestarts /\ Down

(* The process dies inside submit, between the claim and the record.        *)
CrashInSubmit(t) ==
  /\ mode = "up" /\ life < MaxRestarts
  /\ t \in Owned /\ ~Admitted(t) /\ WorkIdle /\ ClaimFree(t)
  /\ mode' = "down"
  /\ claim' = t
  /\ monitor' = [u \in Tasks |-> "none"]
  /\ stopper' = [u \in Tasks |-> "none"]
  /\ cancelled' = {}
  /\ chat' = IF chat \in {"waiting", "resuming"} THEN "waiting" ELSE "idle"
  /\ UNCHANGED <<trusted, journal, stopFile, delivered, life, worker>>

(* recover starts every task without a verdict.                             *)
Restart ==
  /\ mode = "down"
  /\ mode' = "up" /\ life' = life + 1
  /\ LET open == {t \in Tasks : Open(t)} IN
       /\ trusted' = [t \in Tasks |-> [status |-> trusted[t].status,
                                       verified |-> trusted[t].verified /\ t \notin open]]
       /\ monitor' = [t \in Tasks |-> IF t \in open THEN "begin" ELSE "none"]
  /\ UNCHANGED <<journal, stopFile, claim, delivered, cancelled, stopper, worker, chat>>

Process == Close \/ Exit \/ Crash \/ Restart \/ \E t \in Tasks : CrashInSubmit(t)

Next ==
  \/ \E t \in Tasks : Submit(t) \/ Poll(t) \/ Stop(t) \/ StopSteps(t) \/ MonitorSteps(t)
  \/ \E t \in Tasks : OwnedDelivers(t)
  \/ \E t \in Tasks, k \in Lives : WorkerSteps(t, k)
  \/ ChatSteps \/ Process

(* The event loop serves ready coroutines; a worker's watcher looks every   *)
(* 0.2 seconds; the service is restarted; an experiment's runner asks for   *)
(* its tasks until they are over; a user repeats a stop that was only       *)
(* accepted.                                                                *)
Fairness ==
  /\ WF_vars(Restart) /\ WF_vars(Exit)
  /\ \A t \in Tasks :
       /\ WF_vars(MonitorSteps(t)) /\ WF_vars(StopSteps(t)) /\ WF_vars(Poll(t))
       /\ WF_vars(t \in Owned \cap stopFile /\ Stop(t))
       /\ \A k \in Lives :
            WF_vars(WorkerLocks(t, k) \/ WorkerCancelled(t, k) \/ WorkerExits(t, k))

Spec == Init /\ [][Next]_vars
FairSpec == Spec /\ Fairness

-----------------------------------------------------------------------------
(* Every variable has its type; a task that was never admitted has no       *)
(* monitor, stop request or worker.                                         *)
TypeOK ==
  /\ trusted \in [Tasks -> [status : Statuses \cup {"absent"}, verified : BOOLEAN]]
  /\ journal \in [Tasks -> Statuses]
  /\ stopFile \subseteq Tasks /\ delivered \subseteq Tasks /\ cancelled \subseteq Tasks
  /\ claim \in Owned \cup {None}
  /\ mode \in {"up", "closing", "down"} /\ life \in Lives
  /\ monitor \in [Tasks -> {"none", "begin", "prepare", "wait", "run", "ending", "tracing"}]
  /\ stopper \in [Tasks -> {"none", "monitor", "process"}]
  /\ worker \in [Tasks -> [Lives -> {"none", "spawned", "prepare", "run", "exit"}]]
  /\ chat \in {"idle", "checked", "registered", "writing", "waiting", "resuming"}
  /\ \A t \in Tasks : ~Admitted(t) =>
       ~Live(t) /\ stopper[t] = "none" /\ \A k \in Lives : worker[t][k] = "none"

(* One writer: of the owned tasks of a work and the conversation at most one*)
(* writes, and a task that writes is the one the claim names, although the  *)
(* admission of a task and the checks of a conversation have awaits between *)
(* them and tasks survive restarts.                                         *)
Writers == {t \in Owned : monitor[t] = "run"}

OneWriter ==
  /\ \A t \in Writers : claim = t
  /\ chat = "writing" => claim = None

(* One executor: worker.lock has one holder, whatever processes a restart   *)
(* left behind.                                                             *)
OneExecutor ==
  \A t \in Tasks : Cardinality({k \in Lives : HoldsLock(t, k)}) <= 1

(* A verdict is sound: once a task is verified nobody writes for it any more *)
(* and no process of this parent or an earlier one begins to, and completed  *)
(* means delivered: no report of a worker, however it ended, and no retry    *)
(* makes a task completed whose artifacts fail the checks.                   *)
VerdictIsSound ==
  \A t \in Tasks : Verified(t) =>
    /\ monitor[t] # "run" /\ \A k \in Lives : worker[t][k] # "run"
    /\ trusted[t].status = "completed" => t \in delivered

(* A verdict stays: no poll, restart, stop or late monitor reopens a        *)
(* verified task, none that was stopped or failed is completed after all,   *)
(* and a completed one is only lost to a stop that began before the verdict.*)
VerdictStays ==
  [][\A t \in Tasks : Verified(t) /\ trusted'[t] # trusted[t] =>
       /\ Verified(t)' /\ trusted'[t].status # "completed"
       /\ trusted[t].status = "completed" => stopper[t] # "none"]_vars

(* A stop is carried out: whatever crashes, restarts and late workers there *)
(* are in between, the task gets a verdict.                                 *)
StopEnds == \A t \in Tasks : t \in stopFile ~> Verified(t)

=============================================================================
