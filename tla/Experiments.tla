----------------------------- MODULE Experiments -----------------------------
(***************************************************************************)
(* An experiment of the evolution service                                  *)
(* (evolution/app/experiments/runner.py): its worker thread takes it       *)
(* through baseline, rounds of improvement, regression and validation by   *)
(* tasks of the executor and calls of judges, and recovers a publication;  *)
(* users stop it, publish it, restore it; the service is restarted.        *)
(*                                                                         *)
(* The worker reads the document at the start of a pass and works on its   *)
(* copy (mine), which it writes before and after every call; a call, and   *)
(* what the worker does until the next one, is one step.  Of the samples   *)
(* the model keeps those of the current phase, with one task each.         *)
(***************************************************************************)
EXTENDS Publication

CONSTANTS MaxCrashes

ASSUME CrashesAssumption == MaxCrashes \in Nat

VARIABLES
  mine,       \* the worker's copy of the document
  at,         \* where the worker is, "none" when there is no worker
  cur,        \* the sample it is busy with
  stopEvent,  \* _stops: a stop was requested of this process
  stopping,   \* a stop request that has yet to write the document
  shutdown,   \* the service is shutting down
  task,       \* the executor's task of a sample
  crashes

worker == <<mine, at, cur>>
vars == <<pubVars, worker, stopEvent, stopping, shutdown, task, crashes>>

Sampled == {"baseline", "exploration", "regression", "validation"}
Running == {"live", "stopping", "interrupted"}
TaskStates == Running \cup {"absent", "completed", "failed", "stopped"}
SampleOver == {"completed", "failed", "stopped"}
None == "none"

Fresh == [p \in Packages |-> [status |-> "pending", saved |-> FALSE, generated |-> FALSE]]
NoTask == [p \in Packages |-> "absent"]

Blank ==
  [status |-> "pending", phase |-> "baseline", round |-> 0, open |-> FALSE,
   explored |-> 0, regressed |-> 0, validated |-> 0, best |-> 0, passed |-> FALSE,
   approved |-> FALSE, pub |-> "not_started", published |-> 0, restored |-> 0,
   rollback |-> "none", asked |-> FALSE, sample |-> Fresh]

Init ==
  /\ doc = Blank /\ mine = Blank
  /\ versions = <<"base">> /\ orders = <<>>
  /\ lock = Free /\ detail = "none" /\ faults = 0
  /\ at = "top" /\ cur = None
  /\ stopEvent = FALSE /\ stopping = FALSE /\ shutdown = FALSE
  /\ task = NoTask /\ crashes = 0

-----------------------------------------------------------------------------
(* Steps of the worker.                                                     *)
Rest == UNCHANGED <<platform, detail, stopEvent, stopping, shutdown, crashes>>
Unlocked == UNCHANGED lock

IsStopped == stopEvent \/ shutdown

Sample(d, p, s) == [d EXCEPT !.sample[p].status = s]

(* The end of a pass: the copy is forgotten.                                *)
EndPass == at' = "top" /\ cur' = None /\ mine' = Blank

(* The copy is written, merged with a stop, and the worker goes on.         *)
Save(d, next, p) ==
  /\ lock = Free /\ Put(d) /\ mine' = Merged(d) /\ at' = next /\ cur' = p

SaveAndEnd(d) == lock = Free /\ Put(d) /\ EndPass
Drop == UNCHANGED doc /\ EndPass

(* ServiceUnavailable: what was changed is written, and tried again.        *)
Unavailable(d) == Fault /\ SaveAndEnd([d EXCEPT !.status = "recovering"])

NewSamples(d) == [d EXCEPT !.sample = Fresh]

Top ==
  /\ at = "top"
  /\ IF shutdown \/ ~(doc.status \in Active \/ NeedsRecovery(doc))
       THEN at' = "none" ELSE at' = "pass"
  /\ UNCHANGED <<doc, mine, cur, task, faults>> /\ Unlocked /\ Rest

(* The samples still to be done, with the outages of judges last.           *)
Pending(d) == {p \in Packages : d.sample[p].status \notin SampleOver}

Turn(d, p) ==
  /\ p \in Pending(d)
  /\ d.sample[p].status = "evaluation_error" =>
       \A q \in Pending(d) : d.sample[q].status = "evaluation_error"

(* Mutant of Dispatch: the task is started first and saved afterwards.      *)
DispatchUnsaved(d, p) ==
  at' = "start" /\ cur' = p /\ mine' = [Sample(d, p, "running") EXCEPT !.sample[p].saved = TRUE]
  /\ UNCHANGED doc

(* The request is saved before it is sent.                                  *)
Dispatch(d, p) ==
  Save([Sample(d, p, "running") EXCEPT !.sample[p].saved = TRUE], "check", p)

ProcessSample(d, p) ==
  \/ /\ d.sample[p].generated /\ Save(Sample(d, p, "scoring"), "score", p)
  \/ /\ ~d.sample[p].generated /\ d.sample[p].saved
     /\ mine' = d /\ at' = "poll" /\ cur' = p /\ UNCHANGED doc
  \/ /\ ~d.sample[p].generated /\ ~d.sample[p].saved /\ Dispatch(d, p)

(* A candidate of this round goes to exploration; or a round is opened.     *)
NextRound(d, fixed) ==
  IF fixed THEN [NewSamples(d) EXCEPT !.open = FALSE, !.phase = "exploration"]
  ELSE [d EXCEPT !.round = @ + 1, !.open = TRUE]

(* All samples of the phase are done: the results are compared.             *)
Decided(d, passed) ==
  CASE d.phase = "baseline" -> [d EXCEPT !.phase = "evolving"]
    [] d.phase = "exploration" ->
         LET seen == [d EXCEPT !.explored = d.round] IN
         IF passed THEN [NewSamples(seen) EXCEPT !.phase = "regression"]
         ELSE [seen EXCEPT !.phase = "evolving"]
    [] d.phase = "regression" ->
         LET seen == [d EXCEPT !.regressed = d.round] IN
         IF passed THEN [NewSamples(seen) EXCEPT !.phase = "validation", !.best = d.round]
         ELSE [seen EXCEPT !.phase = "evolving"]
    [] d.phase = "validation" ->
         [d EXCEPT !.validated = d.round, !.passed = passed /\ d.regressed = d.round,
                   !.phase = "review", !.sample = Fresh,
                   !.status = IF passed /\ d.regressed = d.round
                              THEN "awaiting_review" ELSE "validation_failed"]

Advance(d) ==
  \/ /\ d.phase \in Sampled /\ Pending(d) # {}
     /\ \E p \in Packages : Turn(d, p) /\ ProcessSample(d, p)
     /\ UNCHANGED task
  \/ /\ d.phase \in Sampled /\ Pending(d) = {}
     /\ \E passed \in BOOLEAN : SaveAndEnd(Decided(d, passed))
     /\ task' = NoTask
  \/ /\ d.phase = "evolving" /\ ~d.open /\ d.round < MaxRounds
     /\ Save(NextRound(d, FALSE), "improve", None) /\ UNCHANGED task
  \/ /\ d.phase = "evolving" /\ ~d.open /\ d.round = MaxRounds
     /\ SaveAndEnd([d EXCEPT !.status = "exhausted"]) /\ UNCHANGED task
  \/ /\ d.phase = "evolving" /\ d.open
     /\ mine' = d /\ at' = "improve" /\ UNCHANGED <<doc, cur, task>>

Pass ==
  /\ at = "pass"
  /\ \/ NeedsRecovery(doc) /\ mine' = doc /\ at' = "recover" /\ UNCHANGED <<doc, cur, task>>
     \/ /\ ~NeedsRecovery(doc) /\ doc.status \notin Active
        /\ Drop /\ UNCHANGED task
     \/ /\ ~NeedsRecovery(doc) /\ (doc.status = "stopping" \/ IsStopped)
        /\ doc.status \in Active
        /\ mine' = doc /\ at' = "stop" /\ UNCHANGED <<doc, cur, task>>
     \/ /\ ~NeedsRecovery(doc) /\ doc.status \in Active \ {"stopping"} /\ ~IsStopped
        /\ Advance([doc EXCEPT !.status = "running"])
  /\ UNCHANGED faults /\ Unlocked /\ Rest

-----------------------------------------------------------------------------
(* process_sample.                                                          *)

(* Between the saved request and the call the stop is asked for again.      *)
Check ==
  /\ at = "check"
  /\ \/ /\ IsStopped \/ mine.status = "stopping"
        /\ SaveAndEnd([Sample(mine, cur, "pending") EXCEPT !.sample[cur].saved = FALSE])
     \/ /\ ~IsStopped /\ mine.status # "stopping"
        /\ at' = "start" /\ UNCHANGED <<doc, mine, cur>>
  /\ UNCHANGED <<task, faults>> /\ Unlocked /\ Rest

(* What the executor answers of the task.                                   *)
Told(t) ==
  \/ t \in {"live", "stopping"} /\ SaveAndEnd(Sample(mine, cur, "running"))
  \/ t = "interrupted" /\ SaveAndEnd(Sample(mine, cur, "interrupted"))
  \/ t \in {"failed", "stopped"} /\ SaveAndEnd(Sample(mine, cur, t))
  \/ t = "completed" /\ Save([Sample(mine, cur, "scoring") EXCEPT !.sample[cur].generated = TRUE],
                             "score", cur)

Started == IF task[cur] = "absent" THEN [task EXCEPT ![cur] = "live"] ELSE task

Start ==
  /\ at = "start"
  /\ \/ task' = Started /\ Told(task'[cur]) /\ UNCHANGED faults
     \/ task[cur] = "absent" /\ SaveAndEnd(Sample(mine, cur, "failed"))
        /\ UNCHANGED <<task, faults>>
     \/ (* No answer; the executor started it or did not get it.              *)
        task' \in {task, Started} /\ Unavailable(mine)
  /\ Unlocked /\ Rest

(* A task that was interrupted is resumed by the question.                  *)
Resumed == IF task[cur] = "interrupted" THEN [task EXCEPT ![cur] = "live"] ELSE task

(* Mutant of Poll: a task that was never started counts as running.         *)
PollTrusting ==
  /\ at = "poll"
  /\ \/ task[cur] # "absent" /\ Told(task[cur]) /\ task' = Resumed /\ UNCHANGED faults
     \/ task[cur] = "absent" /\ Drop /\ UNCHANGED <<task, faults>>
     \/ task' \in {task, Resumed} /\ Unavailable(mine)
  /\ Unlocked /\ Rest

Poll ==
  /\ at = "poll"
  /\ \/ task[cur] # "absent" /\ Told(task[cur]) /\ task' = Resumed /\ UNCHANGED faults
     \/ task[cur] = "absent" /\ Dispatch(mine, cur) /\ UNCHANGED <<task, faults>>
     \/ task' \in {task, Resumed} /\ Unavailable(mine)
  /\ Unlocked /\ Rest

(* score_sample: a stop cancels it and its results are not written.         *)
Score ==
  /\ at = "score"
  /\ \/ SaveAndEnd(Sample(mine, cur, "completed")) /\ UNCHANGED faults
     \/ Fault /\ SaveAndEnd(Sample(mine, cur, "evaluation_error"))
     \/ IsStopped /\ Drop /\ UNCHANGED faults
  /\ UNCHANGED task /\ Unlocked /\ Rest

Improve ==
  /\ at = "improve"
  /\ \/ /\ ~IsStopped /\ SaveAndEnd(NextRound(mine, TRUE)) /\ task' = NoTask
        /\ UNCHANGED faults
     \/ SaveAndEnd([mine EXCEPT !.open = FALSE]) /\ UNCHANGED <<task, faults>>
     \/ Unavailable(mine) /\ UNCHANGED task
     \/ IsStopped /\ Drop /\ UNCHANGED <<task, faults>>
  /\ Unlocked /\ Rest

-----------------------------------------------------------------------------
(* The pass that stops: every task that may run is stopped, and again until *)
(* the executor says so.  A task it does not know was never started.        *)
Dispatched(d, p) == d.sample[p].status \in {"running", "interrupted"} /\ d.sample[p].saved

StopAnswers ==
  {a \in [Packages -> {"unasked", "over", "stopping", "unavailable"}] :
     \A p \in Packages :
       /\ a[p] = "unasked" <=> ~Dispatched(mine, p)
       /\ a[p] = "over" => task[p] # "stopping"}

Asked(t, a) ==
  CASE t \in Running /\ a = "over" -> "stopped"
    [] t \in Running /\ a = "stopping" -> "stopping"
    [] OTHER -> t

StillRunning(a) ==
  {p \in Packages : a[p] = "unavailable" \/ (a[p] = "stopping" /\ task[p] \in Running)}

StopPass ==
  /\ at = "stop"
  /\ \E a \in StopAnswers :
       LET waiting == StillRunning(a)
           rest == [mine EXCEPT !.sample = [p \in Packages |->
                      IF p \in waiting \/ mine.sample[p].status \in {"completed", "failed"}
                        THEN mine.sample[p]
                        ELSE [mine.sample[p] EXCEPT !.status = "stopped"]]]
       IN /\ task' = [p \in Packages |-> Asked(task[p], a[p])]
          /\ SaveAndEnd([rest EXCEPT !.status = IF waiting = {} THEN "stopped" ELSE "stopping"])
          /\ IF \E p \in Packages : a[p] = "unavailable" THEN Fault ELSE UNCHANGED faults
  /\ Unlocked /\ Rest

-----------------------------------------------------------------------------
(* A publication is recovered; when production cannot be asked, the copy    *)
(* read before is written back.                                             *)
RecoverRun ==
  /\ at = "recover" /\ lock = Free
  /\ \/ ~NeedsRecovery(doc) /\ Drop /\ UNCHANGED <<lock, faults>>
     \/ NeedsRecovery(doc) /\ Recover("worker") /\ at' = "confirm"
        /\ UNCHANGED <<mine, cur, faults>>
     \/ NeedsRecovery(doc) /\ NotFound /\ Put(Given(doc)) /\ EndPass
        /\ UNCHANGED <<lock, faults>>
     \/ NeedsRecovery(doc) /\ Fault /\ at' = "writeback" /\ UNCHANGED <<doc, lock, mine, cur>>
  /\ UNCHANGED task /\ Rest

WriteBack ==
  /\ at = "writeback" /\ SaveAndEnd(mine)
  /\ UNCHANGED <<lock, faults, task>> /\ Rest

(* The confirmation of the worker ends its pass.                            *)
Confirmed ==
  /\ lock.by = "worker" /\ Confirm /\ EndPass
  /\ UNCHANGED <<stopEvent, stopping, shutdown, task, crashes>>

(* What the executor may have done for a call whose answer nobody waits for. *)
CallLost ==
  {task} \cup CASE at = "start" -> {Started}
               [] at = "poll" -> {Resumed}
               [] at = "stop" -> {[p \in Packages |-> Asked(task[p], a[p])] : a \in StopAnswers}
               [] OTHER -> {}

(* An exception that nothing expects ends the experiment: the executor knows*)
(* no such task, or refuses the question.  A platform that refuses to tell  *)
(* the version in production, in recover_run, is left out.                  *)
WorkerFails ==
  /\ at \in {"start", "poll", "stop"} /\ Fault
  /\ SaveAndEnd([doc EXCEPT !.status = "failed"])
  /\ task' \in CallLost /\ Unlocked /\ Rest

WorkerStep ==
  \/ Top \/ Pass \/ Check \/ Start \/ Poll \/ Score \/ Improve \/ StopPass
  \/ RecoverRun \/ WriteBack \/ Confirmed \/ WorkerFails

-----------------------------------------------------------------------------
(* The executor ends, interrupts and stops its tasks.                       *)
TaskEnds(p) ==
  /\ \/ task[p] = "live" /\ task' \in {[task EXCEPT ![p] = s] : s \in {"completed", "failed"}}
     \/ task[p] = "stopping"
        /\ task' \in {[task EXCEPT ![p] = s] : s \in {"completed", "failed", "stopped"}}
  /\ UNCHANGED <<pubVars, worker, stopEvent, stopping, shutdown, crashes>>

TaskInterrupted(p) ==
  /\ task[p] = "live" /\ task' = [task EXCEPT ![p] = "interrupted"] /\ Fault
  /\ UNCHANGED <<doc, platform, lock, detail, worker, stopEvent, stopping, shutdown, crashes>>

(* request_stop: the event first, then the document, then a worker.         *)
RequestStop ==
  /\ ~stopEvent /\ stopEvent' = TRUE /\ stopping' = TRUE
  /\ UNCHANGED <<pubVars, worker, shutdown, task, crashes>>

StopWrite ==
  /\ stopping /\ lock = Free /\ stopping' = FALSE
  /\ Put(IF doc.status \in Active THEN [doc EXCEPT !.status = "stopping"] ELSE doc)
  /\ at' = IF at = "none" THEN "top" ELSE at
  /\ UNCHANGED <<platform, lock, detail, faults, mine, cur, stopEvent, shutdown, task, crashes>>

Shutdown ==
  /\ ~shutdown /\ crashes < MaxCrashes /\ shutdown' = TRUE
  /\ UNCHANGED <<pubVars, worker, stopEvent, stopping, task, crashes>>

(* The process ends, at any point, and recover_runs begins the next.        *)
Restart ==
  /\ crashes < MaxCrashes /\ crashes' = crashes + 1
  /\ doc' = IF doc.status \in Active \ {"stopping"} /\ ~NeedsRecovery(doc)
            THEN [doc EXCEPT !.status = "recovering"] ELSE doc
  /\ at' = IF doc.status \in Active \/ NeedsRecovery(doc) THEN "top" ELSE "none"
  /\ mine' = Blank /\ cur' = None /\ stopEvent' = FALSE /\ stopping' = FALSE
  /\ shutdown' = FALSE /\ PublicationLost /\ task' \in CallLost

OutsideWorker == UNCHANGED <<worker, stopEvent, stopping, shutdown, task, crashes>>

Publish ==
  \/ (PlatformStep \/ Request \/ DetailStep) /\ OutsideWorker
  \/ lock.by = "api" /\ CallStep /\ OutsideWorker

Next ==
  \/ WorkerStep \/ Publish \/ RequestStop \/ StopWrite \/ Shutdown \/ Restart
  \/ \E p \in Packages : TaskEnds(p) \/ TaskInterrupted(p)

Spec == Init /\ [][Next]_vars

Fairness ==
  /\ SF_vars(WorkerStep) /\ SF_vars(StopWrite) /\ WF_vars(shutdown /\ Restart)
  /\ WF_vars(lock.by = "api" /\ CallStep /\ OutsideWorker)
  /\ WF_vars((\E i \in 1..Sent : Decide(i)) /\ OutsideWorker)
  /\ \A p \in Packages : WF_vars(TaskEnds(p))

FairSpec == Spec /\ Fairness

-----------------------------------------------------------------------------
(* Properties.                                                              *)
Documents ==
  [status : Statuses, phase : Phases, round : 0..MaxRounds, open : BOOLEAN,
   explored : 0..MaxRounds, regressed : 0..MaxRounds, validated : 0..MaxRounds,
   best : 0..MaxRounds, passed : BOOLEAN, approved : BOOLEAN,
   pub : {"not_started", "publishing", "failed", "unconfirmed", "activated", "restored"},
   published : 0..Current, restored : 0..Current,
   rollback : {"none", "restoring", "failed", "restored"}, asked : BOOLEAN,
   sample : [Packages ->
     [status : SampleStatuses, saved : BOOLEAN, generated : BOOLEAN]]]

(* Types; versions that the document names exist, and a call is made by who  *)
(* has the lock.                                                             *)
TypeOK ==
  /\ versions \in Seq(Commits) /\ Current > 0
  /\ orders \in Seq([what : {"promote", "restore"}, expect : 1..Current,
                      state : {"open", "applied", "refused", "failed"}, version : 0..Current])
  /\ Sent <= MaxOrders
  /\ doc \in Documents /\ mine \in Documents
  /\ lock \in [by : {"nobody", "api", "worker"},
                at : {"none", "promote", "ask", "restore", "confirm"},
                version : 0..Current, restoring : BOOLEAN]
  /\ lock.by = "nobody" <=> lock.at = "none"
  /\ lock.by = "worker" <=> at = "confirm"
  /\ detail \in {"none", "read", "stale"}
  /\ at \in {"none", "top", "pass", "check", "start", "poll", "score", "improve", "stop",
             "recover", "confirm", "writeback"}
  /\ cur \in Packages \cup {None}
  /\ stopEvent \in BOOLEAN /\ stopping \in BOOLEAN /\ shutdown \in BOOLEAN
  /\ task \in [Packages -> TaskStates]
  /\ faults \in 0..MaxFaults /\ crashes \in 0..MaxCrashes

(* A sample that is over has no task running, whatever answers were lost and *)
(* wherever the service ended: no work is left behind by a stopped           *)
(* experiment or beside a newer phase (runner.py: process_sample,            *)
(* advance_one).                                                             *)
NoTaskLeft ==
  \A p \in Packages : doc.sample[p].status \in SampleOver => task[p] \notin Running

Applied(what) == {i \in 1..Sent : orders[i].what = what /\ orders[i].state = "applied"}

(* However often a publication is repeated, times out, is decided late or is *)
(* forgotten by a stale write, the experiment is promoted once at most.      *)
AtMostOnePromotion == Cardinality(Applied("promote")) <= 1

(* A restore takes the candidate out of production and nothing else: never   *)
(* what somebody else released afterwards.                                   *)
RestoreIsOwn == \A i \in Applied("restore") : versions[orders[i].version - 1] = "cand"

(* What the document says is true.  A candidate that may be published went   *)
(* through exploration, regression and validation in one and the same round, *)
(* the one recorded as best; an activated one was released as that version   *)
(* after an approval; a restored one was followed by the old commit.         *)
OutcomeIsTrue ==
  /\ doc.passed => /\ doc.best = doc.round
                   /\ doc.explored = doc.best /\ doc.regressed = doc.best
                   /\ doc.validated = doc.best
  /\ doc.published # 0 => versions[doc.published] = "cand" /\ doc.approved
  /\ doc.restored # 0 => /\ versions[doc.restored] = "base" /\ doc.asked
                         /\ doc.published < doc.restored
  /\ doc.status = "activated" => doc.published # 0
  /\ doc.status = "restored" => doc.restored # 0

(* An experiment that ended stays as it ended and one that is being stopped  *)
(* is not resumed: against copies of the worker read before.                 *)
EndStays ==
  [][/\ doc.status \in Ended => doc'.status = doc.status
     /\ doc.status = "stopping" => doc'.status \in {"stopping", "stopped"}]_vars

(* No experiment is left under way for good: it comes to an end or to its    *)
(* review, and a publication or a restore that was begun gets an outcome,    *)
(* through lost answers, interrupted tasks, a shutdown or a crash.           *)
Settled == doc.status \notin Active \cup {"publishing"} /\ doc.rollback # "restoring"

ComesToRest == []<>Settled

=============================================================================
