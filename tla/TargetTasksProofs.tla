-------------------------- MODULE TargetTasksProofs --------------------------
(***************************************************************************)
(* The automatic tasks, for every set of tasks and number of restarts: one *)
(* writer of a work, one executor of a task, verdicts that are sound and   *)
(* that stay.  IInv says for each point of a monitor, a stop request or a  *)
(* worker what the records may hold meanwhile.                             *)
(***************************************************************************)
EXTENDS TargetTasks, FiniteSetTheorems, TLAPS

RecordType == [status : Statuses \cup {"absent"}, verified : BOOLEAN]

(* Workers come from lives that were; each kind of task has its monitor.    *)
LifeInv ==
  /\ mode # "up" => life < MaxRestarts
  /\ \A t \in Tasks, k \in Lives : k > life => worker[t][k] = "none"
  /\ \A t \in Owned, k \in Lives : worker[t][k] = "none"
  /\ \A t \in Tasks : monitor[t] = "wait" => t \in Isolated
  /\ \A t \in Tasks : monitor[t] \in {"run", "ending"} => t \in Owned

(* A stop request has left its file; a closing process serves none and has  *)
(* cancelled the monitors of the isolated tasks.                            *)
StopInv ==
  /\ mode = "down" => \A t \in Tasks : ~Live(t) /\ stopper[t] = "none"
  /\ mode = "closing" => \A t \in Tasks : stopper[t] = "none" /\ (t \in Isolated /\ Live(t) => t \in cancelled)
  /\ \A t \in Isolated : t \in cancelled => mode = "closing"
  /\ \A t \in Tasks : /\ stopper[t] # "none" => t \in stopFile
                      /\ stopper[t] = "monitor" => t \in Owned
                      /\ stopper[t] = "process" => t \in Isolated

(* worker.lock has one holder.                                              *)
OneHolder == \A t \in Tasks : \A j, k \in Lives : HoldsLock(t, j) /\ HoldsLock(t, k) => j = k

(* A worker of this life has its monitor waiting for it and no verdict; one *)
(* of an earlier life is over before the monitor goes on.                   *)
ThisLife ==
  \A t \in Isolated :
    /\ mode = "up" /\ worker[t][life] # "none" => monitor[t] = "wait"
    /\ mode # "down" /\ worker[t][life] # "none" => ~trusted[t].verified
    /\ monitor[t] \in {"begin", "prepare"} /\ trusted[t].verified => t \in stopFile
    /\ monitor[t] \in {"prepare", "wait"} => \A k \in Lives : worker[t][k] = "run" => k = life

(* A verified task has no process that writes, and what is completed is     *)
(* delivered.                                                               *)
Sound ==
  \A t \in Tasks : Verified(t) =>
    /\ \A k \in Lives : worker[t][k] # "run"
    /\ trusted[t].status = "completed" => t \in delivered

(* The monitor of a task that a stop verified meanwhile has nothing to      *)
(* decide any more: the journal says how the task ended.                    *)
Late ==
  \A t \in Isolated : Verified(t) /\ monitor[t] \in {"begin", "prepare", "wait"} =>
     /\ stopper[t] = "none" /\ t \in stopFile
     /\ trusted[t].status # "completed" /\ journal[t] \in {"stopped", "failed"}

(* An owned task holds the claim of the work until it has a verdict and its *)
(* monitor is gone.                                                         *)
OwnedInv ==
  \A t \in Owned :
    /\ monitor[t] \in {"begin", "prepare", "run", "ending"} => ~trusted[t].verified
    /\ Admitted(t) /\ (Live(t) \/ ~Verified(t)) => claim = t

(* The conversation writes only in a work that no task claims.              *)
Talk == chat = "writing" => claim = None

IInv ==
  /\ TypeOK
  /\ LifeInv /\ StopInv /\ OneHolder /\ ThisLife /\ Sound /\ Late /\ OwnedInv /\ Talk

USE DEF Tasks, Lives, Terminal, Unfinished, Statuses, HoldsLock, Verified, Admitted, Live, RecordType

-----------------------------------------------------------------------------
(* What a verdict does to the two records, whoever gives it.                *)
Judged(t) == \E s \in Statuses : Verify(t, s)

(* A verdict keeps the types and the records of other tasks.                *)
LEMMA JudgedTypes ==
  ASSUME TypeOK, NEW t \in Tasks, Judged(t)
  PROVE  /\ trusted' \in [Tasks -> RecordType]
         /\ journal' \in [Tasks -> Statuses]
         /\ trusted'[t].status # "absent"
         /\ \A u \in Tasks : u # t => trusted'[u] = trusted[u]
<1>1. PICK s \in Statuses : Verify(t, s)
  BY DEF Judged
<1>2. Verdict(t, s) \in Statuses
  BY DEF Verdict
<1> QED BY <1>1, <1>2 DEF Verify, SetJournal, TypeOK

(* The rest of a stop gives a verdict or waits for another stop.            *)
LEMMA RestTypes ==
  ASSUME IInv, NEW t \in Tasks, StopRest(t)
  PROVE  (Judged(t) \/ (UNCHANGED trusted /\ journal' \in [Tasks -> Statuses])) /\ claim' \in Owned \cup {None}
BY DEF IInv, TypeOK, StopRest, SetJournal, Judged, Free

(* Spawn changes at most one entry of the workers, the one of this life.    *)
LEMMA SpawnUses ==
  ASSUME TypeOK, NEW t \in Tasks, Spawn(t)
  PROVE  \/ worker' = worker
         \/ worker' = [worker EXCEPT ![t] = [worker[t] EXCEPT ![life] = "spawned"]]
<1>1. CASE t \in stopFile BY <1>1 DEF Spawn
<1>2. CASE t \notin stopFile
  <2>1. worker' = [worker EXCEPT ![t][life] = "spawned"] BY <1>2 DEF Spawn, SetWorker
  <2> QED BY <2>1
<1> QED BY <1>1, <1>2

LEMMA SpawnWorker ==
  ASSUME TypeOK, NEW t \in Tasks, Spawn(t)
  PROVE  /\ worker' \in [Tasks -> [Lives -> {"none", "spawned", "prepare", "run", "exit"}]]
         /\ \A u \in Tasks : u # t => worker'[u] = worker[u]
         /\ \A u \in Tasks, k \in Lives : worker'[u][k] = worker[u][k] \/ worker'[u][k] = "spawned"
         /\ \A u \in Tasks, k \in Lives : k # life => worker'[u][k] = worker[u][k]
<1>1. CASE worker' = worker BY <1>1 DEF TypeOK
<1>2. CASE worker' = [worker EXCEPT ![t] = [worker[t] EXCEPT ![life] = "spawned"]]
  <2>1. [worker[t] EXCEPT ![life] = "spawned"] \in [Lives -> {"none", "spawned", "prepare", "run", "exit"}]
    BY DEF TypeOK
  <2> QED BY <1>2, <2>1 DEF TypeOK
<1> QED BY <1>1, <1>2, SpawnUses

-----------------------------------------------------------------------------
(* Each step keeps the invariant.                                           *)
LEMMA SubmitKeeps == ASSUME IInv, NEW t \in Tasks, Submit(t) PROVE IInv'
BY KindsAssumption, RestartsAssumption DEF IInv, TypeOK, LifeInv, StopInv,
  OneHolder, ThisLife, Sound, Late, OwnedInv, Talk, Submit, proc,
  SetMonitor, ClaimFor, ClaimFree, WorkIdle

LEMMA PollKeeps == ASSUME IInv, NEW t \in Tasks, Poll(t) PROVE IInv'
<1>1. TypeOK'
  <2>0. TypeOK BY DEF IInv
  <2>1. /\ trusted' \in [Tasks -> RecordType]
        /\ \A u \in Tasks : trusted'[u].status = trusted[u].status
    BY <2>0 DEF TypeOK, Poll, Begin
  <2> QED BY <2>0, <2>1 DEF TypeOK, Poll, Begin, Open, SetMonitor, proc
<1>2. LifeInv'
  BY DEF IInv, LifeInv, Poll, proc, Begin, SetMonitor
<1>3. StopInv'
  BY DEF IInv, StopInv, Poll, proc
<1>4. OneHolder'
  BY DEF IInv, OneHolder, Poll
<1>5. ThisLife'
  BY DEF IInv, TypeOK, ThisLife, Poll, proc, Begin, SetMonitor
<1>6. Sound'
  BY DEF IInv, Sound, Poll, Begin
<1>7. Late'
  BY DEF IInv, TypeOK, Late, Poll, Begin, SetMonitor
<1>8. OwnedInv'
  BY DEF IInv, TypeOK, OwnedInv, Poll, Begin, SetMonitor, Open
<1>9. Talk'
  BY DEF IInv, Talk, Poll
<1> QED BY <1>1, <1>2, <1>3, <1>4, <1>5, <1>6, <1>7, <1>8, <1>9 DEF IInv

LEMMA StopKeeps == ASSUME IInv, NEW t \in Tasks, Stop(t) PROVE IInv'
<1>1. TypeOK'
  <2>0. TypeOK /\ StopInv BY DEF IInv
  <2>1. Judged(t) \/ (UNCHANGED trusted /\ journal' \in [Tasks -> Statuses])
    BY <2>0, RestTypes DEF TypeOK, Judged, Stop, SetStopper, SetJournal, Result, proc
  <2>2. /\ trusted' \in [Tasks -> RecordType]
        /\ journal' \in [Tasks -> Statuses]
        /\ \A u \in Tasks : trusted'[u].status = "absent" => trusted[u].status = "absent"
    BY <2>0, <2>1, JudgedTypes DEF TypeOK
  <2> QED
    BY <2>0, <2>2, KindsAssumption, RestTypes DEF TypeOK, StopInv, Stop, SetStopper, SetJournal, Result, proc
<1>2. LifeInv'
  BY DEF IInv, LifeInv, Stop, proc
<1>3. StopInv'
  BY KindsAssumption DEF IInv, TypeOK, StopInv, LifeInv, Stop, proc,
    SetStopper
<1>4. OneHolder'
  BY DEF IInv, OneHolder, Stop
<1>5. ThisLife'
  BY DEF IInv, TypeOK, ThisLife, Stop, proc, StopRest, Verify
<1>6. Sound'
  BY DEF IInv, TypeOK, Sound, Stop, StopRest, Verify, Verdict, WorkerAlive
<1>7. Late'
  BY DEF IInv, TypeOK, Late, Stop, StopRest, SetStopper, SetJournal, Verify,
    Verdict, Result
<1>8. OwnedInv'
  BY DEF IInv, TypeOK, OwnedInv, Stop, StopRest, Verify, Verdict, Free
<1>9. Talk'
  BY DEF IInv, TypeOK, Talk, Stop, StopRest, Free
<1> QED BY <1>1, <1>2, <1>3, <1>4, <1>5, <1>6, <1>7, <1>8, <1>9 DEF IInv

LEMMA StopAfterMonitorKeeps == ASSUME IInv, NEW t \in Tasks, StopAfterMonitor(t) PROVE IInv'
<1>1. TypeOK'
  <2>0. TypeOK /\ StopInv BY DEF IInv
  <2>1. Judged(t) \/ (UNCHANGED trusted /\ journal' \in [Tasks -> Statuses])
    BY <2>0, RestTypes DEF TypeOK, Judged, StopAfterMonitor, SetStopper, proc
  <2>2. /\ trusted' \in [Tasks -> RecordType]
        /\ journal' \in [Tasks -> Statuses]
        /\ \A u \in Tasks : trusted'[u].status = "absent" => trusted[u].status = "absent"
    BY <2>0, <2>1, JudgedTypes DEF TypeOK
  <2> QED
    BY <2>0, <2>2, KindsAssumption, RestTypes DEF TypeOK, StopInv, StopAfterMonitor, SetStopper, proc
<1>2. LifeInv'
  BY DEF IInv, LifeInv, StopAfterMonitor, proc
<1>3. StopInv'
  BY DEF IInv, StopInv, StopAfterMonitor, proc, SetStopper
<1>4. OneHolder'
  BY DEF IInv, OneHolder, StopAfterMonitor
<1>5. ThisLife'
  <2>1. t \notin Isolated
    BY KindsAssumption DEF IInv, StopInv, StopAfterMonitor
  <2>2. \A u \in Isolated : trusted'[u] = trusted[u]
    BY <2>1 DEF IInv, TypeOK, StopAfterMonitor, StopRest, Verify
  <2>3. UNCHANGED <<stopFile, mode, life, monitor, worker>>
    BY DEF StopAfterMonitor, proc
  <2> QED BY <2>2, <2>3 DEF IInv, ThisLife
<1>6. Sound'
  BY DEF IInv, TypeOK, Sound, StopAfterMonitor, StopRest, Verify, Verdict,
    WorkerAlive
<1>7. Late'
  BY DEF IInv, TypeOK, Late, StopAfterMonitor, StopRest, SetStopper,
    SetJournal, Verify
<1>8. OwnedInv'
  <2>0. IInv /\ TypeOK /\ OwnedInv BY DEF IInv
  <2>1. UNCHANGED <<delivered, monitor, worker, chat, mode, life>>
    BY DEF StopAfterMonitor, proc
  <2>2. CASE UNCHANGED <<trusted, claim>>
    BY <2>0, <2>1, <2>2 DEF OwnedInv
  <2>3. CASE Verify(t, "stopped") /\ claim' = Free(t, "stopped") /\ ~WorkerAlive(t)
    <3>1. monitor[t] = "none" BY DEF StopAfterMonitor, Live
    <3>2. trusted' = [trusted EXCEPT ![t] = [status |-> "stopped", verified |-> TRUE]]
      BY <2>3 DEF Verify, Verdict
    <3>3. claim' = IF t = claim THEN None ELSE claim
      BY <2>3 DEF Free
    <3> QED BY <2>0, <2>1, <3>1, <3>2, <3>3, KindsAssumption DEF TypeOK, OwnedInv
  <2> QED BY <2>2, <2>3 DEF StopAfterMonitor, StopRest
<1>9. Talk'
  BY DEF IInv, TypeOK, Talk, StopAfterMonitor, StopRest, Free
<1> QED BY <1>1, <1>2, <1>3, <1>4, <1>5, <1>6, <1>7, <1>8, <1>9 DEF IInv

LEMMA StopTimesOutKeeps == ASSUME IInv, NEW t \in Tasks, StopTimesOut(t) PROVE IInv'
BY KindsAssumption, RestartsAssumption DEF IInv, TypeOK, LifeInv, StopInv,
  OneHolder, ThisLife, Sound, Late, OwnedInv, Talk, StopTimesOut, proc,
  SetStopper, SetJournal

LEMMA StopAfterProcessKeeps == ASSUME IInv, NEW t \in Tasks, StopAfterProcess(t) PROVE IInv'
<1>1. TypeOK'
  <2>0. TypeOK /\ StopInv BY DEF IInv
  <2>1. Judged(t) \/ (UNCHANGED trusted /\ journal' \in [Tasks -> Statuses])
    BY <2>0, RestTypes DEF TypeOK, Judged, StopAfterProcess, SetStopper, proc
  <2>2. /\ trusted' \in [Tasks -> RecordType]
        /\ journal' \in [Tasks -> Statuses]
        /\ \A u \in Tasks : trusted'[u].status = "absent" => trusted[u].status = "absent"
    BY <2>0, <2>1, JudgedTypes DEF TypeOK
  <2> QED
    BY <2>0, <2>2, KindsAssumption, RestTypes DEF TypeOK, StopInv, StopAfterProcess, SetStopper, proc
<1>2. LifeInv'
  BY DEF IInv, LifeInv, StopAfterProcess, proc
<1>3. StopInv'
  BY DEF IInv, StopInv, StopAfterProcess, proc, SetStopper
<1>4. OneHolder'
  BY DEF IInv, OneHolder, StopAfterProcess
<1>5. ThisLife'
  BY DEF IInv, TypeOK, ThisLife, LifeInv, StopInv, StopAfterProcess, proc,
    StopRest, Verify
<1>6. Sound'
  BY DEF IInv, TypeOK, Sound, StopAfterProcess, StopRest, Verify, Verdict,
    WorkerAlive
<1>7. Late'
  BY DEF IInv, TypeOK, Late, StopInv, ThisLife, StopAfterProcess, proc,
    StopRest, SetStopper, SetJournal, Verify, Verdict
<1>8. OwnedInv'
  BY KindsAssumption DEF IInv, TypeOK, LifeInv, StopInv, OneHolder, ThisLife,
    Sound, Late, OwnedInv, Talk, StopAfterProcess, proc, StopRest, Verify,
    Free
<1>9. Talk'
  BY DEF IInv, TypeOK, Talk, StopAfterProcess, StopRest, Free
<1> QED BY <1>1, <1>2, <1>3, <1>4, <1>5, <1>6, <1>7, <1>8, <1>9 DEF IInv

LEMMA MonitorBeginsKeeps == ASSUME IInv, NEW t \in Tasks, MonitorBegins(t) PROVE IInv'
<1>1. TypeOK'
  <2>0. TypeOK /\ StopInv BY DEF IInv
  <2>1. Judged(t) \/ (UNCHANGED trusted /\ journal' \in [Tasks -> Statuses])
    BY <2>0 DEF TypeOK, Judged, MonitorBegins, OverAlready, SetMonitor, SetJournal, proc
  <2>2. /\ trusted' \in [Tasks -> RecordType]
        /\ journal' \in [Tasks -> Statuses]
        /\ \A u \in Tasks : trusted'[u].status = "absent" => trusted[u].status = "absent"
    BY <2>0, <2>1, JudgedTypes DEF TypeOK
  <2> QED
    BY <2>0, <2>2, KindsAssumption DEF TypeOK, StopInv, MonitorBegins, OverAlready, SetMonitor, SetJournal, proc
<1>2. LifeInv'
  BY DEF IInv, TypeOK, LifeInv, MonitorBegins, proc, SetMonitor
<1>3. StopInv'
  BY DEF IInv, StopInv, MonitorBegins, proc
<1>4. OneHolder'
  BY DEF IInv, OneHolder, MonitorBegins
<1>5. ThisLife'
  BY DEF IInv, TypeOK, ThisLife, LifeInv, StopInv, MonitorBegins, proc,
    Verify, SetMonitor, WorkerAlive
<1>6. Sound'
  BY DEF IInv, TypeOK, Sound, MonitorBegins, Verify, Verdict, Passes,
    WorkerAlive
<1>7. Late'
  BY DEF IInv, TypeOK, Late, MonitorBegins, OverAlready, Verify, SetMonitor,
    SetJournal
<1>8. OwnedInv'
  BY DEF IInv, TypeOK, OwnedInv, MonitorBegins, Verify, SetMonitor
<1>9. Talk'
  BY DEF IInv, Talk, MonitorBegins
<1> QED BY <1>1, <1>2, <1>3, <1>4, <1>5, <1>6, <1>7, <1>8, <1>9 DEF IInv

LEMMA PackageFailsKeeps == ASSUME IInv, NEW t \in Tasks, PackageFails(t) PROVE IInv'
BY KindsAssumption, RestartsAssumption DEF IInv, TypeOK, LifeInv, StopInv,
  OneHolder, ThisLife, Sound, Late, OwnedInv, Talk, PackageFails, proc,
  SetMonitor, SetJournal

LEMMA SpawnKeeps == ASSUME IInv, NEW t \in Tasks, Spawn(t) PROVE IInv'
<1>1. TypeOK'
  <2>0. TypeOK BY DEF IInv
  <2>1. /\ monitor' \in [Tasks -> {"none", "begin", "prepare", "wait", "run", "ending", "tracing"}]
        /\ \A u \in Tasks : u # t => monitor'[u] = monitor[u]
    BY <2>0 DEF TypeOK, Spawn, SetMonitor
  <2>2. Admitted(t)
    BY <2>0 DEF TypeOK, Spawn
  <2>3. UNCHANGED <<trusted, journal, stopFile, claim, delivered, mode, life, cancelled, stopper, chat>>
    BY DEF Spawn, disk, proc
  <2> QED BY <2>0, <2>1, <2>2, <2>3, SpawnWorker DEF TypeOK
<1>2. LifeInv'
  <2>0. TypeOK /\ LifeInv BY DEF IInv
  <2>1. \A u \in Tasks : monitor'[u] = monitor[u] \/ (u \in Isolated /\ monitor'[u] \in {"none", "wait"})
    BY <2>0 DEF TypeOK, Spawn, SetMonitor
  <2>2. /\ UNCHANGED <<mode, life>>
        /\ t \in Isolated
    BY DEF Spawn, proc
  <2>3. \A u \in Tasks, k \in Lives : k > life => worker'[u][k] = "none"
    <3> SUFFICES ASSUME NEW u \in Tasks, NEW k \in Lives, k > life PROVE worker'[u][k] = "none"
      OBVIOUS
    <3>1. life \in Int /\ k \in Int
      BY <2>0, RestartsAssumption DEF TypeOK
    <3>2. k # life
      BY <3>1
    <3> QED BY <2>0, <3>2, SpawnWorker DEF LifeInv
  <2>4. \A u \in Owned : worker'[u] = worker[u]
    BY <2>0, <2>2, SpawnWorker, KindsAssumption
  <2> QED BY <2>0, <2>1, <2>2, <2>3, <2>4, KindsAssumption DEF LifeInv
<1>3. StopInv'
  BY DEF IInv, StopInv, Spawn, proc, disk
<1>4. OneHolder'
  <2>0. TypeOK /\ ThisLife /\ Sound /\ OneHolder BY DEF IInv
  <2> QED BY <2>0, SpawnWorker DEF TypeOK, Sound, OneHolder, Spawn, disk
<1>5. ThisLife'
  BY RestartsAssumption DEF IInv, TypeOK, LifeInv, StopInv, OneHolder,
    ThisLife, Spawn, proc, SetMonitor, SetWorker, disk
<1>6. Sound'
  <2>0. TypeOK /\ ThisLife /\ Sound /\ OneHolder BY DEF IInv
  <2> QED BY <2>0, SpawnWorker DEF TypeOK, Sound, OneHolder, Spawn, disk
<1>7. Late'
  BY DEF IInv, TypeOK, Late, Spawn, SetMonitor, disk
<1>8. OwnedInv'
  BY DEF IInv, TypeOK, OwnedInv, Spawn, SetMonitor, disk
<1>9. Talk'
  BY DEF IInv, Talk, Spawn, disk
<1> QED BY <1>1, <1>2, <1>3, <1>4, <1>5, <1>6, <1>7, <1>8, <1>9 DEF IInv

LEMMA ProcessGoneKeeps == ASSUME IInv, NEW t \in Tasks, ProcessGone(t) PROVE IInv'
BY KindsAssumption, RestartsAssumption DEF IInv, TypeOK, LifeInv, StopInv,
  OneHolder, ThisLife, Sound, Late, OwnedInv, Talk, ProcessGone, proc,
  SetMonitor, SetJournal, Verify, Verdict, Passes

LEMMA OwnedBeginsKeeps == ASSUME IInv, NEW t \in Tasks, OwnedBegins(t) PROVE IInv'
<1>1. TypeOK'
  <2>0. TypeOK /\ StopInv BY DEF IInv
  <2>1. Judged(t) \/ (UNCHANGED trusted /\ journal' \in [Tasks -> Statuses])
    BY <2>0 DEF TypeOK, Judged, OwnedBegins, OverAlready, SetMonitor, SetJournal, proc
  <2>2. /\ trusted' \in [Tasks -> RecordType]
        /\ journal' \in [Tasks -> Statuses]
        /\ \A u \in Tasks : trusted'[u].status = "absent" => trusted[u].status = "absent"
    BY <2>0, <2>1, JudgedTypes DEF TypeOK
  <2> QED
    BY <2>0, <2>2, KindsAssumption DEF TypeOK, StopInv, OwnedBegins, OverAlready, SetMonitor, SetJournal, proc
<1>2. LifeInv'
  BY DEF IInv, TypeOK, LifeInv, OwnedBegins, proc, SetMonitor
<1>3. StopInv'
  BY DEF IInv, TypeOK, StopInv, OwnedBegins, proc, SetMonitor
<1>4. OneHolder'
  BY DEF IInv, OneHolder, OwnedBegins
<1>5. ThisLife'
  BY DEF IInv, TypeOK, ThisLife, LifeInv, OwnedBegins, proc, Verify,
    SetMonitor
<1>6. Sound'
  BY DEF IInv, TypeOK, LifeInv, Sound, OwnedBegins, Verify, Verdict, Passes, SetJournal
<1>7. Late'
  BY DEF IInv, TypeOK, Late, OwnedBegins, Verify, SetMonitor, SetJournal
<1>8. OwnedInv'
  BY DEF IInv, TypeOK, OwnedInv, OwnedBegins, Verify, SetMonitor
<1>9. Talk'
  BY DEF IInv, Talk, OwnedBegins
<1> QED BY <1>1, <1>2, <1>3, <1>4, <1>5, <1>6, <1>7, <1>8, <1>9 DEF IInv

LEMMA OwnedPreparedKeeps == ASSUME IInv, NEW t \in Tasks, OwnedPrepared(t) PROVE IInv'
<1>1. TypeOK'
  <2>0. TypeOK /\ StopInv BY DEF IInv
  <2>1. Judged(t) \/ (UNCHANGED trusted /\ journal' \in [Tasks -> Statuses])
    BY <2>0 DEF TypeOK, Judged, OwnedPrepared, SetMonitor, SetJournal, proc
  <2>2. /\ trusted' \in [Tasks -> RecordType]
        /\ journal' \in [Tasks -> Statuses]
        /\ \A u \in Tasks : trusted'[u].status = "absent" => trusted[u].status = "absent"
    BY <2>0, <2>1, JudgedTypes DEF TypeOK
  <2> QED
    BY <2>0, <2>2, KindsAssumption DEF TypeOK, StopInv, OwnedPrepared, SetMonitor, SetJournal, proc
<1>2. LifeInv'
  BY DEF IInv, TypeOK, LifeInv, OwnedPrepared, proc, SetMonitor
<1>3. StopInv'
  BY DEF IInv, TypeOK, StopInv, OwnedPrepared, proc, SetMonitor
<1>4. OneHolder'
  BY DEF IInv, OneHolder, OwnedPrepared
<1>5. ThisLife'
  BY DEF IInv, TypeOK, ThisLife, LifeInv, OwnedPrepared, proc, Verify,
    SetMonitor
<1>6. Sound'
  BY DEF IInv, TypeOK, LifeInv, Sound, OwnedPrepared, Verify, Verdict, Passes, SetJournal
<1>7. Late'
  BY DEF IInv, TypeOK, Late, OwnedPrepared, Verify, SetMonitor, SetJournal
<1>8. OwnedInv'
  BY DEF IInv, TypeOK, OwnedInv, OwnedPrepared, Verify, SetMonitor
<1>9. Talk'
  BY DEF IInv, Talk, OwnedPrepared
<1> QED BY <1>1, <1>2, <1>3, <1>4, <1>5, <1>6, <1>7, <1>8, <1>9 DEF IInv

LEMMA OwnedRunsKeeps == ASSUME IInv, NEW t \in Tasks, OwnedRuns(t) PROVE IInv'
<1>1. TypeOK'
  <2>0. TypeOK /\ StopInv BY DEF IInv
  <2>1. Judged(t) \/ (UNCHANGED trusted /\ journal' \in [Tasks -> Statuses])
    BY <2>0 DEF TypeOK, Judged, OwnedRuns, SetMonitor, SetJournal, proc
  <2>2. /\ trusted' \in [Tasks -> RecordType]
        /\ journal' \in [Tasks -> Statuses]
        /\ \A u \in Tasks : trusted'[u].status = "absent" => trusted[u].status = "absent"
    BY <2>0, <2>1, JudgedTypes DEF TypeOK
  <2> QED
    BY <2>0, <2>2, KindsAssumption DEF TypeOK, StopInv, OwnedRuns, SetMonitor, SetJournal, proc
<1>2. LifeInv'
  BY DEF IInv, LifeInv, OwnedRuns, proc, SetMonitor
<1>3. StopInv'
  BY DEF IInv, StopInv, OwnedRuns, proc, SetMonitor
<1>4. OneHolder'
  BY DEF IInv, OneHolder, OwnedRuns
<1>5. ThisLife'
  BY DEF IInv, ThisLife, OwnedRuns, proc, SetMonitor
<1>6. Sound'
  BY DEF IInv, Sound, OwnedRuns
<1>7. Late'
  BY DEF IInv, TypeOK, Late, OwnedRuns, SetMonitor, SetJournal
<1>8. OwnedInv'
  BY DEF IInv, OwnedInv, OwnedRuns, SetMonitor
<1>9. Talk'
  BY DEF IInv, Talk, OwnedRuns
<1> QED BY <1>1, <1>2, <1>3, <1>4, <1>5, <1>6, <1>7, <1>8, <1>9 DEF IInv

LEMMA OwnedEndsKeeps == ASSUME IInv, NEW t \in Tasks, OwnedEnds(t) PROVE IInv'
BY KindsAssumption, RestartsAssumption DEF IInv, TypeOK, LifeInv, StopInv,
  OneHolder, ThisLife, Sound, Late, OwnedInv, Talk, OwnedEnds, proc, Verify,
  Verdict, Passes, SetMonitor, SetJournal

LEMMA MonitorEndsKeeps == ASSUME IInv, NEW t \in Tasks, MonitorEnds(t) PROVE IInv'
BY KindsAssumption, RestartsAssumption DEF IInv, TypeOK, LifeInv, StopInv,
  OneHolder, ThisLife, Sound, Late, OwnedInv, Talk, MonitorEnds, proc,
  SetMonitor, Free, Result

LEMMA CancelArrivesKeeps == ASSUME IInv, NEW t \in Tasks, CancelArrives(t) PROVE IInv'
<1>1. TypeOK'
  <2>0. TypeOK /\ StopInv BY DEF IInv
  <2>1. Judged(t) \/ (UNCHANGED trusted /\ journal' \in [Tasks -> Statuses])
    BY <2>0 DEF TypeOK, Judged, CancelArrives, SetMonitor, SetJournal, Ended, proc
  <2>2. /\ trusted' \in [Tasks -> RecordType]
        /\ journal' \in [Tasks -> Statuses]
        /\ \A u \in Tasks : trusted'[u].status = "absent" => trusted[u].status = "absent"
    BY <2>0, <2>1, JudgedTypes DEF TypeOK
  <2> QED
    BY <2>0, <2>2, KindsAssumption DEF TypeOK, StopInv, CancelArrives, SetMonitor, SetJournal, Ended, proc
<1>2. LifeInv'
  BY DEF IInv, TypeOK, LifeInv, CancelArrives, proc, SetMonitor
<1>3. StopInv'
  BY KindsAssumption DEF IInv, TypeOK, StopInv, CancelArrives, proc,
    SetMonitor
<1>4. OneHolder'
  BY DEF IInv, OneHolder, CancelArrives
<1>5. ThisLife'
  BY DEF IInv, TypeOK, ThisLife, LifeInv, StopInv, CancelArrives, proc,
    Verify, SetMonitor
<1>6. Sound'
  BY DEF IInv, TypeOK, Sound, LifeInv, CancelArrives, Verify, Verdict, Passes
<1>7. Late'
  BY KindsAssumption DEF IInv, TypeOK, Late, CancelArrives, Verify, Verdict, Passes, SetJournal, SetMonitor
<1>8. OwnedInv'
  BY DEF IInv, TypeOK, OwnedInv, CancelArrives, Verify, SetMonitor
<1>9. Talk'
  BY DEF IInv, Talk, CancelArrives
<1> QED BY <1>1, <1>2, <1>3, <1>4, <1>5, <1>6, <1>7, <1>8, <1>9 DEF IInv

LEMMA OwnedDeliversKeeps == ASSUME IInv, NEW t \in Tasks, OwnedDelivers(t) PROVE IInv'
BY KindsAssumption, RestartsAssumption DEF IInv, TypeOK, LifeInv, StopInv,
  OneHolder, ThisLife, Sound, Late, OwnedInv, Talk, OwnedDelivers, proc

LEMMA WorkerLocksKeeps == ASSUME IInv, NEW t \in Tasks, NEW k \in Lives, WorkerLocks(t, k) PROVE IInv'
BY KindsAssumption, RestartsAssumption DEF IInv, TypeOK, LifeInv, StopInv,
  OneHolder, ThisLife, Sound, Late, OwnedInv, Talk, WorkerLocks, proc,
  SetWorker, WorkerUnchanged, WorkerAlive, LockFree

LEMMA WorkerBeginsKeeps == ASSUME IInv, NEW t \in Tasks, NEW k \in Lives, WorkerBegins(t, k) PROVE IInv'
BY KindsAssumption, RestartsAssumption DEF IInv, TypeOK, LifeInv, StopInv,
  OneHolder, ThisLife, Sound, Late, OwnedInv, Talk, WorkerBegins, proc,
  SetWorker, SetJournal, WorkerUnchanged, Orphan

LEMMA WorkerCancelledKeeps == ASSUME IInv, NEW t \in Tasks, NEW k \in Lives, WorkerCancelled(t, k) PROVE IInv'
BY KindsAssumption, RestartsAssumption DEF IInv, TypeOK, LifeInv, StopInv,
  OneHolder, ThisLife, Sound, Late, OwnedInv, Talk, WorkerCancelled, proc,
  SetWorker, SetJournal, WorkerUnchanged, Orphan, Ended

LEMMA WorkerDeliversKeeps == ASSUME IInv, NEW t \in Tasks, NEW k \in Lives, WorkerDelivers(t, k) PROVE IInv'
BY KindsAssumption, RestartsAssumption DEF IInv, TypeOK, LifeInv, StopInv,
  OneHolder, ThisLife, Sound, Late, OwnedInv, Talk, WorkerDelivers, proc,
  WorkerUnchanged

LEMMA WorkerExitsKeeps == ASSUME IInv, NEW t \in Tasks, NEW k \in Lives, WorkerExits(t, k) PROVE IInv'
BY KindsAssumption, RestartsAssumption DEF IInv, TypeOK, LifeInv, StopInv,
  OneHolder, ThisLife, Sound, Late, OwnedInv, Talk, WorkerExits, proc,
  SetWorker, WorkerUnchanged

LEMMA WorkerDiesKeeps == ASSUME IInv, NEW t \in Tasks, NEW k \in Lives, WorkerDies(t, k) PROVE IInv'
BY KindsAssumption, RestartsAssumption DEF IInv, TypeOK, LifeInv, StopInv,
  OneHolder, ThisLife, Sound, Late, OwnedInv, Talk, WorkerDies, proc,
  SetWorker, WorkerUnchanged

LEMMA WorkerReportsKeeps ==
  ASSUME IInv, NEW t \in Tasks, NEW k \in Lives, NEW s \in {"completed", "failed"}, WorkerReports(t, k, s)
  PROVE  IInv'
BY KindsAssumption, RestartsAssumption DEF IInv, TypeOK, LifeInv, StopInv,
  OneHolder, ThisLife, Sound, Late, OwnedInv, Talk, WorkerReports, proc,
  SetWorker, SetJournal, WorkerUnchanged

LEMMA ChatBeginsKeeps == ASSUME IInv, ChatBegins PROVE IInv'
BY KindsAssumption, RestartsAssumption DEF IInv, TypeOK, LifeInv, StopInv,
  OneHolder, ThisLife, Sound, Late, OwnedInv, Talk, ChatBegins, proc,
  ChatUnchanged, disk

LEMMA ChatRegistersKeeps == ASSUME IInv, ChatRegisters PROVE IInv'
BY KindsAssumption, RestartsAssumption DEF IInv, TypeOK, LifeInv, StopInv,
  OneHolder, ThisLife, Sound, Late, OwnedInv, Talk, ChatRegisters, proc,
  ChatUnchanged, disk

LEMMA ChatWritesKeeps == ASSUME IInv, ChatWrites PROVE IInv'
BY KindsAssumption, RestartsAssumption DEF IInv, TypeOK, LifeInv, StopInv,
  OneHolder, ThisLife, Sound, Late, OwnedInv, Talk, ChatWrites, proc,
  ChatUnchanged, disk

LEMMA ChatEndsKeeps == ASSUME IInv, ChatEnds PROVE IInv'
BY KindsAssumption, RestartsAssumption DEF IInv, TypeOK, LifeInv, StopInv,
  OneHolder, ThisLife, Sound, Late, OwnedInv, Talk, ChatEnds, proc,
  ChatUnchanged, disk

LEMMA CloseKeeps == ASSUME IInv, Close PROVE IInv'
BY KindsAssumption, RestartsAssumption DEF IInv, TypeOK, LifeInv, StopInv,
  OneHolder, ThisLife, Sound, Late, OwnedInv, Talk, Close, proc, disk

LEMMA ExitKeeps == ASSUME IInv, Exit PROVE IInv'
BY KindsAssumption, RestartsAssumption DEF IInv, TypeOK, LifeInv, StopInv,
  OneHolder, ThisLife, Sound, Late, OwnedInv, Talk, Exit, proc, Down, disk

LEMMA CrashKeeps == ASSUME IInv, Crash PROVE IInv'
BY KindsAssumption, RestartsAssumption DEF IInv, TypeOK, LifeInv, StopInv,
  OneHolder, ThisLife, Sound, Late, OwnedInv, Talk, Crash, proc, Down, disk

LEMMA CrashInSubmitKeeps == ASSUME IInv, NEW t \in Tasks, CrashInSubmit(t) PROVE IInv'
BY KindsAssumption, RestartsAssumption DEF IInv, TypeOK, LifeInv, StopInv,
  OneHolder, ThisLife, Sound, Late, OwnedInv, Talk, CrashInSubmit, proc,
  WorkIdle, ClaimFree

LEMMA RestartKeeps == ASSUME IInv, Restart PROVE IInv'
<1>1. TypeOK'
  BY RestartsAssumption DEF IInv, TypeOK, LifeInv, StopInv, Restart, Open
<1>2. LifeInv'
  BY DEF IInv, TypeOK, LifeInv, Restart
<1>3. StopInv'
  BY DEF IInv, StopInv, Restart
<1>4. OneHolder'
  BY DEF IInv, OneHolder, Restart
<1>5. ThisLife'
  <2>1. \A t \in Tasks : worker[t][life + 1] = "none"
    BY RestartsAssumption DEF IInv, TypeOK, LifeInv, Restart
  <2> QED BY <2>1 DEF IInv, TypeOK, ThisLife, Restart, Open, StopInv
<1>6. Sound'
  BY DEF IInv, Sound, Restart
<1>7. Late'
  BY DEF IInv, Late, Restart
<1>8. OwnedInv'
  BY KindsAssumption DEF IInv, TypeOK, OwnedInv, Restart, Open
<1>9. Talk'
  BY DEF IInv, Talk, Restart
<1> QED BY <1>1, <1>2, <1>3, <1>4, <1>5, <1>6, <1>7, <1>8, <1>9 DEF IInv

-----------------------------------------------------------------------------
LEMMA StutterKeeps == ASSUME IInv, UNCHANGED vars PROVE IInv'
BY DEF IInv, TypeOK, LifeInv, StopInv, OneHolder, ThisLife, Sound, Late, OwnedInv, Talk,
  vars, disk, proc

LEMMA InitInv == Init => IInv
BY KindsAssumption, RestartsAssumption DEF Init, IInv, TypeOK, LifeInv, StopInv, OneHolder, ThisLife, Sound, Late,
  OwnedInv, Talk

LEMMA StepKeeps == IInv /\ [Next]_vars => IInv'
<1> SUFFICES ASSUME IInv, [Next]_vars PROVE IInv'
  OBVIOUS
<1>1. ASSUME NEW t \in Tasks, Submit(t) \/ Poll(t) \/ Stop(t) \/ StopSteps(t) \/ OwnedDelivers(t) PROVE IInv'
  BY <1>1, SubmitKeeps, PollKeeps, StopKeeps, StopAfterMonitorKeeps, StopTimesOutKeeps,
     StopAfterProcessKeeps, OwnedDeliversKeeps DEF StopSteps
<1>2. ASSUME NEW t \in Tasks, MonitorSteps(t) PROVE IInv'
  BY <1>2, MonitorBeginsKeeps, PackageFailsKeeps, SpawnKeeps, ProcessGoneKeeps, OwnedBeginsKeeps,
     OwnedPreparedKeeps, OwnedRunsKeeps, OwnedEndsKeeps, MonitorEndsKeeps, CancelArrivesKeeps
  DEF MonitorSteps
<1>3. ASSUME NEW t \in Tasks, NEW k \in Lives, WorkerSteps(t, k) PROVE IInv'
  BY <1>3, WorkerLocksKeeps, WorkerBeginsKeeps, WorkerCancelledKeeps, WorkerDeliversKeeps,
     WorkerExitsKeeps, WorkerDiesKeeps, WorkerReportsKeeps DEF WorkerSteps
<1>4. CASE ChatSteps
  BY <1>4, ChatBeginsKeeps, ChatRegistersKeeps, ChatWritesKeeps, ChatEndsKeeps DEF ChatSteps
<1>5. CASE Process
  BY <1>5, CloseKeeps, ExitKeeps, CrashKeeps, RestartKeeps, CrashInSubmitKeeps DEF Process
<1>6. CASE UNCHANGED vars
  BY <1>6, StutterKeeps
<1> QED BY <1>1, <1>2, <1>3, <1>4, <1>5, <1>6 DEF Next

LEMMA Invariant == Spec => []IInv
BY InitInv, StepKeeps, PTL DEF Spec

-----------------------------------------------------------------------------
(* The variables of the tasks have their types.                             *)
THEOREM TaskTypes == Spec => []TypeOK
<1>1. IInv => TypeOK
  BY DEF IInv
<1> QED BY <1>1, Invariant, PTL

(* Of the owned tasks of a work and the conversation at most one writes, and*)
(* a task that writes is the one the claim names.                           *)
THEOREM AtMostOneWriter == Spec => []OneWriter
<1>1. IInv => OneWriter
  BY DEF IInv, TypeOK, OwnedInv, Talk, OneWriter, Writers
<1> QED BY <1>1, Invariant, PTL

(* At most one process holds worker.lock of a task, whatever restarts left. *)
THEOREM AtMostOneExecutor == Spec => []OneExecutor
<1>1. ASSUME IInv PROVE OneExecutor
  <2> SUFFICES ASSUME NEW t \in Tasks PROVE Cardinality({k \in Lives : HoldsLock(t, k)}) <= 1
    BY DEF OneExecutor
  <2>1. CASE \A k \in Lives : ~HoldsLock(t, k)
    <3>1. {k \in Lives : HoldsLock(t, k)} = {}
      BY <2>1
    <3> QED BY <3>1, FS_EmptySet
  <2>2. CASE \E k \in Lives : HoldsLock(t, k)
    <3>1. PICK k \in Lives : HoldsLock(t, k)
      BY <2>2
    <3>2. {j \in Lives : HoldsLock(t, j)} = {k}
      BY <1>1, <3>1 DEF IInv, OneHolder
    <3>3. Cardinality({k}) = 1
      BY FS_Singleton
    <3> QED BY <3>2, <3>3
  <2> QED BY <2>1, <2>2
<1> QED BY <1>1, Invariant, PTL

(* Once a task is verified nobody writes for it, and completed means        *)
(* delivered.                                                               *)
THEOREM SoundVerdicts == Spec => []VerdictIsSound
<1>1. IInv => VerdictIsSound
  BY DEF IInv, TypeOK, LifeInv, Sound, OwnedInv, VerdictIsSound
<1> QED BY <1>1, Invariant, PTL

(* What VerdictStays asks of a step and one task.                           *)
Keeps(t) ==
  Verified(t) /\ trusted'[t] # trusted[t] =>
    /\ Verified(t)' /\ trusted'[t].status # "completed"
    /\ trusted[t].status = "completed" => stopper[t] # "none"

(* Each step keeps the verdicts there are.                                  *)
LEMMA RequestsKeep ==
  ASSUME IInv, NEW t \in Tasks, Submit(t) \/ Poll(t) \/ Stop(t) \/ StopSteps(t)
  PROVE  \A u \in Tasks : Keeps(u)
<1>0. TypeOK
  BY DEF IInv
<1>1. CASE Submit(t)
  BY <1>0, <1>1 DEF TypeOK, Submit, Keeps
<1>2. CASE Poll(t)
  BY <1>0, <1>2 DEF TypeOK, Poll, Open, Begin, Keeps
<1>3. CASE Stop(t)
  BY <1>0, <1>3 DEF TypeOK, Stop, StopRest, Result, Verify, Verdict, Keeps
<1>4. CASE StopAfterMonitor(t)
  BY <1>0, <1>4 DEF TypeOK, StopAfterMonitor, StopRest, Result, Verify, Verdict, Keeps
<1>5. CASE StopTimesOut(t)
  BY <1>5 DEF StopTimesOut, Keeps
<1>6. CASE StopAfterProcess(t)
  BY <1>0, <1>6 DEF TypeOK, StopAfterProcess, StopRest, Verify, Verdict, Keeps
<1> QED BY <1>1, <1>2, <1>3, <1>4, <1>5, <1>6 DEF StopSteps

LEMMA MonitorsKeep ==
  ASSUME IInv, NEW t \in Tasks, MonitorSteps(t)
  PROVE  \A u \in Tasks : Keeps(u)
<1>0. TypeOK /\ LifeInv /\ StopInv /\ ThisLife /\ Late /\ OwnedInv
  BY DEF IInv
<1>1. CASE MonitorBegins(t)
  BY <1>0, <1>1 DEF TypeOK, Late, MonitorBegins, OverAlready, Verify, Verdict, Keeps
<1>2. CASE ProcessGone(t)
  BY <1>0, <1>2 DEF TypeOK, LifeInv, Late, ProcessGone, Verify, Verdict, Keeps
<1>3. CASE OwnedBegins(t)
  BY <1>0, <1>3 DEF TypeOK, OwnedInv, OwnedBegins, Verify, Keeps
<1>4. CASE OwnedPrepared(t)
  BY <1>0, <1>4 DEF TypeOK, OwnedInv, OwnedPrepared, Verify, Keeps
<1>5. CASE OwnedEnds(t)
  BY <1>0, <1>5 DEF TypeOK, OwnedInv, OwnedEnds, Verify, Keeps
<1>6. CASE CancelArrives(t)
  BY <1>0, <1>6 DEF TypeOK, OwnedInv, CancelArrives, Verify, Keeps
<1>7. CASE PackageFails(t) \/ Spawn(t) \/ OwnedRuns(t) \/ MonitorEnds(t)
  BY <1>7 DEF PackageFails, Spawn, OwnedRuns, MonitorEnds, disk, Keeps
<1> QED BY <1>1, <1>2, <1>3, <1>4, <1>5, <1>6, <1>7 DEF MonitorSteps

LEMMA RestKeeps ==
  ASSUME IInv, UNCHANGED trusted PROVE \A u \in Tasks : Keeps(u)
BY DEF Keeps

(* No poll, restart, stop or late monitor reopens a verified task, none that*)
(* was stopped or failed is completed after all, and a completed one is only*)
(* lost to a stop that began before the verdict.                            *)
THEOREM VerdictsStay == Spec => VerdictStays
<1>1. ASSUME IInv, [Next]_vars PROVE \A u \in Tasks : Keeps(u)
  <2>1. ASSUME NEW t \in Tasks, Submit(t) \/ Poll(t) \/ Stop(t) \/ StopSteps(t) \/ MonitorSteps(t)
        PROVE  \A u \in Tasks : Keeps(u)
    BY <1>1, <2>1, RequestsKeep, MonitorsKeep
  <2>2. ASSUME NEW t \in Tasks, OwnedDelivers(t) PROVE UNCHANGED trusted
    BY <2>2 DEF OwnedDelivers
  <2>3. ASSUME NEW t \in Tasks, NEW k \in Lives, WorkerSteps(t, k) PROVE UNCHANGED trusted
    BY <2>3 DEF WorkerSteps, WorkerLocks, WorkerBegins, WorkerCancelled, WorkerDelivers, WorkerExits,
       WorkerDies, WorkerReports, WorkerUnchanged
  <2>4. CASE ChatSteps
    BY <2>4, RestKeeps, <1>1 DEF ChatSteps, ChatBegins, ChatRegisters, ChatWrites, ChatEnds, ChatUnchanged, disk
  <2>5. CASE Close \/ Exit \/ Crash \/ \E t \in Tasks : CrashInSubmit(t)
    BY <2>5, RestKeeps, <1>1 DEF Close, Exit, Crash, CrashInSubmit, Down, disk
  <2>6. CASE Restart
    BY <1>1, <2>6 DEF IInv, TypeOK, Restart, Open, Keeps
  <2>7. CASE UNCHANGED vars
    BY <1>1, <2>7, RestKeeps DEF vars, disk
  <2> QED BY <1>1, <2>1, <2>2, <2>3, <2>4, <2>5, <2>6, <2>7, RestKeeps DEF Next, Process
<1>2. IInv /\ [Next]_vars => [\A t \in Tasks : Verified(t) /\ trusted'[t] # trusted[t] =>
       /\ Verified(t)' /\ trusted'[t].status # "completed"
       /\ trusted[t].status = "completed" => stopper[t] # "none"]_vars
  BY <1>1 DEF Keeps
<1> QED BY <1>2, Invariant, PTL DEF Spec, VerdictStays

=============================================================================
