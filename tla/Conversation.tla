---------------------------- MODULE Conversation ----------------------------
(***************************************************************************)
(* One conversation of the executor: its gate                              *)
(* (executor/app/domains/writing/run_gate.py), its message log             *)
(* (conversation_log.py), the generator that serves a request (agent.py,   *)
(* generate_stream), the status of its runs (platform/trace/recorder.py)   *)
(* and the requests that end them (routers/screenplay.py, workspaces.py).  *)
(*                                                                         *)
(* A step is a stretch of the event loop between two suspensions of a      *)
(* coroutine; the scanner of forgotten runs is a thread.  A generator that *)
(* is cancelled (gone) learns of it by CancelledError where it awaits      *)
(* something (Unwind), or by GeneratorExit, when it is collected, where it *)
(* is suspended at a yield (Close).  Billing is in BillingRuns; the block  *)
(* by a target task is in TargetTasks and here only a possible refusal.    *)
(***************************************************************************)
EXTENDS Integers, FiniteSets

CONSTANTS
  Requests,    \* calls of /generate/stream; one that made a run is not repeated
  Messages,    \* the message ids they carry; a message may be sent again
  None,
  MaxStops,    \* stops and advances of the stage
  MaxCrashes   \* ends of the process

ASSUME NoneAssumption == None \notin Requests \cup Messages
ASSUME BoundsAssumption == MaxStops \in Nat /\ MaxCrashes \in Nat

VARIABLES
  log,       \* the status of a message in the conversation log
  index,     \* the status of a run in traces/index.json, by its first request
  parked,    \* the run in active_traces of state.json
  pc,        \* where the generator of a request is
  msg,       \* its message
  entered,   \* the epoch of the gate when it began to wait
  trace,     \* its run, or the run it would resume
  gone,      \* the requests with a cancellation to deliver
  locked,    \* the lock of the gate
  line,      \* the requests that wait for the lock
  ahead,     \* who stands before a request in the line
  woken,     \* the first of the line is about to take the lock
  acq,       \* the task that acquires the lock for a waiting request
  epoch,     \* of the gate
  active,    \* the runs in the recorder's memory
  task,      \* the request registered for a run
  stopMark,  \* the runs with a user stop requested
  scan,      \* the run that the scanner read as awaiting input
  dropped,   \* history: messages a stop took, with all their waiting requests
  stops, crashes

disk == <<log, index, parked>>
gate == <<locked, line, ahead, woken, acq, epoch>>
generator == <<pc, msg, entered, trace, gone>>
recorder == <<active, task, stopMark>>
bounds == <<stops, crashes>>
vars == <<disk, gate, generator, recorder, scan, dropped, bounds>>

Traces == Requests

Terminal == {"completed", "step_limit", "failed", "interrupted", "stopped",
             "abandoned", "advanced", "timeout"}
RunStatuses == Terminal \cup {"absent", "running", "awaiting"}
LogStatuses == {"none", "queued", "running", "paused", "cancelled"}

(* A generator past the gate.                                               *)
Generating == {"prepare", "gating", "bind", "opening", "stream", "closing"}
Points == Generating \cup {"idle", "queued", "hidden", "waiting"}

Init ==
  /\ log = [m \in Messages |-> "none"]
  /\ index = [t \in Traces |-> "absent"]
  /\ parked = None
  /\ pc = [r \in Requests |-> "idle"]
  /\ msg = [r \in Requests |-> None]
  /\ entered = [r \in Requests |-> 0]
  /\ trace = [r \in Requests |-> None]
  /\ gone = {} /\ locked = FALSE /\ line = {} /\ woken = FALSE /\ epoch = 0
  /\ ahead = [r \in Requests |-> {}]
  /\ acq = [r \in Requests |-> "none"]
  /\ active = {} /\ stopMark = {} /\ scan = None /\ dropped = {}
  /\ task = [t \in Traces |-> None]
  /\ stops = 0 /\ crashes = 0

-----------------------------------------------------------------------------
(* asyncio.Lock: first come, first served; the first of the line is woken   *)
(* by a release and takes the lock in a step of its own.                    *)
Join(r) ==
  /\ line' = line \cup {r}
  /\ ahead' = [ahead EXCEPT ![r] = line]

Part(r) ==
  /\ line' = line \ {r}
  /\ ahead' = [q \in Requests |-> IF q = r THEN {} ELSE ahead[q] \ {r}]

Stay == UNCHANGED <<line, ahead>>

Hold == locked' = TRUE /\ woken' = FALSE
Release == locked' = FALSE /\ woken' = (line' # {})

(* Whoever leaves the line while the lock is free wakes the next.           *)
PassOn == UNCHANGED locked /\ woken' = (~locked /\ line' # {})

IsFirst(r) == woken /\ r \in line /\ ahead[r] = {}
NoWaiters == ~locked /\ line = {}

Goto(r, p) == pc' = [pc EXCEPT ![r] = p] /\ UNCHANGED <<msg, entered, gone>>
SetAcq(r, a) == acq' = [acq EXCEPT ![r] = a]
Mark(r, s) == log' = [log EXCEPT ![msg[r]] = s]
Stays == UNCHANGED <<index, parked, recorder>>

(* The generator is gone, and its variables with it.                        *)
Vanish(r) ==
  /\ pc' = [pc EXCEPT ![r] = "idle"] /\ msg' = [msg EXCEPT ![r] = None]
  /\ entered' = [entered EXCEPT ![r] = 0] /\ trace' = [trace EXCEPT ![r] = None]
  /\ gone' = gone \ {r}

(* Mutant of Leave: the lock stays where it is.                             *)
LeaveLocked(r) == Vanish(r) /\ Stay /\ UNCHANGED <<locked, woken>>

(* Its finally gives the lock back.                                         *)
Leave(r) == Vanish(r) /\ Stay /\ Release

(* With the lock in hand: the message is marked running, and cancelled      *)
(* again if the work may not be written now.                                *)
Begin(r, m) ==
  \/ /\ Hold /\ log' = [log EXCEPT ![m] = "running"]
     /\ pc' = [pc EXCEPT ![r] = "prepare"] /\ msg' = [msg EXCEPT ![r] = m]
     /\ entered' = [entered EXCEPT ![r] = 0] /\ UNCHANGED <<trace, gone>>
  \/ Release /\ Vanish(r) /\ log' = [log EXCEPT ![m] = "cancelled"]

-----------------------------------------------------------------------------
(* The way to the gate.                                                     *)

(* Mutant of Refused: the log is not asked.                                 *)
NeverRefused(m) == FALSE

(* admit_user refuses a message that a stop took out of the queue.          *)
Refused(m) == log[m] = "cancelled"

Enqueue(r, m, p) ==
  /\ pc' = [pc EXCEPT ![r] = p] /\ msg' = [msg EXCEPT ![r] = m]
  /\ log' = [log EXCEPT ![m] = "queued"]
  /\ UNCHANGED <<entered, trace, gone, locked, woken>>

Admit(r, m) ==
  /\ pc[r] = "idle" /\ acq[r] = "none" /\ index[r] = "absent"
  /\ \/ Refused(m) /\ Vanish(r) /\ UNCHANGED <<log, locked, woken>> /\ Stay
     \/ ~Refused(m) /\ locked /\ Enqueue(r, m, "queued") /\ Stay
     \/ (* The lock is free, but promised: try_acquire waits after all.       *)
        ~Refused(m) /\ ~locked /\ line # {} /\ Enqueue(r, m, "hidden") /\ Join(r)
     \/ ~Refused(m) /\ NoWaiters /\ Stay /\ Begin(r, m)
  /\ Stays /\ UNCHANGED <<acq, epoch, scan, dropped, bounds>>

(* After the frame "queued" was taken.                                      *)
Register(r) ==
  /\ pc[r] = "queued" /\ r \notin gone
  /\ pc' = [pc EXCEPT ![r] = "waiting"] /\ SetAcq(r, "new")
  /\ entered' = [entered EXCEPT ![r] = epoch]
  /\ Stays
  /\ UNCHANGED <<log, locked, line, ahead, woken, epoch, msg, trace, gone, scan,
                 dropped, bounds>>

AcquireStarts(r) ==
  /\ acq[r] = "new"
  /\ \/ NoWaiters /\ Hold /\ Stay /\ SetAcq(r, "granted")
     \/ ~NoWaiters /\ Join(r) /\ SetAcq(r, "line") /\ UNCHANGED <<locked, woken>>
  /\ UNCHANGED <<disk, epoch, generator, recorder, scan, dropped, bounds>>

Granted(r) ==
  /\ IsFirst(r) /\ acq[r] = "line"
  /\ Part(r) /\ Hold /\ SetAcq(r, "granted")
  /\ UNCHANGED <<disk, epoch, generator, recorder, scan, dropped, bounds>>

(* The waiter sees that its task has the lock.                              *)
Proceed(r) ==
  /\ pc[r] = "waiting" /\ acq[r] = "granted" /\ r \notin gone
  /\ SetAcq(r, "none") /\ Stay
  /\ IF entered[r] # epoch THEN Mark(r, "cancelled") /\ Vanish(r) /\ Release
     ELSE Begin(r, msg[r])
  /\ Stays /\ UNCHANGED <<epoch, scan, dropped, bounds>>

HiddenProceeds(r) ==
  /\ pc[r] = "hidden" /\ IsFirst(r) /\ r \notin gone
  /\ Part(r) /\ Begin(r, msg[r])
  /\ Stays /\ UNCHANGED <<acq, epoch, scan, dropped, bounds>>

(* Cancelled before it was registered: the log keeps "queued".              *)
LeaveEarly(r) ==
  /\ pc[r] \in {"queued", "hidden"} /\ r \in gone
  /\ Vanish(r) /\ Part(r) /\ PassOn
  /\ Stays /\ UNCHANGED <<log, acq, epoch, scan, dropped, bounds>>

(* Mutant of LeftAs: who leaves the queue is to be sent again.              *)
LeftAsPaused(r) == "paused"

LeftAs(r) == IF entered[r] # epoch THEN "cancelled" ELSE "paused"

(* Mutant of AfterGrant: nobody returns a lock granted to a gone waiter.    *)
AfterGrantLost == "none"

(* The callback that returns a lock granted too late is scheduled.          *)
AfterGrant == "return"

LeaveQueue(r) ==
  /\ pc[r] = "waiting" /\ r \in gone
  /\ Vanish(r) /\ Mark(r, LeftAs(r))
  /\ Part(r) /\ PassOn
  /\ SetAcq(r, IF acq[r] = "granted" THEN AfterGrant ELSE "none")
  /\ Stays /\ UNCHANGED <<epoch, scan, dropped, bounds>>

ReturnLock(r) ==
  /\ acq[r] = "return" /\ SetAcq(r, "none") /\ Stay /\ Release
  /\ UNCHANGED <<disk, epoch, generator, recorder, scan, dropped, bounds>>

-----------------------------------------------------------------------------
(* The recorder.                                                            *)

(* create_run, with the registration of the task.                           *)
Create(r) ==
  /\ index' = [index EXCEPT ![r] = "running"]
  /\ active' = active \cup {r}
  /\ task' = [task EXCEPT ![r] = r]
  /\ trace' = [trace EXCEPT ![r] = r]

(* Mutant of Record: a run is written that memory does not know.            *)
RecordAnyway(t, s) == index' = [index EXCEPT ![t] = s]

(* An end of a run is written while memory knows it; else it raises.        *)
Record(t, s) == index' = IF t \in active THEN [index EXCEPT ![t] = s] ELSE index

Forget(t) ==
  /\ active' = active \ {t}
  /\ task' = [task EXCEPT ![t] = None]

(* _finalize_run, and unregister_run_task of the generator that ends.       *)
End(t, s) == Record(t, s) /\ Forget(t)

Nowhere == UNCHANGED <<index, active, task>>

(* cancel_awaiting_run: a run memory has lost must still await input.       *)
CanEnd(t) == t \in active \/ index[t] = "awaiting"

CancelAwaiting(t, s) ==
  IF CanEnd(t)
    THEN /\ index' = [index EXCEPT ![t] = s]
         /\ Forget(t) /\ stopMark' = stopMark \ {t}
    ELSE Nowhere /\ UNCHANGED stopMark

(* Mutant of Orphaned: a generator that is collected leaves its run.        *)
OrphanedNever(t) == FALSE

(* finalize_orphan_run finds the run unfinished.                            *)
Orphaned(t) == t \in active /\ index[t] = "running"

(* The inner finally: unregister_run_task, finalize_orphan_run.             *)
Finalize(t) ==
  IF t # None /\ Orphaned(t) THEN End(t, "interrupted")
  ELSE /\ UNCHANGED <<index, active>>
       /\ task' = [x \in Traces |-> IF x = t THEN None ELSE task[x]]

-----------------------------------------------------------------------------
(* Preparation, after the checkpointer was resolved.                        *)

(* _sweep_stale_active_traces                                               *)
Swept ==
  IF parked # None /\ index[parked] \in {"running", "awaiting"} THEN parked ELSE None

PrepareNew(r) ==
  /\ parked' = Swept /\ Create(r) /\ Goto(r, "bind")
  /\ UNCHANGED <<log, locked, woken, stopMark>> /\ Stay

(* fresh_session gives up the run that awaits input.                        *)
PrepareFresh(r) ==
  /\ Swept # None /\ parked' = None
  /\ LET t == Swept
         status == IF CanEnd(t) THEN "abandoned" ELSE index[t]
     IN /\ index' = [index EXCEPT ![r] = "running", ![t] = status]
        /\ active' = (active \ {t}) \cup {r}
        /\ task' = [task EXCEPT ![r] = r, ![t] = None]
        /\ stopMark' = IF CanEnd(t) THEN stopMark \ {t} ELSE stopMark
  /\ trace' = [trace EXCEPT ![r] = r] /\ Goto(r, "bind")
  /\ UNCHANGED <<log, locked, woken>> /\ Stay

(* A resume of the parked run; any other run has become a plain message.    *)
PrepareResume(r) ==
  /\ Swept # None /\ parked' = Swept
  /\ trace' = [trace EXCEPT ![r] = Swept] /\ Goto(r, "gating")
  /\ UNCHANGED <<log, index, recorder, locked, woken>> /\ Stay

(* The run asked for was sealed by an advance of the stage.                 *)
PrepareSealed(r) ==
  /\ \E t \in Traces : index[t] = "advanced"
  /\ parked' = Swept /\ Mark(r, "cancelled") /\ Goto(r, "closing")
  /\ UNCHANGED <<index, recorder, trace, locked, woken>> /\ Stay

PrepareFails(r) ==
  /\ parked' = Swept /\ Mark(r, "cancelled") /\ Leave(r)
  /\ UNCHANGED <<index, recorder>>

Prepare(r) ==
  /\ pc[r] = "prepare" /\ r \notin gone
  /\ \/ PrepareNew(r) \/ PrepareFresh(r) \/ PrepareResume(r) \/ PrepareSealed(r)
     \/ PrepareFails(r)
  /\ UNCHANGED <<acq, epoch, scan, dropped, bounds>>

(* The compatibility of the run was asked for meanwhile: resume_run.        *)
Resume(r) ==
  /\ pc[r] = "gating" /\ r \notin gone
  /\ LET t == trace[r] IN
     \/ /\ t \in active \/ index[t] = "awaiting"
        /\ index' = [index EXCEPT ![t] = "running"]
        /\ active' = active \cup {t} /\ task' = [task EXCEPT ![t] = r]
        /\ Goto(r, "bind") /\ UNCHANGED <<log, stopMark, trace, locked, woken>> /\ Stay
     \/ /\ t \notin active /\ index[t] # "awaiting"
        /\ Create(r) /\ Goto(r, "bind")
        /\ UNCHANGED <<log, stopMark, locked, woken>> /\ Stay
     \/ (* Incompatible.                                                      *)
        /\ CancelAwaiting(t, "abandoned") /\ trace' = [trace EXCEPT ![r] = None]
        /\ Goto(r, "closing") /\ UNCHANGED <<log, locked, woken>> /\ Stay
     \/ (* The message is out of date.                                        *)
        /\ Mark(r, "cancelled") /\ Leave(r) /\ UNCHANGED <<index, recorder>>
  /\ UNCHANGED <<parked, acq, epoch, scan, dropped, bounds>>

(* The agent is built, and commit_route parks the run for the stage.        *)
Route(r) ==
  /\ pc[r] = "bind" /\ r \notin gone /\ trace[r] \in active
  /\ parked' = trace[r] /\ Goto(r, "opening")
  /\ UNCHANGED <<log, index, gate, trace, recorder, scan, dropped, bounds>>

(* The thread of the agent is tidied, and the stream is entered.            *)
Enter(r) ==
  /\ pc[r] = "opening" /\ r \notin gone
  /\ Goto(r, "stream")
  /\ UNCHANGED <<disk, gate, trace, recorder, scan, dropped, bounds>>

(* The block, the model, the queue of the run, its history: the preparation *)
(* raises.                                                                  *)
BindFails(r) ==
  /\ pc[r] \in {"bind", "opening"} /\ r \notin gone
  /\ Mark(r, "cancelled") /\ End(trace[r], "failed") /\ Leave(r)
  /\ UNCHANGED <<parked, stopMark, acq, epoch, scan, dropped, bounds>>

-----------------------------------------------------------------------------
(* The stream.  A run that memory has forgotten cannot record anything: the *)
(* next event raises.                                                       *)
Streaming(r) == pc[r] = "stream" /\ r \notin gone

StreamRest == UNCHANGED <<stopMark, acq, epoch, scan, dropped, bounds>>

(* A question to the user: await_input_run, on_interrupt.                   *)
Pause(r) ==
  /\ Streaming(r) /\ trace[r] \in active
  /\ index' = [index EXCEPT ![trace[r]] = "awaiting"] /\ parked' = trace[r]
  /\ Goto(r, "closing")
  /\ UNCHANGED <<log, active, task, locked, woken, trace>> /\ Stay /\ StreamRest

Complete(r) ==
  /\ Streaming(r) /\ trace[r] \in active
  /\ End(trace[r], "completed") /\ parked' = None /\ Goto(r, "closing")
  /\ UNCHANGED <<log, locked, woken, trace>> /\ Stay /\ StreamRest

(* The budget of steps; the recursion limit leaves state.json alone.        *)
StepLimit(r) ==
  /\ Streaming(r) /\ trace[r] \in active
  /\ End(trace[r], "step_limit") /\ parked' \in {None, parked} /\ Goto(r, "closing")
  /\ UNCHANGED <<log, locked, woken, trace>> /\ Stay /\ StreamRest

StreamFails(r) ==
  /\ Streaming(r)
  /\ End(trace[r], "failed") /\ Leave(r) /\ UNCHANGED <<log, parked>> /\ StreamRest

(* The last frames were taken, or the generator was collected there.        *)
Return(r) ==
  /\ pc[r] = "closing" /\ Finalize(trace[r]) /\ Leave(r)
  /\ UNCHANGED <<log, parked>> /\ StreamRest

-----------------------------------------------------------------------------
(* Cancellation.                                                            *)
Disconnect(r) ==
  /\ pc[r] # "idle" /\ gone' = gone \cup {r}
  /\ UNCHANGED <<disk, gate, pc, msg, entered, trace, recorder, scan, dropped, bounds>>

(* Before there is a run, nothing is recorded.                              *)
UnwindEarly(r) ==
  /\ pc[r] \in {"prepare", "gating"} /\ r \in gone /\ Leave(r)
  /\ UNCHANGED <<disk, recorder, acq, epoch, scan, dropped, bounds>>

(* CancelledError: a user stop is told from a connection that closed.       *)
Unwind(r) ==
  /\ pc[r] \in {"bind", "opening", "stream"} /\ r \in gone
  /\ LET t == trace[r]
         stopped == t \in stopMark
     IN /\ End(t, IF stopped THEN "stopped" ELSE "interrupted")
        /\ stopMark' = stopMark \ {t}
        /\ log' = IF pc[r] = "stream" THEN log
                  ELSE [log EXCEPT ![msg[r]] = IF stopped THEN "cancelled" ELSE "paused"]
        /\ parked' = IF pc[r] = "stream" /\ t \in active THEN None ELSE parked
  /\ Leave(r) /\ UNCHANGED <<acq, epoch, scan, dropped, bounds>>

(* GeneratorExit: only the finally clauses run.                             *)
Close(r) ==
  /\ pc[r] \in {"bind", "opening", "stream"} /\ r \in gone
  /\ Finalize(trace[r])
  /\ log' = IF pc[r] = "stream" THEN log ELSE [log EXCEPT ![msg[r]] = "paused"]
  /\ Leave(r) /\ UNCHANGED parked /\ StreamRest

(* _clear_conversation_queue: the registered waiters are cancelled, and the *)
(* queued and paused messages.                                              *)
Carriers(m) == {r \in Requests : msg[r] = m}

ClearQueue ==
  /\ epoch' = epoch + 1
  /\ log' = [m \in Messages |-> IF log[m] \in {"queued", "paused"} THEN "cancelled" ELSE log[m]]
  /\ dropped' = dropped \cup
       {m \in Messages : /\ log[m] \in {"queued", "paused"}
                         /\ \A r \in Carriers(m) : pc[r] = "waiting"}

Waiting == {r \in Requests : pc[r] = "waiting"}

(* stop_screenplay, for a run or for the queue alone.                       *)
Stop(t) ==
  /\ stops < MaxStops /\ stops' = stops + 1
  /\ t # None => index[t] # "absent"
  /\ stopMark' = IF t = None THEN stopMark ELSE stopMark \cup {t}
  /\ gone' = gone \cup Waiting \cup (IF t = None THEN {} ELSE {task[t]} \ {None})
  /\ ClearQueue
  /\ UNCHANGED <<index, parked, locked, line, ahead, woken, acq, pc, msg, entered, trace,
                 active, task, scan, crashes>>

(* advance_writing_stage, with the gate in hand, seals the stage review.    *)
Advance(t) ==
  /\ stops < MaxStops /\ stops' = stops + 1
  /\ NoWaiters /\ index[t] = "awaiting"
  /\ CancelAwaiting(t, "advanced")
  /\ parked' = IF parked = t THEN None ELSE parked
  /\ gone' = gone \cup Waiting /\ ClearQueue
  /\ UNCHANGED <<locked, line, ahead, woken, acq, pc, msg, entered, trace, scan, crashes>>

-----------------------------------------------------------------------------
(* The scanner of runs that await input for too long: it reads the index,   *)
(* and some runs later it ends this one.                                    *)
ScanRead(t) ==
  /\ scan = None /\ index[t] = "awaiting" /\ scan' = t
  /\ UNCHANGED <<disk, gate, generator, recorder, dropped, bounds>>

(* Of a run that memory has lost _cancel_zombie_no_memory restores too      *)
(* little: _duration_ms raises, and the scan is over, for this run and those*)
(* behind it.  It takes what it restored out of memory again; that a resume *)
(* may have restored the run in this very moment is left out.               *)
ScanCancel ==
  /\ scan # None /\ scan' = None
  /\ IF scan \in active THEN End(scan, "timeout") ELSE Nowhere
  /\ UNCHANGED <<log, parked, gate, generator, stopMark, dropped, bounds>>

Crash ==
  /\ crashes < MaxCrashes /\ crashes' = crashes + 1
  /\ pc' = [r \in Requests |-> "idle"]
  /\ gone' = {} /\ locked' = FALSE /\ line' = {} /\ woken' = FALSE /\ epoch' = 0
  /\ ahead' = [r \in Requests |-> {}]
  /\ acq' = [r \in Requests |-> "none"]
  /\ active' = {} /\ stopMark' = {} /\ scan' = None
  /\ task' = [t \in Traces |-> None]
  /\ msg' = [r \in Requests |-> None] /\ trace' = [r \in Requests |-> None]
  /\ entered' = [r \in Requests |-> 0]
  /\ UNCHANGED <<disk, dropped, stops>>

Serve(r) ==
  \/ Register(r) \/ AcquireStarts(r) \/ Granted(r) \/ Proceed(r) \/ HiddenProceeds(r)
  \/ LeaveEarly(r) \/ LeaveQueue(r) \/ ReturnLock(r)
  \/ Prepare(r) \/ Resume(r) \/ Route(r) \/ Enter(r) \/ BindFails(r)
  \/ Pause(r) \/ Complete(r) \/ StepLimit(r) \/ StreamFails(r) \/ Return(r)
  \/ UnwindEarly(r) \/ Unwind(r) \/ Close(r)

Next ==
  \/ \E r \in Requests : Serve(r) \/ Disconnect(r) \/ (\E m \in Messages : Admit(r, m))
  \/ \E t \in Traces \cup {None} : Stop(t)
  \/ \E t \in Traces : Advance(t) \/ ScanRead(t)
  \/ ScanCancel \/ Crash

Spec == Init /\ [][Next]_vars

(* The event loop runs what is ready; a frame is taken or the connection    *)
(* closes; model calls and steps are limited, so a generation ends; the     *)
(* scanner comes round to every run that is old enough.                     *)
FairSpec ==
  /\ Spec
  /\ \A r \in Requests : WF_vars(Serve(r))
  /\ \A t \in Traces : SF_vars(ScanRead(t))
  /\ WF_vars(ScanCancel)

-----------------------------------------------------------------------------
(* Properties.                                                              *)

(* Types; a message is known while a generator carries it, and the task      *)
(* registered for a run, which a stop would cancel, is one that serves it.   *)
TypeOK ==
  /\ log \in [Messages -> LogStatuses]
  /\ index \in [Traces -> RunStatuses]
  /\ parked \in Traces \cup {None}
  /\ pc \in [Requests -> Points]
  /\ msg \in [Requests -> Messages \cup {None}]
  /\ \A r \in Requests : msg[r] = None <=> pc[r] = "idle"
  /\ entered \in [Requests -> Nat] /\ epoch \in Nat
  /\ trace \in [Requests -> Traces \cup {None}]
  /\ gone \subseteq Requests /\ line \subseteq Requests
  /\ locked \in BOOLEAN /\ woken \in BOOLEAN
  /\ ahead \in [Requests -> SUBSET Requests]
  /\ acq \in [Requests -> {"none", "new", "line", "granted", "return"}]
  /\ active \subseteq Traces /\ stopMark \subseteq Traces
  /\ task \in [Traces -> Requests \cup {None}]
  /\ \A t \in Traces : task[t] # None => trace[task[t]] = t
  /\ scan \in Traces \cup {None} /\ dropped \subseteq Messages
  /\ stops \in 0..MaxStops /\ crashes \in 0..MaxCrashes

(* Who has the lock: a generator past the gate, a waiter that was granted it *)
(* and has not seen it, or the callback that returns it.                     *)
Holds(r) == pc[r] \in Generating \/ acq[r] \in {"granted", "return"}

(* The lock is held exactly when somebody will give it back, and that is one *)
(* party: one generation at a time, and no way out of the queue, of the      *)
(* preparation or of the stream loses the lock (run_gate.py, agent.py).      *)
LockIsAccountedFor ==
  /\ locked <=> \E r \in Requests : Holds(r)
  /\ \A r, q \in Requests : Holds(r) /\ Holds(q) => r = q

(* A run that the recorder counts as running has a generator that writes it: *)
(* every way out of the generator records an end (finalize_orphan_run).      *)
RunningIsWritten ==
  \A t \in active : index[t] = "running" =>
    \E r \in Requests : trace[r] = t /\ pc[r] \in {"bind", "opening", "stream"}

(* A message that a stop took out of the queue, with the registered requests *)
(* that carried it, is not generated any more, however often it is sent      *)
(* again (_clear_conversation_queue, admit_user).                            *)
DroppedIsOver == \A m \in dropped : \A r \in Carriers(m) : pc[r] \notin Generating

(* A run that ended keeps its end: against late cancellations, the scanner's *)
(* stale reading, a resume, an advance and a restart.                        *)
EndStays == [][\A t \in Traces : index[t] \in Terminal => index'[t] = index[t]]_vars

(* Every request that waits at the gate gets through or leaves.              *)
WaiterLeaves ==
  \A r \in Requests :
    pc[r] \in {"queued", "hidden", "waiting"} ~> pc[r] \notin {"queued", "hidden", "waiting"}

(* A run that awaits input is resumed or, in the end, ended.                 *)
AwaitingEnds == \A t \in Traces : index[t] = "awaiting" ~> index[t] # "awaiting"
=============================================================================
