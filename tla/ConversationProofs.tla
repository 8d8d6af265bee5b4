-------------------------- MODULE ConversationProofs --------------------------
(***************************************************************************)
(* The conversation, for every set of requests and messages and any number *)
(* of stops and crashes: the lock of the gate is accounted for, a running  *)
(* run has its generator, a message that a stop took is over and a run     *)
(* that ended keeps its end.                                               *)
(***************************************************************************)
EXTENDS Conversation, TLAPS

(* The parts of TypeOK.                                                     *)
LockType == locked \in BOOLEAN /\ woken \in BOOLEAN

GateType ==
  /\ line \subseteq Requests /\ ahead \in [Requests -> SUBSET Requests]
  /\ acq \in [Requests -> {"none", "new", "line", "granted", "return"}]
  /\ epoch \in Nat /\ entered \in [Requests -> Nat]

GeneratorType ==
  /\ pc \in [Requests -> Points] /\ msg \in [Requests -> Messages \cup {None}]
  /\ \A r \in Requests : msg[r] = None <=> pc[r] = "idle"
  /\ trace \in [Requests -> Traces \cup {None}] /\ gone \subseteq Requests

DiskType ==
  /\ log \in [Messages -> LogStatuses] /\ index \in [Traces -> RunStatuses]
  /\ parked \in Traces \cup {None} /\ scan \in Traces \cup {None} /\ dropped \subseteq Messages
  /\ stops \in 0..MaxStops /\ crashes \in 0..MaxCrashes

RecorderType ==
  /\ active \subseteq Traces /\ stopMark \subseteq Traces
  /\ task \in [Traces -> Requests \cup {None}]
  /\ \A t \in Traces : task[t] # None => trace[task[t]] = t

Types == LockType /\ GateType /\ GeneratorType /\ DiskType /\ RecorderType

(* Who acquires the lock for whom; the first of the line is only woken while*)
(* the lock is free.                                                        *)
GateInv ==
  /\ woken => ~locked
  /\ \A r \in Requests : acq[r] \in {"new", "line", "granted"} => pc[r] = "waiting"
  /\ \A r \in Requests : acq[r] = "return" => pc[r] = "idle"

(* Memory knows runs that have not ended; a request that waits or prepares  *)
(* has made no run yet.                                                     *)
RunInv ==
  /\ \A t \in active : index[t] \in {"running", "awaiting"}
  /\ \A r \in Requests : pc[r] \in {"queued", "hidden", "waiting", "prepare", "gating"} => index[r] = "absent"

(* The request registered for a run has a generator that serves it.         *)
TaskInv ==
  /\ \A t \in Traces : task[t] # None => pc[task[t]] \in {"bind", "opening", "stream", "closing"}
  /\ \A r \in Requests : pc[r] \in {"gating", "bind", "opening", "stream"} => trace[r] # None

(* A message that a stop took is cancelled; who still carries it waits since*)
(* an earlier epoch.                                                        *)
DropInv ==
  /\ \A r \in Requests : entered[r] <= epoch
  /\ \A m \in dropped : log[m] = "cancelled"
  /\ \A r \in Requests : msg[r] \in dropped => pc[r] = "waiting" /\ entered[r] # epoch

IInv == Types /\ GateInv /\ LockIsAccountedFor /\ RunInv /\ RunningIsWritten /\ TaskInv /\ DropInv

USE DEF Traces, Terminal, RunStatuses, LogStatuses, Generating, Points, Holds

-----------------------------------------------------------------------------
(* Each step keeps the invariant.                                           *)
LEMMA AdmitKeeps ==
  ASSUME IInv, NEW r \in Requests, NEW m \in Messages, Admit(r, m)
  PROVE  IInv'
<1>1. LockType'
  BY DEF IInv, Types, LockType, Admit, Enqueue, Begin, Hold, Release
<1>2. GateType'
  BY DEF IInv, Types, GateType, Admit, Enqueue, Join, Begin, Vanish, Stay
<1>3. GeneratorType'
  BY NoneAssumption DEF IInv, Types, GeneratorType, Admit, Enqueue, Begin,
    Vanish
<1>4. DiskType'
  BY DEF IInv, Types, DiskType, Admit, Enqueue, Begin, Stays, bounds
<1>5. RecorderType'
  BY DEF IInv, Types, GeneratorType, RecorderType, TaskInv, Admit, Enqueue,
    Begin, Vanish, Stays, recorder
<1>6. GateInv'
  BY DEF IInv, Types, GeneratorType, GateInv, Admit, Enqueue, Begin, Vanish,
    Hold, Release
<1>7. LockIsAccountedFor'
  BY DEF IInv, Types, GeneratorType, LockIsAccountedFor, Admit, Enqueue,
    Begin, Vanish, Hold, Release, NoWaiters
<1>8. RunInv'
  BY DEF IInv, Types, GeneratorType, RunInv, Admit, Enqueue, Begin, Vanish,
    Stays, recorder
<1>9. RunningIsWritten'
  BY DEF IInv, Types, GeneratorType, RunningIsWritten, Admit, Enqueue, Begin,
    Vanish, Stays, recorder
<1>10. TaskInv'
  BY DEF IInv, Types, GeneratorType, RecorderType, TaskInv, Admit, Enqueue,
    Begin, Vanish, Stays, recorder
<1>11. DropInv'
  BY DEF IInv, Types, GateType, GeneratorType, DiskType, DropInv, Admit,
    Refused, Enqueue, Begin, Vanish
<1> QED BY <1>1, <1>2, <1>3, <1>4, <1>5, <1>6, <1>7, <1>8, <1>9, <1>10, <1>11 DEF IInv, Types

LEMMA RegisterKeeps ==
  ASSUME IInv, NEW r \in Requests, Register(r)
  PROVE  IInv'
BY NoneAssumption, BoundsAssumption DEF IInv, Types, LockType, GateType,
  GeneratorType, DiskType, RecorderType, GateInv, LockIsAccountedFor,
  RunInv, RunningIsWritten, TaskInv, DropInv, Register, SetAcq, Stays, disk,
  gate, generator, recorder, bounds

LEMMA AcquireStartsKeeps ==
  ASSUME IInv, NEW r \in Requests, AcquireStarts(r)
  PROVE  IInv'
<1>1. LockType'
  BY DEF IInv, Types, LockType, AcquireStarts, Hold
<1>2. GateType'
  BY DEF IInv, Types, GateType, AcquireStarts, Stay, SetAcq, Join, generator
<1>3. GeneratorType'
  BY DEF IInv, Types, GeneratorType, AcquireStarts, generator
<1>4. DiskType'
  BY DEF IInv, Types, DiskType, AcquireStarts, disk, bounds
<1>5. RecorderType'
  BY DEF IInv, Types, RecorderType, AcquireStarts, generator, recorder
<1>6. GateInv'
  BY DEF IInv, Types, GateType, GateInv, AcquireStarts, Hold, SetAcq,
    generator
<1>7. LockIsAccountedFor'
  BY DEF IInv, Types, GateType, LockIsAccountedFor, AcquireStarts, NoWaiters,
    Hold, SetAcq, generator
<1>8. RunInv'
  BY DEF IInv, RunInv, AcquireStarts, disk, generator, recorder
<1>9. RunningIsWritten'
  BY DEF IInv, RunningIsWritten, AcquireStarts, disk, generator, recorder
<1>10. TaskInv'
  BY DEF IInv, TaskInv, AcquireStarts, generator, recorder
<1>11. DropInv'
  BY DEF IInv, DropInv, AcquireStarts, disk, generator
<1> QED BY <1>1, <1>2, <1>3, <1>4, <1>5, <1>6, <1>7, <1>8, <1>9, <1>10, <1>11 DEF IInv, Types

LEMMA GrantedKeeps ==
  ASSUME IInv, NEW r \in Requests, Granted(r)
  PROVE  IInv'
<1>1. LockType'
  BY DEF IInv, Types, LockType, Granted, Hold
<1>2. GateType'
  BY DEF IInv, Types, GateType, Granted, Part, SetAcq, generator
<1>3. GeneratorType'
  BY DEF IInv, Types, GeneratorType, Granted, generator
<1>4. DiskType'
  BY DEF IInv, Types, DiskType, Granted, disk, bounds
<1>5. RecorderType'
  BY DEF IInv, Types, RecorderType, Granted, generator, recorder
<1>6. GateInv'
  BY DEF IInv, GateInv, Granted, Hold, SetAcq, generator
<1>7. LockIsAccountedFor'
  BY DEF IInv, Types, GateType, LockIsAccountedFor, GateInv, Granted, IsFirst,
    Hold, SetAcq, generator
<1>8. RunInv'
  BY DEF IInv, RunInv, Granted, disk, generator, recorder
<1>9. RunningIsWritten'
  BY DEF IInv, RunningIsWritten, Granted, disk, generator, recorder
<1>10. TaskInv'
  BY DEF IInv, TaskInv, Granted, generator, recorder
<1>11. DropInv'
  BY DEF IInv, DropInv, Granted, disk, generator
<1> QED BY <1>1, <1>2, <1>3, <1>4, <1>5, <1>6, <1>7, <1>8, <1>9, <1>10, <1>11 DEF IInv, Types

LEMMA ProceedKeeps ==
  ASSUME IInv, NEW r \in Requests, Proceed(r)
  PROVE  IInv'
<1>1. LockType'
  BY DEF IInv, Types, LockType, Proceed, Release, Begin, Hold
<1>2. GateType'
  BY DEF IInv, Types, GateType, Proceed, SetAcq, Stay, Vanish, Begin
<1>3. GeneratorType'
  BY DEF IInv, Types, GeneratorType, Proceed, Vanish, Begin
<1>4. DiskType'
  BY DEF IInv, Types, DiskType, Proceed, Mark, Begin, Stays, bounds
<1>5. RecorderType'
  BY DEF IInv, Types, GeneratorType, RecorderType, TaskInv, Proceed, Vanish,
    Begin, Stays, recorder
<1>6. GateInv'
  BY DEF IInv, Types, GateType, GeneratorType, GateInv, Proceed, SetAcq,
    Vanish, Release, Begin, Hold
<1>7. LockIsAccountedFor'
  BY DEF IInv, Types, GateType, GeneratorType, LockIsAccountedFor, Proceed,
    SetAcq, Vanish, Release, Begin, Hold
<1>8. RunInv'
  BY DEF IInv, Types, GeneratorType, RunInv, Proceed, Vanish, Begin, Stays,
    recorder
<1>9. RunningIsWritten'
  BY DEF IInv, Types, GeneratorType, RunningIsWritten, Proceed, Vanish, Begin,
    Stays, recorder
<1>10. TaskInv'
  BY DEF IInv, Types, GeneratorType, RecorderType, TaskInv, Proceed, Vanish,
    Begin, Stays, recorder
<1>11. DropInv'
  BY NoneAssumption DEF IInv, Types, GateType, GeneratorType, DiskType,
    DropInv, Proceed, Mark, Vanish, Begin
<1> QED BY <1>1, <1>2, <1>3, <1>4, <1>5, <1>6, <1>7, <1>8, <1>9, <1>10, <1>11 DEF IInv, Types

LEMMA HiddenProceedsKeeps ==
  ASSUME IInv, NEW r \in Requests, HiddenProceeds(r)
  PROVE  IInv'
<1>1. LockType'
  BY DEF IInv, Types, LockType, HiddenProceeds, Begin, Hold, Release
<1>2. GateType'
  BY DEF IInv, Types, GateType, HiddenProceeds, Part, Begin, Vanish
<1>3. GeneratorType'
  BY DEF IInv, Types, GeneratorType, HiddenProceeds, Begin, Vanish
<1>4. DiskType'
  BY DEF IInv, Types, DiskType, HiddenProceeds, Begin, Stays, bounds
<1>5. RecorderType'
  BY DEF IInv, Types, GeneratorType, RecorderType, TaskInv, HiddenProceeds,
    Begin, Vanish, Stays, recorder
<1>6. GateInv'
  BY DEF IInv, Types, GeneratorType, GateInv, HiddenProceeds, Begin, Hold,
    Release, Vanish
<1>7. LockIsAccountedFor'
  BY DEF IInv, Types, GeneratorType, LockIsAccountedFor, GateInv,
    HiddenProceeds, IsFirst, Begin, Hold, Release, Vanish
<1>8. RunInv'
  BY DEF IInv, Types, GeneratorType, RunInv, HiddenProceeds, Begin, Vanish,
    Stays, recorder
<1>9. RunningIsWritten'
  BY DEF IInv, Types, GeneratorType, RunningIsWritten, HiddenProceeds, Begin,
    Vanish, Stays, recorder
<1>10. TaskInv'
  BY DEF IInv, Types, GeneratorType, RecorderType, TaskInv, HiddenProceeds,
    Begin, Vanish, Stays, recorder
<1>11. DropInv'
  BY NoneAssumption DEF IInv, Types, GateType, GeneratorType, DiskType,
    DropInv, HiddenProceeds, Begin, Vanish
<1> QED BY <1>1, <1>2, <1>3, <1>4, <1>5, <1>6, <1>7, <1>8, <1>9, <1>10, <1>11 DEF IInv, Types

LEMMA LeaveEarlyKeeps ==
  ASSUME IInv, NEW r \in Requests, LeaveEarly(r)
  PROVE  IInv'
BY NoneAssumption, BoundsAssumption DEF IInv, Types, LockType, GateType,
  GeneratorType, DiskType, RecorderType, GateInv, LockIsAccountedFor,
  RunInv, RunningIsWritten, TaskInv, DropInv, LeaveEarly, Vanish, Part,
  PassOn, Stays, disk, gate, generator, recorder, bounds

LEMMA LeaveQueueKeeps ==
  ASSUME IInv, NEW r \in Requests, LeaveQueue(r)
  PROVE  IInv'
BY NoneAssumption, BoundsAssumption DEF IInv, Types, LockType, GateType,
  GeneratorType, DiskType, RecorderType, GateInv, LockIsAccountedFor,
  RunInv, RunningIsWritten, TaskInv, DropInv, LeaveQueue, Vanish, Mark,
  LeftAs, Part, PassOn, SetAcq, AfterGrant, Stays, disk, gate, generator,
  recorder, bounds

LEMMA ReturnLockKeeps ==
  ASSUME IInv, NEW r \in Requests, ReturnLock(r)
  PROVE  IInv'
<1>1. LockType'
  BY DEF IInv, Types, LockType, ReturnLock, Release
<1>2. GateType'
  BY DEF IInv, Types, GateType, ReturnLock, SetAcq, Stay, generator
<1>3. GeneratorType'
  BY DEF IInv, Types, GeneratorType, ReturnLock, generator
<1>4. DiskType'
  BY DEF IInv, Types, DiskType, ReturnLock, disk, bounds
<1>5. RecorderType'
  BY DEF IInv, Types, RecorderType, ReturnLock, generator, recorder
<1>6. GateInv'
  BY DEF IInv, GateInv, ReturnLock, SetAcq, Release, generator
<1>7. LockIsAccountedFor'
  BY DEF IInv, Types, GateType, LockIsAccountedFor, GateInv, ReturnLock,
    SetAcq, Release, generator
<1>8. RunInv'
  BY DEF IInv, RunInv, ReturnLock, disk, generator, recorder
<1>9. RunningIsWritten'
  BY DEF IInv, RunningIsWritten, ReturnLock, disk, generator, recorder
<1>10. TaskInv'
  BY DEF IInv, TaskInv, ReturnLock, generator, recorder
<1>11. DropInv'
  BY DEF IInv, DropInv, ReturnLock, disk, generator
<1> QED BY <1>1, <1>2, <1>3, <1>4, <1>5, <1>6, <1>7, <1>8, <1>9, <1>10, <1>11 DEF IInv, Types

LEMMA PrepareNewKeeps ==
  ASSUME IInv, NEW r \in Requests, pc[r] = "prepare", PrepareNew(r),
         UNCHANGED <<acq, epoch, scan, dropped, bounds>>
  PROVE  IInv'
BY NoneAssumption, BoundsAssumption DEF IInv, Types, LockType, GateType,
  GeneratorType, DiskType, RecorderType, GateInv, LockIsAccountedFor,
  RunInv, RunningIsWritten, TaskInv, DropInv, PrepareNew, Swept, Create,
  Goto, Stay, disk, gate, generator, recorder, bounds

LEMMA PrepareFreshKeeps ==
  ASSUME IInv, NEW r \in Requests, pc[r] = "prepare", PrepareFresh(r),
         UNCHANGED <<acq, epoch, scan, dropped, bounds>>
  PROVE  IInv'
<1>1. LockType'
  BY DEF IInv, Types, LockType, PrepareFresh
<1>2. GateType'
  BY DEF IInv, Types, GateType, PrepareFresh, Goto, Stay
<1>3. GeneratorType'
  BY DEF IInv, Types, GeneratorType, PrepareFresh, Goto
<1>4. DiskType'
  BY DEF IInv, Types, DiskType, PrepareFresh, disk, gate, generator, recorder,
    bounds
<1>5. RecorderType'
  BY DEF IInv, Types, GeneratorType, DiskType, RecorderType, TaskInv,
    PrepareFresh, Swept
<1>6. GateInv'
  BY DEF IInv, GateInv, PrepareFresh, Goto
<1>7. LockIsAccountedFor'
  BY DEF IInv, LockIsAccountedFor, PrepareFresh, Goto
<1>8. RunInv'
  BY DEF IInv, Types, GeneratorType, DiskType, RecorderType, RunInv,
    PrepareFresh, Swept, Goto
<1>9. RunningIsWritten'
  BY DEF IInv, Types, GeneratorType, DiskType, RecorderType, RunningIsWritten,
    PrepareFresh, Goto
<1>10. TaskInv'
  BY NoneAssumption DEF IInv, Types, GeneratorType, RecorderType, TaskInv,
    PrepareFresh, Goto
<1>11. DropInv'
  BY DEF IInv, DropInv, PrepareFresh, Goto
<1> QED BY <1>1, <1>2, <1>3, <1>4, <1>5, <1>6, <1>7, <1>8, <1>9, <1>10, <1>11 DEF IInv, Types

LEMMA PrepareResumeKeeps ==
  ASSUME IInv, NEW r \in Requests, pc[r] = "prepare", PrepareResume(r),
         UNCHANGED <<acq, epoch, scan, dropped, bounds>>
  PROVE  IInv'
BY NoneAssumption, BoundsAssumption DEF IInv, Types, LockType, GateType,
  GeneratorType, DiskType, RecorderType, GateInv, LockIsAccountedFor,
  RunInv, RunningIsWritten, TaskInv, DropInv, PrepareResume, Swept, Goto,
  Stay, disk, gate, generator, recorder, bounds

LEMMA PrepareSealedKeeps ==
  ASSUME IInv, NEW r \in Requests, pc[r] = "prepare", PrepareSealed(r),
         UNCHANGED <<acq, epoch, scan, dropped, bounds>>
  PROVE  IInv'
BY NoneAssumption, BoundsAssumption DEF IInv, Types, LockType, GateType,
  GeneratorType, DiskType, RecorderType, GateInv, LockIsAccountedFor,
  RunInv, RunningIsWritten, TaskInv, DropInv, PrepareSealed, Swept, Mark,
  Goto, Stay, disk, gate, generator, recorder, bounds

LEMMA PrepareFailsKeeps ==
  ASSUME IInv, NEW r \in Requests, pc[r] = "prepare", PrepareFails(r),
         UNCHANGED <<acq, epoch, scan, dropped, bounds>>
  PROVE  IInv'
<1>1. LockType'
  BY DEF IInv, Types, LockType, PrepareFails, Leave, Release
<1>2. GateType'
  BY DEF IInv, Types, GateType, PrepareFails, Leave, Vanish, Stay
<1>3. GeneratorType'
  BY DEF IInv, Types, GeneratorType, PrepareFails, Leave, Vanish
<1>4. DiskType'
  BY DEF IInv, Types, DiskType, PrepareFails, Swept, Mark, bounds
<1>5. RecorderType'
  BY DEF IInv, Types, RecorderType, TaskInv, PrepareFails, Leave, Vanish,
    recorder
<1>6. GateInv'
  BY DEF IInv, GateInv, PrepareFails, Leave, Vanish, Release
<1>7. LockIsAccountedFor'
  BY DEF IInv, Types, GeneratorType, LockIsAccountedFor, GateInv,
    PrepareFails, Leave, Vanish, Release
<1>8. RunInv'
  BY DEF IInv, RunInv, PrepareFails, Leave, Vanish, recorder
<1>9. RunningIsWritten'
  BY DEF IInv, RunningIsWritten, PrepareFails, Leave, Vanish, recorder
<1>10. TaskInv'
  BY DEF IInv, TaskInv, PrepareFails, Leave, Vanish, recorder
<1>11. DropInv'
  BY NoneAssumption DEF IInv, Types, GateType, DiskType, DropInv,
    PrepareFails, Mark, Leave, Vanish
<1> QED BY <1>1, <1>2, <1>3, <1>4, <1>5, <1>6, <1>7, <1>8, <1>9, <1>10, <1>11 DEF IInv, Types

LEMMA ResumeKeeps ==
  ASSUME IInv, NEW r \in Requests, Resume(r)
  PROVE  IInv'
<1>1. LockType'
  BY DEF IInv, Types, LockType, Resume, Leave, Release
<1>2. GateType'
  BY DEF IInv, Types, GateType, Resume, Goto, Stay, Leave, Vanish
<1>3. GeneratorType'
  BY DEF IInv, Types, GeneratorType, Resume, Goto, Create, Leave, Vanish
<1>4. DiskType'
  BY DEF IInv, Types, DiskType, Resume, Create, CancelAwaiting, Nowhere, Mark,
    bounds
<1>5. RecorderType'
  BY DEF IInv, Types, GeneratorType, RecorderType, TaskInv, Resume, Create,
    CancelAwaiting, Forget, Nowhere, Leave, Vanish, recorder
<1>6. GateInv'
  BY DEF IInv, Types, GeneratorType, GateInv, Resume, Goto, Leave, Vanish,
    Release
<1>7. LockIsAccountedFor'
  BY DEF IInv, Types, GeneratorType, LockIsAccountedFor, GateInv, Resume,
    Goto, Leave, Vanish, Release
<1>8. RunInv'
  BY DEF IInv, Types, GeneratorType, DiskType, RecorderType, RunInv, Resume,
    Goto, Create, CancelAwaiting, CanEnd, Forget, Nowhere, Leave, Vanish,
    recorder
<1>9. RunningIsWritten'
  BY DEF IInv, Types, GeneratorType, DiskType, RecorderType, RunningIsWritten,
    Resume, Goto, Create, CancelAwaiting, Forget, Nowhere, Leave, Vanish,
    recorder
<1>10. TaskInv'
  BY NoneAssumption DEF IInv, Types, GeneratorType, RecorderType, TaskInv,
    Resume, Goto, Create, CancelAwaiting, Forget, Nowhere, Leave, Vanish,
    recorder
<1>11. DropInv'
  BY NoneAssumption DEF IInv, Types, GateType, GeneratorType, DiskType,
    DropInv, Resume, Goto, Mark, Leave, Vanish
<1> QED BY <1>1, <1>2, <1>3, <1>4, <1>5, <1>6, <1>7, <1>8, <1>9, <1>10, <1>11 DEF IInv, Types

LEMMA RouteKeeps ==
  ASSUME IInv, NEW r \in Requests, Route(r)
  PROVE  IInv'
BY NoneAssumption, BoundsAssumption DEF IInv, Types, LockType, GateType,
  GeneratorType, DiskType, RecorderType, GateInv, LockIsAccountedFor,
  RunInv, RunningIsWritten, TaskInv, DropInv, Route, Goto, disk, gate,
  generator, recorder, bounds

LEMMA EnterKeeps ==
  ASSUME IInv, NEW r \in Requests, Enter(r)
  PROVE  IInv'
BY NoneAssumption, BoundsAssumption DEF IInv, Types, LockType, GateType,
  GeneratorType, DiskType, RecorderType, GateInv, LockIsAccountedFor,
  RunInv, RunningIsWritten, TaskInv, DropInv, Enter, Goto, disk, gate,
  generator, recorder, bounds

LEMMA BindFailsKeeps ==
  ASSUME IInv, NEW r \in Requests, BindFails(r)
  PROVE  IInv'
<1>1. LockType'
  BY DEF IInv, Types, LockType, BindFails, Leave, Release
<1>2. GateType'
  BY DEF IInv, Types, GateType, BindFails, Leave, Vanish, Stay
<1>3. GeneratorType'
  BY DEF IInv, Types, GeneratorType, BindFails, Leave, Vanish
<1>4. DiskType'
  BY DEF IInv, Types, DiskType, BindFails, Mark, End, Record, bounds
<1>5. RecorderType'
  BY DEF IInv, Types, GeneratorType, RecorderType, BindFails, End, Forget,
    Leave, Vanish
<1>6. GateInv'
  BY DEF IInv, GateInv, BindFails, Leave, Vanish, Release
<1>7. LockIsAccountedFor'
  BY DEF IInv, Types, GeneratorType, LockIsAccountedFor, GateInv, BindFails,
    Leave, Vanish, Release
<1>8. RunInv'
  BY DEF IInv, RunInv, BindFails, End, Record, Forget, Leave, Vanish
<1>9. RunningIsWritten'
  BY DEF IInv, RunningIsWritten, BindFails, End, Record, Forget, Leave, Vanish
<1>10. TaskInv'
  BY DEF IInv, Types, GeneratorType, RecorderType, TaskInv, BindFails, End,
    Forget, Leave, Vanish
<1>11. DropInv'
  BY NoneAssumption DEF IInv, Types, GateType, DiskType, DropInv, BindFails,
    Mark, Leave, Vanish
<1> QED BY <1>1, <1>2, <1>3, <1>4, <1>5, <1>6, <1>7, <1>8, <1>9, <1>10, <1>11 DEF IInv, Types

LEMMA PauseKeeps ==
  ASSUME IInv, NEW r \in Requests, Pause(r)
  PROVE  IInv'
BY NoneAssumption, BoundsAssumption DEF IInv, Types, LockType, GateType,
  GeneratorType, DiskType, RecorderType, GateInv, LockIsAccountedFor,
  RunInv, RunningIsWritten, TaskInv, DropInv, Pause, Streaming, Goto, Stay,
  StreamRest, disk, gate, generator, recorder, bounds

LEMMA CompleteKeeps ==
  ASSUME IInv, NEW r \in Requests, Complete(r)
  PROVE  IInv'
BY NoneAssumption, BoundsAssumption DEF IInv, Types, LockType, GateType,
  GeneratorType, DiskType, RecorderType, GateInv, LockIsAccountedFor,
  RunInv, RunningIsWritten, TaskInv, DropInv, Complete, Streaming, End,
  Record, Forget, Goto, Stay, StreamRest, disk, gate, generator, recorder,
  bounds

LEMMA StepLimitKeeps ==
  ASSUME IInv, NEW r \in Requests, StepLimit(r)
  PROVE  IInv'
BY NoneAssumption, BoundsAssumption DEF IInv, Types, LockType, GateType,
  GeneratorType, DiskType, RecorderType, GateInv, LockIsAccountedFor,
  RunInv, RunningIsWritten, TaskInv, DropInv, StepLimit, Streaming, End,
  Record, Forget, Goto, Stay, StreamRest, disk, gate, generator, recorder,
  bounds

LEMMA StreamFailsKeeps ==
  ASSUME IInv, NEW r \in Requests, StreamFails(r)
  PROVE  IInv'
<1>1. LockType'
  BY DEF IInv, Types, LockType, StreamFails, Leave, Release
<1>2. GateType'
  BY DEF IInv, Types, GateType, StreamFails, Leave, Vanish, Stay, StreamRest
<1>3. GeneratorType'
  BY DEF IInv, Types, GeneratorType, StreamFails, Leave, Vanish
<1>4. DiskType'
  BY DEF IInv, Types, DiskType, StreamFails, End, Record, StreamRest, bounds
<1>5. RecorderType'
  BY DEF IInv, Types, GeneratorType, RecorderType, StreamFails, End, Forget,
    Leave, Vanish, StreamRest
<1>6. GateInv'
  BY DEF IInv, GateInv, StreamFails, Streaming, Leave, Vanish, Release,
    StreamRest
<1>7. LockIsAccountedFor'
  BY DEF IInv, Types, GeneratorType, LockIsAccountedFor, GateInv, StreamFails,
    Streaming, Leave, Vanish, Release, StreamRest
<1>8. RunInv'
  BY DEF IInv, RunInv, StreamFails, End, Record, Forget, Leave, Vanish
<1>9. RunningIsWritten'
  BY DEF IInv, RunningIsWritten, StreamFails, End, Record, Forget, Leave,
    Vanish
<1>10. TaskInv'
  BY DEF IInv, Types, GeneratorType, RecorderType, TaskInv, StreamFails, End,
    Forget, Leave, Vanish
<1>11. DropInv'
  BY NoneAssumption DEF IInv, Types, GateType, GeneratorType, DiskType,
    DropInv, StreamFails, Leave, Vanish, StreamRest
<1> QED BY <1>1, <1>2, <1>3, <1>4, <1>5, <1>6, <1>7, <1>8, <1>9, <1>10, <1>11 DEF IInv, Types

LEMMA ReturnKeeps ==
  ASSUME IInv, NEW r \in Requests, Return(r)
  PROVE  IInv'
<1>1. LockType'
  BY DEF IInv, Types, LockType, Return, Leave, Release
<1>2. GateType'
  BY DEF IInv, Types, GateType, Return, Leave, Vanish, Stay, StreamRest
<1>3. GeneratorType'
  BY DEF IInv, Types, GeneratorType, Return, Leave, Vanish
<1>4. DiskType'
  BY DEF IInv, Types, DiskType, Return, Finalize, End, Record, StreamRest,
    bounds
<1>5. RecorderType'
  BY DEF IInv, Types, RecorderType, Return, Finalize, End, Forget, Leave,
    Vanish, StreamRest
<1>6. GateInv'
  BY DEF IInv, GateInv, Return, Leave, Vanish, Release, StreamRest
<1>7. LockIsAccountedFor'
  BY DEF IInv, Types, GeneratorType, LockIsAccountedFor, GateInv, Return,
    Leave, Vanish, Release, StreamRest
<1>8. RunInv'
  BY DEF IInv, Types, DiskType, RecorderType, RunInv, Return, Finalize, End,
    Record, Forget, Leave, Vanish
<1>9. RunningIsWritten'
  BY DEF IInv, Types, DiskType, RecorderType, RunningIsWritten, Return,
    Finalize, End, Record, Forget, Leave, Vanish
<1>10. TaskInv'
  BY DEF IInv, Types, RecorderType, TaskInv, Return, Finalize, End, Forget,
    Leave, Vanish
<1>11. DropInv'
  BY NoneAssumption DEF IInv, Types, GateType, DiskType, DropInv, Return,
    Leave, Vanish, StreamRest
<1> QED BY <1>1, <1>2, <1>3, <1>4, <1>5, <1>6, <1>7, <1>8, <1>9, <1>10, <1>11 DEF IInv, Types

LEMMA UnwindEarlyKeeps ==
  ASSUME IInv, NEW r \in Requests, UnwindEarly(r)
  PROVE  IInv'
<1>1. LockType'
  BY DEF IInv, Types, LockType, UnwindEarly, Leave, Release
<1>2. GateType'
  BY DEF IInv, Types, GateType, UnwindEarly, Leave, Vanish, Stay
<1>3. GeneratorType'
  BY DEF IInv, Types, GeneratorType, UnwindEarly, Leave, Vanish
<1>4. DiskType'
  BY DEF IInv, Types, DiskType, UnwindEarly, disk, bounds
<1>5. RecorderType'
  BY DEF IInv, Types, RecorderType, TaskInv, UnwindEarly, Leave, Vanish,
    recorder
<1>6. GateInv'
  BY DEF IInv, GateInv, UnwindEarly, Leave, Vanish, Release
<1>7. LockIsAccountedFor'
  BY DEF IInv, Types, GeneratorType, LockIsAccountedFor, GateInv, UnwindEarly,
    Leave, Vanish, Release
<1>8. RunInv'
  BY DEF IInv, RunInv, UnwindEarly, Leave, Vanish, disk, recorder
<1>9. RunningIsWritten'
  BY DEF IInv, RunningIsWritten, UnwindEarly, Leave, Vanish, disk, recorder
<1>10. TaskInv'
  BY DEF IInv, Types, GeneratorType, TaskInv, UnwindEarly, Leave, Vanish,
    recorder
<1>11. DropInv'
  BY NoneAssumption DEF IInv, Types, GateType, DiskType, DropInv, UnwindEarly,
    Leave, Vanish, disk
<1> QED BY <1>1, <1>2, <1>3, <1>4, <1>5, <1>6, <1>7, <1>8, <1>9, <1>10, <1>11 DEF IInv, Types

LEMMA UnwindKeeps ==
  ASSUME IInv, NEW r \in Requests, Unwind(r)
  PROVE  IInv'
<1>1. LockType'
  BY DEF IInv, Types, LockType, Unwind, Leave, Release
<1>2. GateType'
  BY DEF IInv, Types, GateType, Unwind, Leave, Vanish, Stay
<1>3. GeneratorType'
  BY DEF IInv, Types, GeneratorType, Unwind, Leave, Vanish
<1>4. DiskType'
  BY DEF IInv, Types, DiskType, Unwind, End, Record, bounds
<1>5. RecorderType'
  BY DEF IInv, Types, GeneratorType, RecorderType, Unwind, End, Forget, Leave,
    Vanish
<1>6. GateInv'
  BY DEF IInv, GateInv, Unwind, Leave, Vanish, Release
<1>7. LockIsAccountedFor'
  BY DEF IInv, Types, GeneratorType, LockIsAccountedFor, GateInv, Unwind,
    Leave, Vanish, Release
<1>8. RunInv'
  BY DEF IInv, RunInv, Unwind, End, Record, Forget, Leave, Vanish
<1>9. RunningIsWritten'
  BY DEF IInv, RunningIsWritten, Unwind, End, Record, Forget, Leave, Vanish
<1>10. TaskInv'
  BY DEF IInv, Types, GeneratorType, RecorderType, TaskInv, Unwind, End,
    Forget, Leave, Vanish
<1>11. DropInv'
  BY NoneAssumption DEF IInv, Types, GateType, DiskType, DropInv, Unwind,
    Leave, Vanish
<1> QED BY <1>1, <1>2, <1>3, <1>4, <1>5, <1>6, <1>7, <1>8, <1>9, <1>10, <1>11 DEF IInv, Types

LEMMA CloseKeeps ==
  ASSUME IInv, NEW r \in Requests, Close(r)
  PROVE  IInv'
<1>1. LockType'
  BY DEF IInv, Types, LockType, Close, Leave, Release
<1>2. GateType'
  BY DEF IInv, Types, GateType, Close, Leave, Vanish, Stay, StreamRest
<1>3. GeneratorType'
  BY DEF IInv, Types, GeneratorType, Close, Leave, Vanish
<1>4. DiskType'
  BY DEF IInv, Types, DiskType, Close, Finalize, End, Record, StreamRest,
    bounds
<1>5. RecorderType'
  BY DEF IInv, Types, RecorderType, Close, Finalize, End, Forget, Leave,
    Vanish, StreamRest
<1>6. GateInv'
  BY DEF IInv, GateInv, Close, Leave, Vanish, Release, StreamRest
<1>7. LockIsAccountedFor'
  BY DEF IInv, Types, GeneratorType, LockIsAccountedFor, GateInv, Close,
    Leave, Vanish, Release, StreamRest
<1>8. RunInv'
  BY DEF IInv, Types, DiskType, RecorderType, RunInv, Close, Finalize, End,
    Record, Forget, Leave, Vanish
<1>9. RunningIsWritten'
  BY NoneAssumption DEF IInv, Types, DiskType, RecorderType, RunningIsWritten,
    Close, Finalize, Orphaned, End, Record, Forget, Leave, Vanish
<1>10. TaskInv'
  BY DEF IInv, Types, GeneratorType, RecorderType, TaskInv, Close, Finalize,
    End, Forget, Leave, Vanish
<1>11. DropInv'
  BY NoneAssumption DEF IInv, Types, GateType, DiskType, DropInv, Close,
    Leave, Vanish, StreamRest
<1> QED BY <1>1, <1>2, <1>3, <1>4, <1>5, <1>6, <1>7, <1>8, <1>9, <1>10, <1>11 DEF IInv, Types

LEMMA DisconnectKeeps ==
  ASSUME IInv, NEW r \in Requests, Disconnect(r)
  PROVE  IInv'
BY NoneAssumption, BoundsAssumption DEF IInv, Types, LockType, GateType,
  GeneratorType, DiskType, RecorderType, GateInv, LockIsAccountedFor,
  RunInv, RunningIsWritten, TaskInv, DropInv, Disconnect, disk, gate,
  generator, recorder, bounds

LEMMA StopKeeps ==
  ASSUME IInv, NEW s \in Traces \cup {None}, Stop(s)
  PROVE  IInv'
BY NoneAssumption, BoundsAssumption DEF IInv, Types, LockType, GateType,
  GeneratorType, DiskType, RecorderType, GateInv, LockIsAccountedFor,
  RunInv, RunningIsWritten, TaskInv, DropInv, Stop, ClearQueue, Carriers,
  Waiting, disk, gate, generator, recorder, bounds

LEMMA AdvanceKeeps ==
  ASSUME IInv, NEW t \in Traces, Advance(t)
  PROVE  IInv'
BY NoneAssumption, BoundsAssumption DEF IInv, Types, LockType, GateType,
  GeneratorType, DiskType, RecorderType, GateInv, LockIsAccountedFor,
  RunInv, RunningIsWritten, TaskInv, DropInv, Advance, NoWaiters,
  CancelAwaiting, CanEnd, Forget, Nowhere, ClearQueue, Carriers, Waiting,
  disk, gate, generator, recorder, bounds

LEMMA ScanReadKeeps ==
  ASSUME IInv, NEW t \in Traces, ScanRead(t)
  PROVE  IInv'
BY NoneAssumption, BoundsAssumption DEF IInv, Types, LockType, GateType,
  GeneratorType, DiskType, RecorderType, GateInv, LockIsAccountedFor,
  RunInv, RunningIsWritten, TaskInv, DropInv, ScanRead, disk, gate,
  generator, recorder, bounds

LEMMA ScanCancelKeeps ==
  ASSUME IInv, ScanCancel
  PROVE  IInv'
BY NoneAssumption, BoundsAssumption DEF IInv, Types, LockType, GateType,
  GeneratorType, DiskType, RecorderType, GateInv, LockIsAccountedFor,
  RunInv, RunningIsWritten, TaskInv, DropInv, ScanCancel, End, Record,
  Forget, Nowhere, disk, gate, generator, recorder, bounds

LEMMA CrashKeeps ==
  ASSUME IInv, Crash
  PROVE  IInv'
<1>1. LockType'
  BY DEF IInv, Types, LockType, Crash
<1>2. GateType'
  BY DEF IInv, Types, GateType, Crash
<1>3. GeneratorType'
  BY DEF IInv, Types, GeneratorType, Crash
<1>4. DiskType'
  BY BoundsAssumption DEF IInv, Types, DiskType, Crash, disk
<1>5. RecorderType'
  BY DEF IInv, Types, RecorderType, Crash
<1>6. GateInv'
  BY DEF IInv, GateInv, Crash
<1>7. LockIsAccountedFor'
  BY DEF IInv, LockIsAccountedFor, Crash
<1>8. RunInv'
  BY DEF IInv, RunInv, Crash
<1>9. RunningIsWritten'
  BY DEF IInv, RunningIsWritten, Crash
<1>10. TaskInv'
  BY DEF IInv, TaskInv, Crash
<1>11. DropInv'
  BY NoneAssumption DEF IInv, Types, DiskType, DropInv, Crash, disk
<1> QED BY <1>1, <1>2, <1>3, <1>4, <1>5, <1>6, <1>7, <1>8, <1>9, <1>10, <1>11 DEF IInv, Types

-----------------------------------------------------------------------------
LEMMA StutterKeeps == ASSUME IInv, UNCHANGED vars PROVE IInv'
BY DEF IInv, Types, LockType, GateType, GeneratorType, DiskType, RecorderType, GateInv,
  LockIsAccountedFor, RunInv, RunningIsWritten, TaskInv, DropInv,
  vars, disk, gate, generator, recorder, bounds

LEMMA InitInv == Init => IInv
<1> SUFFICES ASSUME Init PROVE IInv
  OBVIOUS
<1>1. LockType /\ GateType
  BY DEF Init, LockType, GateType
<1>2. GeneratorType
  BY DEF Init, GeneratorType
<1>3. DiskType /\ RecorderType
  BY BoundsAssumption DEF Init, DiskType, RecorderType
<1>4. GateInv /\ LockIsAccountedFor
  BY DEF Init, GateInv, LockIsAccountedFor
<1>5. RunInv /\ RunningIsWritten /\ TaskInv /\ DropInv
  BY NoneAssumption DEF Init, RunInv, RunningIsWritten, TaskInv, DropInv
<1> QED BY <1>1, <1>2, <1>3, <1>4, <1>5 DEF IInv, Types

LEMMA PrepareKeeps == ASSUME IInv, NEW r \in Requests, Prepare(r) PROVE IInv'
<1>1. /\ pc[r] = "prepare" /\ UNCHANGED <<acq, epoch, scan, dropped, bounds>>
      /\ PrepareNew(r) \/ PrepareFresh(r) \/ PrepareResume(r) \/ PrepareSealed(r) \/ PrepareFails(r)
  BY DEF Prepare
<1> QED BY <1>1, PrepareNewKeeps, PrepareFreshKeeps, PrepareResumeKeeps, PrepareSealedKeeps, PrepareFailsKeeps

LEMMA StepKeeps == IInv /\ [Next]_vars => IInv'
<1> SUFFICES ASSUME IInv, [Next]_vars PROVE IInv'
  OBVIOUS
<1>1. ASSUME NEW r \in Requests, Serve(r) PROVE IInv'
  BY <1>1, RegisterKeeps, AcquireStartsKeeps, GrantedKeeps, ProceedKeeps, HiddenProceedsKeeps,
     LeaveEarlyKeeps, LeaveQueueKeeps, ReturnLockKeeps, PrepareKeeps, ResumeKeeps,
     RouteKeeps, EnterKeeps,
     BindFailsKeeps, PauseKeeps, CompleteKeeps, StepLimitKeeps, StreamFailsKeeps, ReturnKeeps,
     UnwindEarlyKeeps, UnwindKeeps, CloseKeeps
  DEF Serve
<1>2. ASSUME NEW r \in Requests, Disconnect(r) \/ \E m \in Messages : Admit(r, m) PROVE IInv'
  BY <1>2, DisconnectKeeps, AdmitKeeps
<1>3. ASSUME NEW t \in Traces \cup {None}, Stop(t) PROVE IInv'
  BY <1>3, StopKeeps
<1>4. ASSUME NEW t \in Traces, Advance(t) \/ ScanRead(t) PROVE IInv'
  BY <1>4, AdvanceKeeps, ScanReadKeeps
<1>5. CASE ScanCancel \/ Crash
  BY <1>5, ScanCancelKeeps, CrashKeeps
<1>6. CASE UNCHANGED vars
  BY <1>6, StutterKeeps
<1> QED BY <1>1, <1>2, <1>3, <1>4, <1>5, <1>6 DEF Next

LEMMA Invariant == Spec => []IInv
BY InitInv, StepKeeps, PTL DEF Spec

-----------------------------------------------------------------------------
(* The variables have their types, and the request registered for a run,    *)
(* which a stop would cancel, is one that serves it.                        *)
THEOREM ConversationTypes == Spec => []TypeOK
<1>1. IInv => TypeOK
  BY DEF IInv, Types, LockType, GateType, GeneratorType, DiskType, RecorderType, TypeOK
<1> QED BY <1>1, Invariant, PTL

(* The lock of the gate is held exactly when one party will give it back.   *)
THEOREM LockAccountedFor == Spec => []LockIsAccountedFor
<1>1. IInv => LockIsAccountedFor
  BY DEF IInv
<1> QED BY <1>1, Invariant, PTL

(* A run that the recorder counts as running has a generator that writes it.*)
THEOREM RunningWritten == Spec => []RunningIsWritten
<1>1. IInv => RunningIsWritten
  BY DEF IInv
<1> QED BY <1>1, Invariant, PTL

(* A message that a stop took out of the queue is not generated any more.   *)
THEOREM DroppedStaysOver == Spec => []DroppedIsOver
<1>1. IInv => DroppedIsOver
  BY DEF IInv, DropInv, DroppedIsOver, Carriers
<1> QED BY <1>1, Invariant, PTL

-----------------------------------------------------------------------------
(* What EndStays asks of a step.                                            *)
EndsKept == \A t \in Traces : index[t] \in Terminal => index'[t] = index[t]

(* A run ends by Record or CancelAwaiting, which look at memory, and at the *)
(* index, first.                                                            *)
LEMMA EndingKeeps ==
  ASSUME IInv, NEW t \in Traces \cup {None}, NEW s,
         End(t, s) \/ CancelAwaiting(t, s) \/ Finalize(t)
  PROVE  EndsKept
BY DEF IInv, Types, DiskType, RecorderType, RunInv, End, Record, CancelAwaiting, CanEnd, Nowhere, Finalize,
  Orphaned, EndsKept

LEMMA ServeKeepsEnds == ASSUME IInv, NEW r \in Requests, Serve(r) PROVE EndsKept
<1>0. /\ DiskType /\ RunInv /\ trace[r] \in Traces \cup {None}
      /\ None \notin Traces
  BY NoneAssumption DEF IInv, Types, GeneratorType
<1>1. CASE Register(r) \/ Proceed(r) \/ HiddenProceeds(r) \/ LeaveEarly(r) \/ LeaveQueue(r)
  BY <1>1 DEF Register, Proceed, HiddenProceeds, LeaveEarly, LeaveQueue, Stays, EndsKept
<1>2. CASE AcquireStarts(r) \/ Granted(r) \/ ReturnLock(r) \/ Route(r) \/ Enter(r)
              \/ UnwindEarly(r)
  BY <1>2 DEF AcquireStarts, Granted, ReturnLock, Route, Enter, UnwindEarly, disk, EndsKept
<1>3. CASE Prepare(r)
  <2>1. CASE PrepareNew(r)
    BY <1>0, <1>3, <2>1 DEF Prepare, PrepareNew, Create, RunInv, DiskType, EndsKept
  <2>2. CASE PrepareFresh(r)
    BY <1>0, <1>3, <2>2 DEF Prepare, PrepareFresh, Swept, CanEnd, RunInv, DiskType, EndsKept
  <2>3. CASE PrepareResume(r) \/ PrepareSealed(r) \/ PrepareFails(r)
    BY <2>3 DEF PrepareResume, PrepareSealed, PrepareFails, EndsKept
  <2> QED BY <1>3, <2>1, <2>2, <2>3 DEF Prepare
<1>4. CASE Resume(r)
  <2>1. index[r] = "absent"
    BY <1>0, <1>4 DEF Resume, RunInv
  <2>2. CASE CancelAwaiting(trace[r], "abandoned")
    BY <1>0, <2>2, EndingKeeps
  <2>3. CASE ~CancelAwaiting(trace[r], "abandoned")
    BY <1>0, <1>4, <2>1, <2>3 DEF Resume, Create, RunInv, DiskType, EndsKept
  <2> QED BY <2>2, <2>3
<1>5. CASE Pause(r)
  BY <1>0, <1>5 DEF Pause, RunInv, DiskType, EndsKept
<1>6. CASE BindFails(r) \/ Complete(r) \/ StepLimit(r) \/ StreamFails(r) \/ Unwind(r)
  BY <1>0, <1>6, EndingKeeps DEF BindFails, Complete, StepLimit, StreamFails, Unwind
<1>7. CASE Return(r) \/ Close(r)
  BY <1>0, <1>7, EndingKeeps DEF Return, Close
<1> QED BY <1>1, <1>2, <1>3, <1>4, <1>5, <1>6, <1>7 DEF Serve

(* A run that ended keeps its end: against late cancellations, the scanner's*)
(* stale reading, a resume, an advance and a restart.                       *)
THEOREM EndsStay == Spec => EndStays
<1>1. ASSUME IInv, [Next]_vars PROVE EndsKept
  <2>1. ASSUME NEW r \in Requests, Serve(r) PROVE EndsKept
    BY <1>1, <2>1, ServeKeepsEnds
  <2>2. ASSUME NEW r \in Requests, Disconnect(r) \/ \E m \in Messages : Admit(r, m) PROVE EndsKept
    BY <2>2 DEF Disconnect, Admit, Stays, disk, EndsKept
  <2>3. ASSUME NEW t \in Traces \cup {None}, Stop(t) PROVE EndsKept
    BY <2>3 DEF Stop, EndsKept
  <2>4. ASSUME NEW t \in Traces, Advance(t) PROVE EndsKept
    BY <1>1, <2>4, EndingKeeps DEF Advance
  <2>5. ASSUME NEW t \in Traces, ScanRead(t) PROVE EndsKept
    BY <2>5 DEF ScanRead, disk, EndsKept
  <2>6. CASE ScanCancel
    <3>1. scan \in Traces
      BY <1>1, <2>6 DEF IInv, Types, DiskType, ScanCancel
    <3>2. CASE scan \in active
      BY <1>1, <2>6, <3>1, <3>2, EndingKeeps DEF ScanCancel
    <3>3. CASE scan \notin active
      BY <2>6, <3>3 DEF ScanCancel, Nowhere, EndsKept
    <3> QED BY <3>2, <3>3
  <2>7. CASE Crash
    BY <2>7 DEF Crash, disk, EndsKept
  <2>8. CASE UNCHANGED vars
    BY <2>8 DEF vars, disk, EndsKept
  <2> QED BY <1>1, <2>1, <2>2, <2>3, <2>4, <2>5, <2>6, <2>7, <2>8 DEF Next
<1>2. IInv /\ [Next]_vars => [\A t \in Traces : index[t] \in Terminal => index'[t] = index[t]]_vars
  BY <1>1 DEF EndsKept
<1> QED BY <1>2, Invariant, PTL DEF Spec, EndStays

=============================================================================

