------------------------- MODULE ExperimentsProofs -------------------------
(***************************************************************************)
(* Theorems about an experiment and its publication, for every set of      *)
(* samples and every number of rounds, releases, orders, faults and        *)
(* crashes.                                                                *)
(*                                                                         *)
(* The document is written by the worker while the experiment is under way *)
(* and by requests from the review on (Late); the invariant says what the  *)
(* document, the worker's copy, the orders at the platform and the         *)
(* executor's tasks know of each other.                                    *)
(***************************************************************************)
EXTENDS Experiments, FiniteSetTheorems, TLAPS

(* From the review on, the worker has nothing to do but recover.            *)
Late == {"awaiting_review", "publishing", "publish_failed", "activated", "restored", "stale"}

(* The worker is between two writes of an experiment under way.             *)
Busy == {"check", "start", "poll", "score", "improve", "stop"}

(* What a document says was come by: the phases of its round in order, its  *)
(* versions from the platform, and nothing of a publication before it is    *)
(* Late.                                                                    *)
RoundEarned(d) ==
  /\ d.phase \in {"regression", "validation"} => d.explored = d.round
  /\ d.phase = "validation" => d.regressed = d.round /\ d.best = d.round
  /\ d.passed => /\ d.best = d.round /\ d.explored = d.round
                 /\ d.regressed = d.round /\ d.validated = d.round

VersionsEarned(d) ==
  /\ d.published # 0 => versions[d.published] = "cand" /\ d.approved
  /\ d.asked => d.published # 0
  /\ d.restored # 0 => versions[d.restored] = "base" /\ d.asked /\ d.published < d.restored
  /\ d.rollback # "none" => d.asked
  /\ d.status = "activated" => d.published # 0
  /\ d.status = "restored" => d.restored # 0

Unpublished(d) ==
  /\ ~d.passed /\ ~d.approved /\ ~d.asked
  /\ d.published = 0 /\ d.restored = 0 /\ d.rollback = "none" /\ d.pub = "not_started"

Earned(d) ==
  RoundEarned(d) /\ VersionsEarned(d) /\ (d.status \notin Late => Unpublished(d))

(* An order that was applied made the version after the one it expects.     *)
OrderEarned(o) ==
  /\ o.what = "promote" => o.expect = Original
  /\ o.what = "restore" => versions[o.expect] = "cand"
  /\ o.state = "applied" =>
       /\ o.version = o.expect + 1
       /\ versions[o.version] = IF o.what = "promote" THEN "cand" ELSE "base"

(* No two orders made the same version.                                     *)
OrdersInv ==
  /\ \A i \in 1..Sent : OrderEarned(orders[i])
  /\ \A i, j \in 1..Sent :
       /\ orders[i].state = "applied" /\ orders[j].state = "applied"
       /\ orders[i].version = orders[j].version
       => i = j

(* Whoever has the lock across a call knows what it asked for, and requests *)
(* and readers at work have seen the review.                                *)
LockInv ==
  /\ lock.at # "none" \/ detail # "none" => doc.status \in Late
  /\ lock.at \in {"promote", "ask"} => doc.approved /\ doc.published = 0
  /\ lock.at = "promote" => Sent > 0 /\ orders[Sent].what = "promote"
  /\ lock.at = "restore" =>
       /\ Sent > 0 /\ orders[Sent].what = "restore"
       /\ doc.asked /\ orders[Sent].expect = doc.published
  /\ lock.at = "confirm" =>
       IF lock.restoring THEN doc.restored # 0 ELSE doc.published # 0

(* While the worker is busy, only a stop can have changed the document      *)
(* since it was read; the copy of a recovery may be older than the document.*)
CopyInv ==
  /\ at \in Busy => /\ doc.status \in Active /\ mine.status \in Active
                    /\ mine = [doc EXCEPT !.status = mine.status]
  /\ at = "improve" => doc.phase = "evolving"
  /\ at \in {"recover", "writeback"} =>
       doc.status \in Late /\ mine.status \in Late /\ mine.sample = doc.sample
  /\ at = "confirm" => doc.status \in Late

(* A task exists only of a saved request, and runs only while its sample    *)
(* says so; what was generated is not running any more.                     *)
Tracked(s, t) ==
  /\ t # "absent" => s.saved
  /\ t \in Running => s.status \in {"running", "interrupted"}
  /\ s.generated => t \in {"completed", "absent"}

(* A sample is started once its request is saved, and only then.            *)
TaskInv ==
  /\ \A p \in Packages : Tracked(doc.sample[p], task[p])
  /\ at \in {"check", "start", "poll", "score"} => cur \in Packages
  /\ at \in {"check", "start"} =>
       /\ task[cur] = "absent" /\ doc.sample[cur].saved
       /\ doc.sample[cur].status = "running"
  /\ at \in {"check", "start", "poll"} => ~doc.sample[cur].generated
  /\ at = "score" => doc.sample[cur].generated

EarnedInv == Earned(doc) /\ Earned(mine)

Inv == TypeOK /\ EarnedInv /\ OrdersInv /\ LockInv /\ CopyInv /\ TaskInv

-----------------------------------------------------------------------------
(* Documents.                                                               *)

Samples == [Packages -> [status : SampleStatuses, saved : BOOLEAN, generated : BOOLEAN]]

LEMMA FreshSamples == Fresh \in Samples
BY DEF Fresh, Samples, SampleStatuses

LEMMA BlankDocument ==
  ASSUME Current \in Nat
  PROVE  Blank \in Documents /\ Earned(Blank)
<1>1. Blank \in Documents
  BY FreshSamples, PublicationAssumption
  DEF Blank, Documents, Samples, Statuses, Active, Phases
<1>2. Earned(Blank)
  BY DEF Blank, Earned, RoundEarned, VersionsEarned, Unpublished, Late
<1> QED BY <1>1, <1>2

(* A write keeps a recorded stop, and is a document.                        *)
LEMMA MergedDocument ==
  ASSUME doc \in Documents, NEW d \in Documents
  PROVE  Merged(d) \in Documents
<1>1. doc.status \in Statuses /\ doc.phase \in Phases
  BY DEF Documents
<1>2. [d EXCEPT !.status = doc.status, !.phase = doc.phase] \in Documents
  BY <1>1 DEF Documents
<1> QED BY <1>2 DEF Merged

(* From the review on a write is a write.                                   *)
LEMMA LateWrite ==
  ASSUME doc.status \in Late, NEW d
  PROVE  Merged(d) = d
BY DEF Merged, Late

(* A write of a document that differs from the stored one in status, round  *)
(* in hand and samples only: all that can be different is that it stops.    *)
LEMMA EarlyWrite ==
  ASSUME doc \in Documents, doc.status \in Active, Earned(doc),
         NEW d \in Documents, d.status \in Active \cup Ended,
         d = [doc EXCEPT !.status = d.status, !.open = d.open, !.sample = d.sample]
  PROVE  /\ Merged(d) \in Documents /\ Earned(Merged(d))
         /\ Merged(d) = [d EXCEPT !.status = Merged(d).status]
         /\ Merged(d).status \in {d.status, "stopping"}
         /\ doc.status = "stopping" => Merged(d).status \in {"stopping", "stopped"}
<1> DEFINE e == Merged(d)
<1>1. e \in Documents
  BY MergedDocument
<1>2. d.phase = doc.phase
  BY DEF Documents
<1>3. [d EXCEPT !.status = doc.status, !.phase = doc.phase] = [d EXCEPT !.status = doc.status]
  BY <1>2 DEF Documents
<1>4. \/ /\ doc.status = "stopping" /\ d.status \notin {"stopping", "stopped"}
         /\ e = [d EXCEPT !.status = doc.status]
      \/ (doc.status = "stopping" => d.status \in {"stopping", "stopped"}) /\ e = d
  BY <1>3 DEF Merged, Active
<1>5. /\ e = [d EXCEPT !.status = e.status]
      /\ e.status \in {d.status, "stopping"}
      /\ doc.status = "stopping" => e.status \in {"stopping", "stopped"}
  BY <1>4 DEF Documents
<1>6. e.status \notin Late
  BY <1>5 DEF Active, Ended, Late
<1>7. e = [doc EXCEPT !.status = e.status, !.open = e.open, !.sample = e.sample]
  BY <1>5 DEF Documents
<1>8. Earned(e)
  <2>1. doc.status \notin Late
    BY DEF Active, Late
  <2>2. RoundEarned(e)
    BY <1>7 DEF Earned, RoundEarned, Documents
  <2>3. Unpublished(e)
    BY <1>7, <2>1 DEF Earned, Unpublished, Documents
  <2>4. VersionsEarned(e)
    BY <1>6, <2>3 DEF VersionsEarned, Unpublished, Late
  <2> QED BY <2>2, <2>3, <2>4 DEF Earned
<1> QED BY <1>1, <1>5, <1>8

SampleRecords == [status : SampleStatuses, saved : BOOLEAN, generated : BOOLEAN]

(* The document d with r for the sample p.                                  *)
With(d, p, r) == [d EXCEPT !.sample[p] = r]

LEMMA WithDocument ==
  ASSUME NEW d \in Documents, NEW p \in Packages, NEW r \in SampleRecords
  PROVE  /\ With(d, p, r) \in Documents
         /\ With(d, p, r) = [d EXCEPT !.sample = With(d, p, r).sample]
         /\ With(d, p, r).sample = [d.sample EXCEPT ![p] = r]
         /\ With(d, p, r).status = d.status
BY DEF With, Documents, SampleRecords

(* The updates of the worker are of this form.                              *)
LEMMA SampleRecord ==
  ASSUME NEW d \in Documents, NEW p \in Packages
  PROVE  d.sample[p] \in SampleRecords /\ d.sample \in Samples
BY DEF Documents, SampleRecords, Samples

LEMMA SampleUpdate ==
  ASSUME NEW d \in Documents, NEW p \in Packages, NEW s \in SampleStatuses
  PROVE  Sample(d, p, s) = With(d, p, [d.sample[p] EXCEPT !.status = s])
BY SampleRecord DEF Sample, With, Documents, Samples

LEMMA SavedUpdate ==
  ASSUME NEW d \in Documents, NEW p \in Packages, NEW s \in SampleStatuses, NEW b \in BOOLEAN
  PROVE  [Sample(d, p, s) EXCEPT !.sample[p].saved = b]
           = With(d, p, [d.sample[p] EXCEPT !.status = s, !.saved = b])
BY SampleRecord DEF Sample, With, Documents, Samples

Generated(d, p, b) == [d EXCEPT !.sample[p].generated = b]
Finished(r, s, b) == [r EXCEPT !.status = s, !.generated = b]

LEMMA GeneratedUpdate ==
  ASSUME NEW d \in Documents, NEW p \in Packages, NEW s \in SampleStatuses, NEW b \in BOOLEAN
  PROVE  Generated(Sample(d, p, s), p, b) = With(d, p, Finished(d.sample[p], s, b))
BY SampleRecord DEF Sample, With, Documents, Samples, Generated, Finished

-----------------------------------------------------------------------------
(* The first state.                                                         *)

LEMMA InitInv == Init => Inv
<1> SUFFICES ASSUME Init PROVE Inv
  OBVIOUS
<1>1. Current = 1 /\ Sent = 0
  BY DEF Init, Current, Sent
<1>2. Blank \in Documents /\ Earned(Blank)
  BY <1>1, BlankDocument
<1>3. TypeOK
  <2>1. versions \in Seq(Commits) /\ \A S : orders \in Seq(S)
    BY DEF Init, Commits
  <2>2. /\ lock \in [by : {"nobody", "api", "worker"},
                     at : {"none", "promote", "ask", "restore", "confirm"},
                     version : 0..Current, restoring : BOOLEAN]
        /\ lock.by = "nobody" /\ lock.at = "none"
    BY <1>1 DEF Init, Free
  <2>3. task \in [Packages -> TaskStates]
    BY DEF Init, NoTask, TaskStates
  <2>4. Sent <= MaxOrders /\ faults \in 0..MaxFaults /\ crashes \in 0..MaxCrashes
    BY <1>1, PublicationAssumption, CrashesAssumption DEF Init
  <2>5. doc \in Documents /\ mine \in Documents
    BY <1>2 DEF Init
  <2>6. lock.by # "worker" /\ at = "top" /\ cur = None /\ detail = "none"
    BY DEF Init, Free
  <2>7. stopEvent \in BOOLEAN /\ stopping \in BOOLEAN /\ shutdown \in BOOLEAN
    BY DEF Init
  <2> QED BY <1>1, <2>1, <2>2, <2>3, <2>4, <2>5, <2>6, <2>7 DEF TypeOK
<1>4. OrdersInv
  BY <1>1 DEF OrdersInv
<1>5. EarnedInv
  BY <1>2 DEF Init, EarnedInv
<1>6. LockInv /\ CopyInv
  BY DEF Init, LockInv, CopyInv, Free, Busy
<1>7. TaskInv
  BY DEF Init, TaskInv, Blank, Fresh, NoTask, Tracked, Running
<1> QED BY <1>3, <1>4, <1>5, <1>6, <1>7 DEF Inv

-----------------------------------------------------------------------------
(* Steps of the worker.                                                     *)

(* EndStays, of one step.                                                   *)
EndKept ==
  /\ doc.status \in Ended => doc'.status = doc.status
  /\ doc.status = "stopping" => doc'.status \in {"stopping", "stopped"}

WorkerAt == {"none", "top", "pass", "check", "start", "poll", "score", "improve", "stop",
             "recover", "writeback"}

(* What a step of the worker without the lock has to show.                  *)
LEMMA WorkerStepInv ==
  ASSUME Inv, at # "confirm", lock.at = "none" \/ UNCHANGED doc,
         detail = "none" \/ doc'.status \in Late, Unlocked, Rest,
         doc' \in Documents, Earned(doc'), mine' \in Documents, Earned(mine'),
         at' \in WorkerAt, cur' \in Packages \cup {None},
         task' \in [Packages -> TaskStates], faults' \in 0..MaxFaults,
         CopyInv', TaskInv'
  PROVE  Inv'
<1> USE DEF Unlocked, Rest, platform
<1>1. Current' = Current /\ Sent' = Sent /\ Documents' = Documents
  BY DEF Current, Sent, Documents
<1>2. TypeOK'
  <2>1. lock.by # "worker"
    BY DEF Inv, TypeOK
  <2>2. (lock.by = "worker" <=> at = "confirm")'
    BY <2>1 DEF WorkerAt
  <2> QED BY <1>1, <2>2 DEF Inv, TypeOK, WorkerAt
<1>3. EarnedInv'
  BY DEF EarnedInv, Earned, RoundEarned, VersionsEarned, Unpublished
<1>4. OrdersInv'
  BY <1>1 DEF Inv, OrdersInv, OrderEarned
<1>5. LockInv'
  BY <1>1 DEF Inv, LockInv
<1> QED BY <1>2, <1>3, <1>4, <1>5 DEF Inv

(* The lock is free, so the worker does not have it.                        *)
LEMMA WorkerOutside ==
  ASSUME Inv, lock.at = "none"
  PROVE  at # "confirm"
BY DEF Inv, TypeOK

(* A step that ends a pass has only the samples and tasks to account for.   *)
LEMMA PassEnds ==
  ASSUME Inv, lock.at = "none", detail = "none" \/ doc'.status \in Late, Unlocked, Rest,
         EndPass, doc' \in Documents, Earned(doc'),
         task' \in [Packages -> TaskStates], faults' \in 0..MaxFaults,
         \A p \in Packages : Tracked(doc'.sample[p], task'[p])
  PROVE  Inv'
<1>1. Current \in Nat
  BY DEF Inv, TypeOK, Current
<1>2. Blank \in Documents /\ Earned(Blank)
  BY <1>1, BlankDocument
<1>3. CopyInv'
  BY DEF EndPass, CopyInv, Busy
<1>4. TaskInv'
  BY DEF EndPass, TaskInv, Tracked
<1> QED BY <1>2, <1>3, <1>4, WorkerOutside, WorkerStepInv DEF EndPass, WorkerAt

(* Before the review nobody has the lock across a call, and nobody looks at *)
(* production.                                                              *)
LEMMA EarlyAlone ==
  ASSUME Inv, doc.status \notin Late
  PROVE  lock.at = "none" /\ detail = "none"
BY DEF Inv, LockInv, TypeOK

LEMMA EarlyOrLate ==
  /\ Active \cap Late = {} /\ Ended \cap Late = {} /\ Active \cap Ended = {}
  /\ Statuses = Active \cup Ended \cup Late
BY DEF Active, Ended, Late, Statuses

(* A copy of the experiment under way, as the worker keeps one.             *)
IsCopy(c) == c \in Documents /\ c.status \in Active /\ c = [doc EXCEPT !.status = c.status]

LEMMA BusyCopy ==
  ASSUME Inv, at \in Busy
  PROVE  doc \in Documents /\ doc.status \in Active /\ Earned(doc) /\ IsCopy(mine)
BY DEF Inv, TypeOK, CopyInv, EarnedInv, IsCopy

(* What the worker writes at the end of a pass: only a stop, the round in   *)
(* hand and the samples are new.                                            *)
IsUpdate(d) ==
  /\ d \in Documents /\ d.status \in Active \cup Ended
  /\ d = [doc EXCEPT !.status = d.status, !.open = d.open, !.sample = d.sample]

LEMMA SavedAndEnded ==
  ASSUME Inv, doc.status \in Active, NEW d, IsUpdate(d), SaveAndEnd(d), Unlocked, Rest,
         task' \in [Packages -> TaskStates], faults' \in 0..MaxFaults,
         \A p \in Packages : Tracked(d.sample[p], task'[p])
  PROVE  Inv' /\ EndKept
<1>1. doc \in Documents /\ Earned(doc) /\ d \in Documents
  BY DEF Inv, TypeOK, EarnedInv, IsUpdate
<1>2. /\ doc' \in Documents /\ Earned(doc')
      /\ doc' = [d EXCEPT !.status = doc'.status]
      /\ doc.status = "stopping" => doc'.status \in {"stopping", "stopped"}
  BY <1>1, EarlyWrite DEF SaveAndEnd, Put, IsUpdate
<1>3. doc'.sample = d.sample
  BY <1>1, <1>2 DEF Documents
<1>4. doc.status \notin Late /\ doc.status \notin Ended
  BY EarlyOrLate
<1>5. lock.at = "none" /\ detail = "none"
  BY <1>4, EarlyAlone
<1>6. Inv'
  BY <1>2, <1>3, <1>5, PassEnds DEF SaveAndEnd
<1> QED BY <1>2, <1>4, <1>6 DEF EndKept

(* The worker writes and goes on.                                           *)
LEMMA SavedAndGoesOn ==
  ASSUME Inv, doc.status \in Active, NEW d, IsUpdate(d), d.status \in Active,
         NEW next \in {"check", "score"}, NEW p \in Packages,
         Save(d, next, p), Unlocked, Rest,
         task' \in [Packages -> TaskStates], faults' \in 0..MaxFaults,
         \A q \in Packages : Tracked(d.sample[q], task'[q]),
         next = "check" => /\ task'[p] = "absent" /\ d.sample[p].saved
                           /\ d.sample[p].status = "running" /\ ~d.sample[p].generated,
         next = "score" => d.sample[p].generated
  PROVE  Inv' /\ EndKept
<1>1. doc \in Documents /\ Earned(doc) /\ d \in Documents
  BY DEF Inv, TypeOK, EarnedInv, IsUpdate
<1>2. /\ doc' \in Documents /\ Earned(doc')
      /\ doc' = [d EXCEPT !.status = doc'.status]
      /\ doc'.status \in {d.status, "stopping"}
      /\ doc.status = "stopping" => doc'.status \in {"stopping", "stopped"}
  BY <1>1, EarlyWrite DEF Save, Put, IsUpdate
<1>3. doc'.sample = d.sample /\ doc'.status \in Active
  BY <1>1, <1>2 DEF Documents, Active
<1>4. doc.status \notin Late /\ doc.status \notin Ended
  BY EarlyOrLate
<1>5. lock.at = "none" /\ detail = "none"
  BY <1>4, EarlyAlone
<1>6. mine' = doc' /\ at' = next /\ cur' = p
  BY DEF Save, Put
<1>7. CopyInv'
  <2>1. mine' = [doc' EXCEPT !.status = mine'.status]
    BY <1>2, <1>6 DEF Documents
  <2> QED BY <1>3, <1>6, <2>1 DEF CopyInv, Busy
<1>8. TaskInv'
  BY <1>3, <1>6 DEF TaskInv
<1>9. at' \in WorkerAt /\ cur' \in Packages \cup {None}
  BY <1>6 DEF WorkerAt
<1>10. Inv'
  BY <1>2, <1>5, <1>6, <1>7, <1>8, <1>9, WorkerOutside, WorkerStepInv
<1> QED BY <1>2, <1>4, <1>10 DEF EndKept

(* Updates of one sample of a copy are updates.                             *)
LEMMA SampleIsUpdate ==
  ASSUME doc \in Documents, NEW c, IsCopy(c), NEW p \in Packages, NEW r \in SampleRecords
  PROVE  /\ IsUpdate(With(c, p, r)) /\ With(c, p, r).status \in Active
         /\ With(c, p, r).sample = [doc.sample EXCEPT ![p] = r]
<1> DEFINE d == With(c, p, r)
<1>1. /\ d \in Documents /\ d = [c EXCEPT !.sample = d.sample]
      /\ d.sample = [c.sample EXCEPT ![p] = r] /\ d.status = c.status
  BY WithDocument DEF IsCopy
<1>2. c.sample = doc.sample
  BY DEF IsCopy, Documents
<1> HIDE DEF d
<1>3. d = [doc EXCEPT !.status = d.status, !.open = d.open, !.sample = d.sample]
  BY <1>1 DEF IsCopy, Documents
<1> QED BY <1>1, <1>2, <1>3 DEF IsCopy, IsUpdate, d

LEMMA StatusIsUpdate ==
  ASSUME doc \in Documents, NEW c, IsCopy(c), NEW s \in Active \cup Ended
  PROVE  /\ IsUpdate([c EXCEPT !.status = s])
         /\ [c EXCEPT !.status = s].sample = doc.sample
<1>1. s \in Statuses
  BY DEF Statuses
<1>2. [c EXCEPT !.status = s] \in Documents
  BY <1>1 DEF IsCopy, Documents
<1> QED BY <1>2 DEF IsCopy, IsUpdate, Documents

(* A pass ends with a new record for the sample at hand.                    *)
LEMMA SampleSaved ==
  ASSUME Inv, at \in Busy, cur \in Packages, NEW r \in SampleRecords,
         SaveAndEnd(With(mine, cur, r)), Unlocked, Rest,
         task' \in [Packages -> TaskStates], faults' \in 0..MaxFaults,
         Tracked(r, task'[cur]), \A q \in Packages \ {cur} : task'[q] = task[q]
  PROVE  Inv' /\ EndKept
<1> DEFINE d == With(mine, cur, r)
<1>1. doc \in Documents /\ doc.status \in Active /\ IsCopy(mine)
  BY BusyCopy
<1>2. IsUpdate(d) /\ d.sample = [doc.sample EXCEPT ![cur] = r]
  BY <1>1, SampleIsUpdate
<1>3. doc.sample \in [Packages -> SampleRecords]
  BY <1>1 DEF Documents, SampleRecords
<1> HIDE DEF d
<1>4. ASSUME NEW p \in Packages PROVE Tracked(d.sample[p], task'[p])
  <2>1. CASE p = cur
    BY <1>2, <1>3, <2>1
  <2>2. CASE p # cur
    BY <1>2, <1>3, <2>2 DEF Inv, TaskInv
  <2> QED BY <2>1, <2>2
<1> QED BY <1>1, <1>2, <1>4, SavedAndEnded DEF d

(* A pass ends with a new status of the experiment.                         *)
LEMMA StatusSaved ==
  ASSUME Inv, at \in Busy, NEW s \in Active \cup Ended,
         SaveAndEnd([mine EXCEPT !.status = s]), Unlocked, Rest,
         task' \in [Packages -> TaskStates], faults' \in 0..MaxFaults,
         \A p \in Packages : Tracked(doc.sample[p], task'[p])
  PROVE  Inv' /\ EndKept
<1>1. doc \in Documents /\ doc.status \in Active /\ IsCopy(mine)
  BY BusyCopy
<1> QED BY <1>1, StatusIsUpdate, SavedAndEnded

(* A pass ends and nothing is written.                                      *)
LEMMA Dropped ==
  ASSUME Inv, at \in Busy, Drop, Unlocked, Rest, UNCHANGED <<task, faults>>
  PROVE  Inv' /\ EndKept
<1>1. doc \in Documents /\ doc.status \in Active /\ Earned(doc) /\ doc' = doc
  BY BusyCopy DEF Drop
<1>2. doc.status \notin Late /\ doc.status \notin Ended
  BY <1>1, EarlyOrLate
<1>3. lock.at = "none" /\ detail = "none"
  BY <1>2, EarlyAlone
<1>4. \A p \in Packages : Tracked(doc'.sample[p], task'[p])
  BY <1>1 DEF Inv, TaskInv
<1>5. task' \in [Packages -> TaskStates] /\ faults' \in 0..MaxFaults
  BY DEF Inv, TypeOK
<1>6. Inv'
  BY <1>1, <1>3, <1>4, <1>5, PassEnds DEF Drop
<1> QED BY <1>1, <1>2, <1>6 DEF EndKept

LEMMA FaultType ==
  ASSUME Inv, Fault \/ UNCHANGED faults
  PROVE  faults' \in 0..MaxFaults
BY PublicationAssumption DEF Inv, TypeOK, Fault

LEMMA CheckStep ==
  ASSUME Inv, Check
  PROVE  Inv' /\ EndKept
<1>1. /\ at = "check" /\ at \in Busy /\ cur \in Packages /\ Unlocked /\ Rest
      /\ UNCHANGED <<task, faults>>
      /\ task[cur] = "absent" /\ ~doc.sample[cur].generated
  BY DEF Check, Busy, Inv, TaskInv
<1>2. /\ doc \in Documents /\ doc.status \in Active /\ Earned(doc) /\ IsCopy(mine)
      /\ mine.sample = doc.sample
  BY <1>1, BusyCopy DEF IsCopy, Documents
<1>3. task' \in [Packages -> TaskStates] /\ faults' \in 0..MaxFaults
  BY <1>1 DEF Inv, TypeOK
<1>4. CASE SaveAndEnd([Sample(mine, cur, "pending") EXCEPT !.sample[cur].saved = FALSE])
  <2> DEFINE r == [mine.sample[cur] EXCEPT !.status = "pending", !.saved = FALSE]
  <2>1. /\ mine.sample[cur] \in SampleRecords
        /\ [Sample(mine, cur, "pending") EXCEPT !.sample[cur].saved = FALSE] = With(mine, cur, r)
    BY <1>1, <1>2, SampleRecord, SavedUpdate DEF IsCopy, SampleStatuses
  <2>2. r \in SampleRecords /\ Tracked(r, "absent")
    BY <1>1, <1>2, <2>1 DEF SampleRecords, SampleStatuses, Tracked, Running
  <2> HIDE DEF r
  <2> QED BY <1>1, <1>3, <1>4, <2>1, <2>2, SampleSaved
<1>5. CASE at' = "start" /\ UNCHANGED <<doc, mine, cur>>
  <2>1. doc.status \notin Late /\ doc.status \notin Ended
    BY <1>2, EarlyOrLate
  <2>2. lock.at = "none" /\ detail = "none"
    BY <2>1, EarlyAlone
  <2>3. CopyInv' /\ TaskInv'
    BY <1>1, <1>5 DEF Inv, CopyInv, TaskInv, Busy
  <2>4. Earned(doc') /\ Earned(mine') /\ doc' \in Documents /\ mine' \in Documents
    BY <1>2, <1>5 DEF Inv, EarnedInv, IsCopy
  <2>5. at' \in WorkerAt /\ cur' \in Packages \cup {None}
    BY <1>1, <1>5 DEF WorkerAt
  <2>6. Inv'
    BY <1>1, <1>3, <2>2, <2>3, <2>4, <2>5, WorkerOutside, WorkerStepInv
  <2> QED BY <1>5, <2>1, <2>6 DEF EndKept
<1> QED BY <1>4, <1>5 DEF Check

(* What is told of a task goes into the sample; a task that was running may *)
(* run on, resumed or not.                                                  *)
LEMMA ToldStep ==
  ASSUME Inv, at \in {"start", "poll"}, NEW t, Told(t), Unlocked, Rest,
         doc.sample[cur].saved,
         task' \in [Packages -> TaskStates], faults' \in 0..MaxFaults,
         IF t \in Running THEN task'[cur] \in Running ELSE task'[cur] = t,
         \A q \in Packages \ {cur} : task'[q] = task[q]
  PROVE  Inv' /\ EndKept
<1>1. at \in Busy /\ cur \in Packages /\ ~doc.sample[cur].generated
  BY DEF Busy, Inv, TaskInv
<1>2. /\ doc \in Documents /\ doc.status \in Active /\ IsCopy(mine)
      /\ mine.sample = doc.sample
  BY <1>1, BusyCopy DEF IsCopy, Documents
<1>3. mine.sample[cur] \in SampleRecords
  BY <1>1, <1>2 DEF IsCopy, Documents, SampleRecords
<1>4. ASSUME NEW s \in SampleStatuses, SaveAndEnd(Sample(mine, cur, s)),
             t \in Running => s \in {"running", "interrupted"}
      PROVE  Inv' /\ EndKept
  <2> DEFINE r == [mine.sample[cur] EXCEPT !.status = s]
  <2>1. Sample(mine, cur, s) = With(mine, cur, r)
    BY <1>1, <1>2, <1>4, SampleUpdate DEF IsCopy
  <2>2. r \in SampleRecords /\ Tracked(r, task'[cur])
    BY <1>1, <1>2, <1>3, <1>4 DEF SampleRecords, Tracked
  <2> HIDE DEF r
  <2> QED BY <1>1, <1>4, <2>1, <2>2, SampleSaved
<1>5. ASSUME t = "completed",
             Save([Sample(mine, cur, "scoring") EXCEPT !.sample[cur].generated = TRUE],
                  "score", cur)
      PROVE  Inv' /\ EndKept
  <2> DEFINE r == [mine.sample[cur] EXCEPT !.status = "scoring", !.generated = TRUE]
             d == With(mine, cur, r)
  <2>1. [Sample(mine, cur, "scoring") EXCEPT !.sample[cur].generated = TRUE] = d
    <3>1. "scoring" \in SampleStatuses /\ mine \in Documents
      BY <1>2 DEF SampleStatuses, IsCopy
    <3>2. Generated(Sample(mine, cur, "scoring"), cur, TRUE)
            = With(mine, cur, Finished(mine.sample[cur], "scoring", TRUE))
      BY <1>1, <3>1, GeneratedUpdate
    <3>3. Generated(Sample(mine, cur, "scoring"), cur, TRUE)
            = [Sample(mine, cur, "scoring") EXCEPT !.sample[cur].generated = TRUE]
      BY DEF Generated
    <3>4. Finished(mine.sample[cur], "scoring", TRUE) = r
      BY DEF Finished
    <3> QED BY <3>2, <3>3, <3>4
  <2>2. r \in SampleRecords /\ Tracked(r, task'[cur]) /\ r.generated
    BY <1>1, <1>2, <1>3, <1>5 DEF SampleRecords, SampleStatuses, Tracked, Running
  <2> HIDE DEF r
  <2>3. IsUpdate(d) /\ d.status \in Active /\ d.sample = [doc.sample EXCEPT ![cur] = r]
    BY <1>1, <1>2, <2>2, SampleIsUpdate
  <2>4. doc.sample \in [Packages -> SampleRecords]
    BY <1>2 DEF Documents, SampleRecords
  <2> HIDE DEF d
  <2>5. d.sample[cur] = r
    BY <1>1, <2>3, <2>4
  <2>6. ASSUME NEW p \in Packages PROVE Tracked(d.sample[p], task'[p])
    <3>1. CASE p = cur
      BY <2>2, <2>5, <3>1
    <3>2. CASE p # cur
      BY <2>3, <2>4, <3>2 DEF Inv, TaskInv
    <3> QED BY <3>1, <3>2
  <2> QED BY <1>1, <1>2, <1>5, <2>1, <2>2, <2>3, <2>5, <2>6, SavedAndGoesOn
<1> QED BY <1>4, <1>5 DEF Told, Running, SampleStatuses

(* Starting and resuming change the task at hand only.                      *)
LEMMA AskedOfTask ==
  ASSUME Inv, cur \in Packages, NEW t \in {task, Started, Resumed}
  PROVE  /\ t \in [Packages -> TaskStates]
         /\ \A q \in Packages \ {cur} : t[q] = task[q]
         /\ task[cur] = "absent" => t[cur] \in {"absent", "live"}
         /\ task[cur] # "absent" => IF task[cur] \in Running THEN t[cur] \in Running
                                    ELSE t[cur] = task[cur]
         /\ t = Started /\ task[cur] = "absent" => t[cur] = "live"
         /\ t = Resumed /\ task[cur] = "absent" => t = task
BY DEF Inv, TypeOK, TaskStates, Running, Started, Resumed

LEMMA StartStep ==
  ASSUME Inv, Start
  PROVE  Inv' /\ EndKept
<1>1. /\ at = "start" /\ at \in Busy /\ cur \in Packages /\ Unlocked /\ Rest
      /\ task[cur] = "absent" /\ doc.sample[cur].saved
      /\ doc.sample[cur].status = "running" /\ ~doc.sample[cur].generated
  BY DEF Start, Busy, Inv, TaskInv
<1>2. doc \in Documents /\ IsCopy(mine) /\ mine.sample = doc.sample
  BY <1>1, BusyCopy DEF IsCopy, Documents
<1>3. CASE task' = Started /\ Told(task'[cur]) /\ UNCHANGED faults
  <2>1. /\ task' \in [Packages -> TaskStates] /\ task'[cur] = "live"
        /\ \A q \in Packages \ {cur} : task'[q] = task[q]
    BY <1>1, <1>3, AskedOfTask
  <2> QED BY <1>1, <1>3, <2>1, FaultType, ToldStep DEF Running
<1>4. CASE SaveAndEnd(Sample(mine, cur, "failed")) /\ UNCHANGED <<task, faults>>
  <2> DEFINE r == [mine.sample[cur] EXCEPT !.status = "failed"]
  <2>1. mine.sample[cur] \in SampleRecords /\ Sample(mine, cur, "failed") = With(mine, cur, r)
    BY <1>1, <1>2, SampleRecord, SampleUpdate DEF IsCopy, SampleStatuses
  <2>2. r \in SampleRecords /\ Tracked(r, task'[cur])
    BY <1>1, <1>2, <1>4, <2>1 DEF SampleRecords, SampleStatuses, Tracked, Running
  <2>3. task' \in [Packages -> TaskStates]
    BY <1>4 DEF Inv, TypeOK
  <2> HIDE DEF r
  <2> QED BY <1>1, <1>4, <2>1, <2>2, <2>3, FaultType, SampleSaved
<1>5. CASE task' \in {task, Started} /\ Unavailable(mine)
  <2>1. /\ task' \in [Packages -> TaskStates] /\ task'[cur] \in {"absent", "live"}
        /\ \A q \in Packages \ {cur} : task'[q] = task[q]
    BY <1>1, <1>5, AskedOfTask
  <2>2. ASSUME NEW p \in Packages PROVE Tracked(doc.sample[p], task'[p])
    <3>1. CASE p = cur
      BY <1>1, <2>1, <3>1 DEF Tracked
    <3>2. CASE p # cur
      BY <2>1, <3>2 DEF Inv, TaskInv
    <3> QED BY <3>1, <3>2
  <2> QED BY <1>1, <1>5, <2>1, <2>2, FaultType, StatusSaved DEF Unavailable, Active
<1> QED BY <1>3, <1>4, <1>5 DEF Start

(* The request is saved before the task is started; it was not there before.*)
LEMMA DispatchStep ==
  ASSUME Inv, doc.status \in Active, NEW c, IsCopy(c), cur' \in Packages, Dispatch(c, cur'),
         Unlocked, Rest, UNCHANGED <<task, faults>>, task[cur'] = "absent",
         ~doc.sample[cur'].generated
  PROVE  Inv' /\ EndKept
<1> DEFINE p == cur'
           r == [c.sample[p] EXCEPT !.status = "running", !.saved = TRUE]
           d == With(c, p, r)
<1>1. doc \in Documents /\ c \in Documents /\ c.sample = doc.sample
  BY DEF Inv, TypeOK, IsCopy, Documents
<1>2. c.sample[p] \in SampleRecords
      /\ [Sample(c, p, "running") EXCEPT !.sample[p].saved = TRUE] = d
  BY <1>1, SampleRecord, SavedUpdate DEF SampleStatuses
<1>3. /\ r \in SampleRecords /\ r.saved /\ r.status = "running" /\ ~r.generated
      /\ Tracked(r, task[p])
  BY <1>1, <1>2 DEF SampleRecords, SampleStatuses, Tracked, Running
<1> HIDE DEF r
<1>4. IsUpdate(d) /\ d.status \in Active /\ d.sample = [doc.sample EXCEPT ![p] = r]
  BY <1>1, <1>3, SampleIsUpdate
<1>5. doc.sample \in [Packages -> SampleRecords]
  BY <1>1 DEF Documents, SampleRecords
<1> HIDE DEF d
<1>6. d.sample[p] = r
  BY <1>4, <1>5
<1>7. ASSUME NEW q \in Packages PROVE Tracked(d.sample[q], task'[q])
  <2>1. CASE q = p
    BY <1>3, <1>6, <2>1
  <2>2. CASE q # p
    BY <1>4, <1>5, <2>2 DEF Inv, TaskInv
  <2> QED BY <2>1, <2>2
<1>8. Save(d, "check", p)
  BY <1>2 DEF Dispatch
<1>9. task' \in [Packages -> TaskStates]
  BY DEF Inv, TypeOK
<1> QED BY <1>3, <1>4, <1>6, <1>7, <1>8, <1>9, FaultType, SavedAndGoesOn

LEMMA PollStep ==
  ASSUME Inv, Poll
  PROVE  Inv' /\ EndKept
<1>1. /\ at = "poll" /\ at \in Busy /\ cur \in Packages /\ Unlocked /\ Rest
      /\ ~doc.sample[cur].generated
      /\ Tracked(doc.sample[cur], task[cur])
  BY DEF Poll, Busy, Inv, TaskInv
<1>2. doc \in Documents /\ doc.status \in Active /\ IsCopy(mine)
  BY <1>1, BusyCopy
<1>3. CASE task[cur] # "absent" /\ Told(task[cur]) /\ task' = Resumed /\ UNCHANGED faults
  <2>1. doc.sample[cur].saved
    BY <1>1, <1>3 DEF Tracked
  <2>2. /\ task' \in [Packages -> TaskStates]
        /\ \A q \in Packages \ {cur} : task'[q] = task[q]
        /\ IF task[cur] \in Running THEN task'[cur] \in Running ELSE task'[cur] = task[cur]
    BY <1>1, <1>3, AskedOfTask
  <2> QED BY <1>1, <1>3, <2>1, <2>2, FaultType, ToldStep
<1>4. CASE task[cur] = "absent" /\ Dispatch(mine, cur) /\ UNCHANGED <<task, faults>>
  <2>1. cur' = cur
    BY <1>4 DEF Dispatch, Save
  <2> QED BY <1>1, <1>2, <1>4, <2>1, DispatchStep
<1>5. CASE task' \in {task, Resumed} /\ Unavailable(mine)
  <2>1. /\ task' \in [Packages -> TaskStates]
        /\ \A q \in Packages \ {cur} : task'[q] = task[q]
        /\ task[cur] = "absent" => task'[cur] = "absent"
        /\ task[cur] # "absent" => IF task[cur] \in Running THEN task'[cur] \in Running
                                   ELSE task'[cur] = task[cur]
    BY <1>1, <1>5, AskedOfTask
  <2>2. ASSUME NEW p \in Packages PROVE Tracked(doc.sample[p], task'[p])
    <3>1. CASE p = cur
      BY <1>1, <2>1, <3>1 DEF Tracked, Running
    <3>2. CASE p # cur
      BY <2>1, <3>2 DEF Inv, TaskInv
    <3> QED BY <3>1, <3>2
  <2> QED BY <1>1, <1>5, <2>1, <2>2, FaultType, StatusSaved DEF Unavailable, Active
<1> QED BY <1>3, <1>4, <1>5 DEF Poll

LEMMA ScoreStep ==
  ASSUME Inv, Score
  PROVE  Inv' /\ EndKept
<1>1. /\ at = "score" /\ at \in Busy /\ cur \in Packages /\ Unlocked /\ Rest
      /\ UNCHANGED task /\ doc.sample[cur].generated
      /\ Tracked(doc.sample[cur], task[cur])
  BY DEF Score, Busy, Inv, TaskInv
<1>2. doc \in Documents /\ IsCopy(mine) /\ mine.sample = doc.sample
  BY <1>1, BusyCopy DEF IsCopy, Documents
<1>3. ASSUME NEW s \in SampleStatuses, SaveAndEnd(Sample(mine, cur, s)),
             Fault \/ UNCHANGED faults
      PROVE  Inv' /\ EndKept
  <2> DEFINE r == [mine.sample[cur] EXCEPT !.status = s]
  <2>1. mine.sample[cur] \in SampleRecords /\ Sample(mine, cur, s) = With(mine, cur, r)
    BY <1>1, <1>2, <1>3, SampleRecord, SampleUpdate DEF IsCopy
  <2>2. r \in SampleRecords /\ Tracked(r, task'[cur])
    BY <1>1, <1>2, <1>3, <2>1 DEF SampleRecords, Tracked, Running
  <2>3. task' \in [Packages -> TaskStates]
    BY <1>1 DEF Inv, TypeOK
  <2> HIDE DEF r
  <2> QED BY <1>1, <1>3, <2>1, <2>2, <2>3, FaultType, SampleSaved
<1>4. CASE IsStopped /\ Drop /\ UNCHANGED faults
  BY <1>1, <1>4, Dropped
<1> QED BY <1>3, <1>4 DEF Score, SampleStatuses

(* Whatever the executor did for a call nobody waits for, its tasks agree   *)
(* with the samples.                                                        *)
LEMMA StopAsked ==
  ASSUME Inv, at = "stop", NEW a \in StopAnswers, NEW p \in Packages
  PROVE  /\ Asked(task[p], a[p]) \in TaskStates
         /\ task[p] = "absent" => Asked(task[p], a[p]) = "absent"
         /\ task[p] \notin Running => Asked(task[p], a[p]) = task[p]
         /\ Tracked(doc.sample[p], Asked(task[p], a[p]))
<1>1. Tracked(doc.sample[p], task[p]) /\ task[p] \in TaskStates
  BY DEF Inv, TypeOK, TaskInv
<1>2. Asked(task[p], a[p]) \in {task[p], "stopped", "stopping"}
  BY DEF Asked
<1>3. task[p] \notin Running => Asked(task[p], a[p]) = task[p]
  BY DEF Asked
<1>4. Tracked(doc.sample[p], Asked(task[p], a[p]))
  BY <1>1, <1>2, <1>3 DEF Tracked, Running
<1> QED BY <1>1, <1>2, <1>3, <1>4 DEF TaskStates, Running

LEMMA LostCalls ==
  ASSUME Inv, NEW t \in CallLost
  PROVE  /\ t \in [Packages -> TaskStates]
         /\ \A p \in Packages : Tracked(doc.sample[p], t[p])
<1>1. task \in [Packages -> TaskStates] /\ \A p \in Packages : Tracked(doc.sample[p], task[p])
  BY DEF Inv, TypeOK, TaskInv
<1>2. CASE at = "start" /\ t = Started
  <2>1. cur \in Packages /\ task[cur] = "absent" /\ doc.sample[cur].saved
        /\ doc.sample[cur].status = "running" /\ ~doc.sample[cur].generated
    BY <1>2 DEF Inv, TaskInv
  <2>2. t = [task EXCEPT ![cur] = "live"]
    BY <1>2, <2>1 DEF Started
  <2>3. Tracked(doc.sample[cur], "live")
    BY <2>1 DEF Tracked
  <2>4. ASSUME NEW p \in Packages PROVE Tracked(doc.sample[p], t[p])
    BY <1>1, <2>2, <2>3
  <2> QED BY <1>1, <2>2, <2>4 DEF TaskStates, Running
<1>3. CASE at = "poll" /\ t = Resumed
  BY <1>1, <1>3 DEF Resumed, Tracked, TaskStates, Running
<1>4. ASSUME at = "stop", NEW a \in StopAnswers, t = [p \in Packages |-> Asked(task[p], a[p])]
      PROVE  /\ t \in [Packages -> TaskStates]
             /\ \A p \in Packages : Tracked(doc.sample[p], t[p])
  BY <1>4, StopAsked
<1>5. \/ t = task
      \/ at = "start" /\ t = Started
      \/ at = "poll" /\ t = Resumed
      \/ at = "stop" /\ \E a \in StopAnswers : t = [p \in Packages |-> Asked(task[p], a[p])]
  BY DEF CallLost
<1> QED BY <1>1, <1>2, <1>3, <1>4, <1>5

LEMMA WorkerFailsStep ==
  ASSUME Inv, WorkerFails
  PROVE  Inv' /\ EndKept
<1>1. /\ at \in Busy /\ Fault /\ SaveAndEnd([doc EXCEPT !.status = "failed"])
      /\ task' \in CallLost /\ Unlocked /\ Rest
  BY DEF WorkerFails, Busy
<1>2. doc \in Documents /\ doc.status \in Active
  BY <1>1, BusyCopy
<1>3. IsCopy(doc)
  BY <1>2 DEF IsCopy, Documents
<1>4. "failed" \in Active \cup Ended
  BY DEF Ended
<1>5. /\ IsUpdate([doc EXCEPT !.status = "failed"])
      /\ [doc EXCEPT !.status = "failed"].sample = doc.sample
  BY <1>2, <1>3, <1>4, StatusIsUpdate
<1>6. /\ task' \in [Packages -> TaskStates]
      /\ \A p \in Packages : Tracked(doc.sample[p], task'[p])
  BY <1>1, LostCalls
<1> QED BY <1>1, <1>2, <1>5, <1>6, FaultType, SavedAndEnded

(* The pass that stops: a sample is only given up when its task does not    *)
(* run any more.                                                            *)
LEMMA StopPassStep ==
  ASSUME Inv, StopPass
  PROVE  Inv' /\ EndKept
<1>1. at = "stop" /\ at \in Busy /\ Unlocked /\ Rest
  BY DEF StopPass, Busy
<1>2. /\ doc \in Documents /\ doc.status \in Active /\ IsCopy(mine)
      /\ mine.sample = doc.sample
  BY <1>1, BusyCopy DEF IsCopy, Documents
<1>3. PICK a \in StopAnswers :
        LET waiting == StillRunning(a)
            rest == [mine EXCEPT !.sample = [p \in Packages |->
                       IF p \in waiting \/ mine.sample[p].status \in {"completed", "failed"}
                         THEN mine.sample[p]
                         ELSE [mine.sample[p] EXCEPT !.status = "stopped"]]]
        IN /\ task' = [p \in Packages |-> Asked(task[p], a[p])]
           /\ SaveAndEnd([rest EXCEPT !.status = IF waiting = {} THEN "stopped" ELSE "stopping"])
           /\ IF \E p \in Packages : a[p] = "unavailable" THEN Fault ELSE UNCHANGED faults
  BY DEF StopPass
<1> DEFINE kept(p) == p \in StillRunning(a) \/ mine.sample[p].status \in {"completed", "failed"}
           after == [p \in Packages |-> IF kept(p) THEN mine.sample[p]
                                        ELSE [mine.sample[p] EXCEPT !.status = "stopped"]]
           verdict == IF StillRunning(a) = {} THEN "stopped" ELSE "stopping"
           d == [[mine EXCEPT !.sample = after] EXCEPT !.status = verdict]
<1>4. task' \in [Packages -> TaskStates] /\ faults' \in 0..MaxFaults /\ SaveAndEnd(d)
  <2>1. task' \in [Packages -> TaskStates]
    BY <1>1, <1>3, StopAsked
  <2>2. Fault \/ UNCHANGED faults
    BY <1>3
  <2>3. SaveAndEnd(d)
    BY <1>3
  <2> QED BY <2>1, <2>2, <2>3, FaultType
<1>5. ASSUME NEW p \in Packages PROVE Tracked(after[p], task'[p])
  <2>1. /\ Tracked(doc.sample[p], task'[p]) /\ task'[p] = Asked(task[p], a[p])
        /\ mine.sample[p] = doc.sample[p]
    BY <1>1, <1>2, <1>3, StopAsked
  <2>2. CASE kept(p)
    BY <2>1, <2>2
  <2>3. CASE ~kept(p)
    <3>1. task[p] \in Running => Dispatched(mine, p)
      <4>1. Tracked(doc.sample[p], task[p])
        BY DEF Inv, TaskInv
      <4> QED BY <2>1, <4>1 DEF Tracked, Dispatched, Running
    <3>2. a[p] \in {"unasked", "over", "stopping", "unavailable"}
          /\ (a[p] = "unasked" <=> ~Dispatched(mine, p))
      BY DEF StopAnswers
    <3>3. a[p] # "unavailable" /\ ~(a[p] = "stopping" /\ task[p] \in Running)
      BY <2>3 DEF StillRunning
    <3>4. task'[p] \notin Running
      BY <2>1, <3>1, <3>2, <3>3 DEF Asked, Running
    <3>5. mine.sample[p] \in SampleRecords
      BY <1>2, SampleRecord DEF IsCopy
    <3>6. after[p] = [mine.sample[p] EXCEPT !.status = "stopped"]
      BY <2>3
    <3> QED BY <2>1, <3>4, <3>5, <3>6 DEF Tracked, SampleRecords
  <2> QED BY <2>2, <2>3
<1>6. after \in Samples
  <2>1. \A p \in Packages : mine.sample[p] \in SampleRecords
    BY <1>2, SampleRecord DEF IsCopy
  <2> QED BY <2>1 DEF Samples, SampleRecords, SampleStatuses
<1> HIDE DEF after
<1>7. verdict \in Active \cup Ended
  BY DEF Active, Ended
<1> HIDE DEF verdict
<1>8. d \in Documents /\ d.status = verdict /\ d.sample = after
  <2>1. verdict \in Statuses
    BY <1>7 DEF Statuses
  <2> QED BY <1>2, <1>6, <2>1 DEF IsCopy, Documents, Samples
<1>9. d = [doc EXCEPT !.status = d.status, !.open = d.open, !.sample = d.sample]
  BY <1>2, <1>8 DEF IsCopy, Documents
<1> HIDE DEF d
<1>10. IsUpdate(d)
  BY <1>7, <1>8, <1>9 DEF IsUpdate
<1> QED BY <1>1, <1>2, <1>4, <1>5, <1>8, <1>10, SavedAndEnded

(* A pass that ends with an experiment under way before and whatever its    *)
(* document earned after.                                                   *)
LEMMA EarnedAndEnded ==
  ASSUME Inv, doc.status \in Active, NEW d \in Documents, Earned(Merged(d)),
         SaveAndEnd(d), Unlocked, Rest,
         task' \in [Packages -> TaskStates], faults' \in 0..MaxFaults,
         \A p \in Packages : Tracked(d.sample[p], task'[p])
  PROVE  Inv' /\ EndKept
<1>1. doc \in Documents
  BY DEF Inv, TypeOK
<1>2. doc' = Merged(d) /\ doc' \in Documents
  BY <1>1, MergedDocument DEF SaveAndEnd, Put
<1>3. doc'.sample = d.sample /\ (doc.status = "stopping" => doc'.status \in {"stopping", "stopped"})
  BY <1>2 DEF Merged, Documents
<1>4. doc.status \notin Late /\ doc.status \notin Ended
  BY EarlyOrLate
<1>5. lock.at = "none" /\ detail = "none"
  BY <1>4, EarlyAlone
<1>6. Inv'
  BY <1>2, <1>3, <1>5, PassEnds DEF SaveAndEnd
<1> QED BY <1>3, <1>4, <1>6 DEF EndKept

LEMMA ImproveStep ==
  ASSUME Inv, Improve
  PROVE  Inv' /\ EndKept
<1>1. at = "improve" /\ at \in Busy /\ Unlocked /\ Rest /\ doc.phase = "evolving"
  BY DEF Improve, Busy, Inv, CopyInv
<1>2. /\ doc \in Documents /\ doc.status \in Active /\ Earned(doc) /\ IsCopy(mine)
      /\ mine.sample = doc.sample /\ mine \in Documents
  BY <1>1, BusyCopy DEF IsCopy, Documents
<1>3. \A p \in Packages : Tracked(doc.sample[p], task[p])
  BY DEF Inv, TaskInv
<1>4. task \in [Packages -> TaskStates]
  BY DEF Inv, TypeOK
<1>5. CASE SaveAndEnd(NextRound(mine, TRUE)) /\ task' = NoTask /\ UNCHANGED faults
  <2> DEFINE d == NextRound(mine, TRUE)
             e == Merged(d)
  <2>1. d = [mine EXCEPT !.sample = Fresh, !.open = FALSE, !.phase = "exploration"]
    BY <1>2 DEF NextRound, NewSamples, Documents
  <2>2. d \in Documents
    BY <1>2, <2>1, FreshSamples DEF Documents, Samples, Phases
  <2>3. d = [doc EXCEPT !.status = mine.status, !.sample = Fresh, !.open = FALSE,
                        !.phase = "exploration"]
    BY <1>2, <2>1 DEF IsCopy, Documents
  <2>4. e = d \/ e = [d EXCEPT !.status = doc.status, !.phase = doc.phase]
    BY DEF Merged
  <2>5. /\ e.phase \in {"exploration", "evolving"} /\ e.status \in Active
        /\ e = [doc EXCEPT !.status = e.status, !.sample = Fresh, !.open = FALSE,
                           !.phase = e.phase]
    <3> HIDE DEF d, e
    <3>1. mine.status \in Active
      BY <1>2 DEF IsCopy
    <3>2. CASE e = d
      BY <1>2, <2>3, <3>1, <3>2 DEF Documents
    <3>3. CASE e = [d EXCEPT !.status = doc.status, !.phase = doc.phase]
      BY <1>1, <1>2, <2>3, <3>3 DEF Documents
    <3> QED BY <2>4, <3>2, <3>3
  <2>6. e.status \notin Late /\ doc.status \notin Late
    BY <1>2, <2>5, EarlyOrLate
  <2> HIDE DEF e, d
  <2>7. Unpublished(e)
    BY <1>2, <2>5, <2>6 DEF Earned, Unpublished, Documents
  <2>8. RoundEarned(e)
    BY <2>5, <2>7 DEF RoundEarned, Unpublished
  <2>9. VersionsEarned(e)
    BY <2>6, <2>7 DEF VersionsEarned, Unpublished, Late
  <2>10. task' \in [Packages -> TaskStates]
    BY <1>5 DEF NoTask, TaskStates
  <2>11. ASSUME NEW p \in Packages PROVE Tracked(d.sample[p], task'[p])
    BY <1>2, <1>5, <2>1 DEF Documents, Fresh, NoTask, Tracked, Running
  <2>12. Earned(e)
    BY <2>7, <2>8, <2>9 DEF Earned
  <2> QED BY <1>1, <1>2, <1>5, <2>2, <2>10, <2>11, <2>12, FaultType, EarnedAndEnded DEF d, e
<1>6. CASE SaveAndEnd([mine EXCEPT !.open = FALSE]) /\ UNCHANGED <<task, faults>>
  <2> DEFINE d == [mine EXCEPT !.open = FALSE]
  <2>1. d \in Documents /\ d.sample = doc.sample /\ d.status = mine.status
    BY <1>2 DEF Documents
  <2>2. d = [doc EXCEPT !.status = d.status, !.open = d.open, !.sample = d.sample]
    BY <1>2 DEF IsCopy, Documents
  <2> HIDE DEF d
  <2>3. IsUpdate(d)
    BY <1>2, <2>1, <2>2 DEF IsCopy, IsUpdate
  <2> QED BY <1>1, <1>2, <1>3, <1>4, <1>6, <2>1, <2>3, FaultType, SavedAndEnded DEF d
<1>7. CASE Unavailable(mine) /\ UNCHANGED task
  BY <1>1, <1>3, <1>4, <1>7, FaultType, StatusSaved DEF Unavailable, Active
<1>8. CASE IsStopped /\ Drop /\ UNCHANGED <<task, faults>>
  BY <1>1, <1>8, Dropped
<1> QED BY <1>5, <1>6, <1>7, <1>8 DEF Improve

LEMMA TopStep ==
  ASSUME Inv, Top
  PROVE  Inv' /\ EndKept
<1>1. at = "top" /\ at' \in {"none", "pass"} /\ UNCHANGED <<doc, mine, cur, task, faults>>
      /\ Unlocked /\ Rest
  BY DEF Top
<1>2. Current' = Current /\ Sent' = Sent /\ Documents' = Documents
  BY <1>1 DEF Rest, platform, Current, Sent, Documents
<1>3. TypeOK'
  BY <1>1, <1>2 DEF Inv, TypeOK, Rest, platform, Unlocked
<1>4. EarnedInv' /\ OrdersInv' /\ LockInv'
  BY <1>1, <1>2 DEF Inv, EarnedInv, Earned, RoundEarned, VersionsEarned, Unpublished,
     OrdersInv, OrderEarned, LockInv, Rest, platform, Unlocked
<1>5. CopyInv' /\ TaskInv'
  BY <1>1 DEF Inv, CopyInv, TaskInv, Busy
<1>6. EndKept
  BY <1>1 DEF EndKept
<1> QED BY <1>3, <1>4, <1>5, <1>6 DEF Inv

(* A step that leaves the document and the lock alone.                      *)
LEMMA WorkerReads ==
  ASSUME Inv, at # "confirm", UNCHANGED <<doc, task, faults>>, Unlocked, Rest,
         mine' \in Documents, Earned(mine'), at' \in WorkerAt, cur' \in Packages \cup {None},
         CopyInv', TaskInv'
  PROVE  Inv' /\ EndKept
<1>1. doc' \in Documents /\ Earned(doc')
  BY DEF Inv, TypeOK, EarnedInv
<1>2. detail = "none" \/ doc'.status \in Late
  BY DEF Inv, LockInv
<1>3. task' \in [Packages -> TaskStates] /\ faults' \in 0..MaxFaults
  BY DEF Inv, TypeOK
<1>4. Inv'
  BY <1>1, <1>2, <1>3, WorkerStepInv
<1> QED BY <1>4 DEF EndKept

(* The results of a phase are compared.                                     *)
LEMMA DecidedEarned ==
  ASSUME NEW d \in Documents, Earned(d), d.status = "running", d.phase \in Sampled,
         NEW passed \in BOOLEAN
  PROVE  /\ Decided(d, passed) \in Documents /\ Earned(Decided(d, passed))
<1> USE FreshSamples DEF Documents, Samples, Phases
<1>1. Unpublished(d) /\ RoundEarned(d)
  BY DEF Earned, Late
<1>2. CASE d.phase = "baseline"
  <2> DEFINE e == [d EXCEPT !.phase = "evolving"]
  <2>1. Decided(d, passed) = e
    BY <1>2 DEF Decided
  <2>2. e \in Documents /\ e.status = "running" /\ Unpublished(e) /\ e.phase = "evolving"
    BY <1>1 DEF Unpublished
  <2> HIDE DEF e
  <2> QED BY <2>1, <2>2 DEF Earned, RoundEarned, VersionsEarned, Unpublished, Late
<1>3. CASE d.phase = "exploration"
  <2> DEFINE e == Decided(d, passed)
  <2>1. e = IF passed THEN [[d EXCEPT !.explored = d.round] EXCEPT !.sample = Fresh,
                                                                   !.phase = "regression"]
            ELSE [d EXCEPT !.explored = d.round, !.phase = "evolving"]
    BY <1>3 DEF Decided, NewSamples
  <2> HIDE DEF e
  <2>2. /\ e \in Documents /\ e.status = "running" /\ Unpublished(e)
        /\ e.phase \in {"regression", "evolving"} /\ e.explored = e.round
    BY <1>1, <2>1 DEF Unpublished
  <2>3. Earned(e)
    BY <2>2 DEF Earned, RoundEarned, VersionsEarned, Unpublished, Late
  <2> QED BY <2>2, <2>3 DEF e
<1>4. CASE d.phase = "regression"
  <2> DEFINE e == Decided(d, passed)
  <2>1. e = IF passed THEN [[d EXCEPT !.regressed = d.round]
                              EXCEPT !.sample = Fresh, !.phase = "validation", !.best = d.round]
            ELSE [d EXCEPT !.regressed = d.round, !.phase = "evolving"]
    BY <1>4 DEF Decided, NewSamples
  <2> HIDE DEF e
  <2>2. /\ e \in Documents /\ e.status = "running" /\ Unpublished(e)
        /\ e.phase \in {"validation", "evolving"} /\ e.explored = e.round
        /\ e.regressed = e.round /\ (e.phase = "validation" => e.best = e.round)
    BY <1>1, <1>4, <2>1 DEF Unpublished, RoundEarned
  <2>3. Earned(e)
    BY <2>2 DEF Earned, RoundEarned, VersionsEarned, Unpublished, Late
  <2> QED BY <2>2, <2>3 DEF e
<1>5. CASE d.phase = "validation"
  <2> DEFINE e == Decided(d, passed)
             ok == passed /\ d.regressed = d.round
  <2>1. e = [d EXCEPT !.validated = d.round, !.passed = ok, !.phase = "review",
                      !.sample = Fresh,
                      !.status = IF ok THEN "awaiting_review" ELSE "validation_failed"]
    BY <1>5 DEF Decided
  <2> HIDE DEF e
  <2>2. ok \in BOOLEAN
    OBVIOUS
  <2> HIDE DEF ok
  <2>3. e \in Documents
    BY <2>1, <2>2 DEF Statuses, Active, Ended
  <2>4. /\ e.phase = "review" /\ e.validated = e.round /\ e.passed = ok
        /\ e.status = IF ok THEN "awaiting_review" ELSE "validation_failed"
        /\ e.explored = e.round /\ e.regressed = e.round /\ e.best = e.round
        /\ ~e.approved /\ ~e.asked /\ e.published = 0 /\ e.restored = 0
        /\ e.rollback = "none" /\ e.pub = "not_started"
    BY <1>1, <1>5, <2>1 DEF Unpublished, RoundEarned
  <2>5. Earned(e)
    BY <2>4 DEF Earned, RoundEarned, VersionsEarned, Unpublished, Late
  <2> QED BY <2>3, <2>5 DEF e
<1> QED BY <1>2, <1>3, <1>4, <1>5 DEF Sampled

(* The experiment goes on: its next sample, its next phase or round.        *)
LEMMA AdvanceStep ==
  ASSUME Inv, at = "pass", doc.status \in Active \ {"stopping"},
         Advance([doc EXCEPT !.status = "running"]), UNCHANGED faults, Unlocked, Rest
  PROVE  Inv' /\ EndKept
<1> DEFINE d == [doc EXCEPT !.status = "running"]
<1>1. doc \in Documents /\ Earned(doc) /\ task \in [Packages -> TaskStates]
  BY DEF Inv, TypeOK, EarnedInv
<1>2. IsCopy(d) /\ d \in Documents /\ d.sample = doc.sample /\ d.phase = doc.phase
      /\ d.status = "running"
  BY <1>1 DEF IsCopy, Documents, Statuses, Active
<1>3. Earned(d)
  BY <1>1, <1>2, EarlyOrLate
  DEF Earned, RoundEarned, VersionsEarned, Unpublished, Late, Documents
<1>4. \A p \in Packages : Tracked(doc.sample[p], task[p])
  BY DEF Inv, TaskInv
<1>5. \A e : Merged(e) = e
  BY DEF Merged, Active
<1>6. Advance(d)
  OBVIOUS
<1>7. at # "confirm"
  OBVIOUS
<1> HIDE DEF d
<1>8. ASSUME NEW p \in Packages, ProcessSample(d, p), UNCHANGED task
      PROVE  Inv' /\ EndKept
  <2>1. CASE d.sample[p].generated /\ Save(Sample(d, p, "scoring"), "score", p)
    <3> DEFINE r == [d.sample[p] EXCEPT !.status = "scoring"]
               e == With(d, p, r)
    <3>1. "scoring" \in SampleStatuses
      BY DEF SampleStatuses
    <3>2. d.sample[p] \in SampleRecords /\ Sample(d, p, "scoring") = e
      BY <1>2, <1>8, <3>1, SampleRecord, SampleUpdate
    <3>3. r \in SampleRecords /\ r.generated /\ Tracked(r, task[p])
      BY <1>2, <1>4, <1>8, <2>1, <3>1, <3>2 DEF SampleRecords, Tracked, Running
    <3> HIDE DEF r
    <3>4. IsUpdate(e) /\ e.status \in Active /\ e.sample = [doc.sample EXCEPT ![p] = r]
      BY <1>1, <1>2, <1>8, <3>3, SampleIsUpdate
    <3> HIDE DEF e
    <3>5. doc.sample \in [Packages -> SampleRecords]
      BY <1>1 DEF Documents, SampleRecords
    <3>6. e.sample[p] = r /\ \A q \in Packages : Tracked(e.sample[q], task'[q])
      BY <1>4, <1>8, <3>3, <3>4, <3>5
    <3>7. task' \in [Packages -> TaskStates]
      BY <1>1, <1>8
    <3> QED BY <1>8, <2>1, <3>2, <3>3, <3>4, <3>6, <3>7, FaultType, SavedAndGoesOn
  <2>2. CASE /\ ~d.sample[p].generated /\ mine' = d /\ at' = "poll" /\ cur' = p
             /\ UNCHANGED doc
    <3>1. CopyInv'
      BY <1>2, <2>2 DEF CopyInv, Busy, IsCopy
    <3>2. TaskInv'
      BY <1>2, <1>4, <1>8, <2>2 DEF TaskInv
    <3>3. at' \in WorkerAt /\ cur' \in Packages \cup {None}
      BY <1>8, <2>2 DEF WorkerAt
    <3> QED BY <1>2, <1>3, <1>7, <1>8, <2>2, <3>1, <3>2, <3>3, WorkerReads
  <2>3. CASE ~d.sample[p].generated /\ ~d.sample[p].saved /\ Dispatch(d, p)
    <3>1. cur' = p
      BY <2>3 DEF Dispatch, Save
    <3>2. task[p] = "absent"
      BY <1>2, <1>4, <1>8, <2>3 DEF Tracked
    <3> QED BY <1>2, <1>8, <2>3, <3>1, <3>2, DispatchStep
  <2> QED BY <1>8, <2>1, <2>2, <2>3 DEF ProcessSample
<1>9. ASSUME NEW passed \in BOOLEAN, d.phase \in Sampled, SaveAndEnd(Decided(d, passed)),
             task' = NoTask
      PROVE  Inv' /\ EndKept
  <2> DEFINE e == Decided(d, passed)
  <2>1. e \in Documents /\ Earned(e)
    BY <1>2, <1>3, <1>9, DecidedEarned
  <2>2. task' \in [Packages -> TaskStates]
    BY <1>9 DEF NoTask, TaskStates
  <2> HIDE DEF e
  <2>3. ASSUME NEW p \in Packages PROVE Tracked(e.sample[p], task'[p])
    BY <1>9 DEF NoTask, Tracked, Running
  <2>4. Earned(Merged(e))
    BY <1>5, <2>1
  <2> QED BY <1>9, <2>1, <2>2, <2>3, <2>4, FaultType, EarnedAndEnded DEF e
<1>10. CASE /\ d.phase = "evolving" /\ d.round < MaxRounds
            /\ Save(NextRound(d, FALSE), "improve", None) /\ UNCHANGED task
  <2> DEFINE e == NextRound(d, FALSE)
  <2>1. e = [d EXCEPT !.round = d.round + 1, !.open = TRUE]
    BY <1>2 DEF NextRound, Documents
  <2> HIDE DEF e
  <2>2. d.round + 1 \in 0..MaxRounds
    BY <1>2, <1>10, PublicationAssumption DEF Documents
  <2>3. /\ e \in Documents /\ e.sample = doc.sample /\ e.phase = "evolving"
        /\ e.status = "running"
    BY <1>2, <1>10, <2>1, <2>2 DEF Documents
  <2>4. Unpublished(e)
    BY <1>2, <1>3, <2>1 DEF Earned, Unpublished, Documents, Late
  <2>5. Earned(e)
    BY <2>3, <2>4 DEF Earned, RoundEarned, VersionsEarned, Unpublished, Late
  <2>6. doc' = e /\ mine' = e /\ at' = "improve" /\ cur' = None /\ lock = Free
    BY <1>5, <1>10 DEF Save, Put, e
  <2>7. CopyInv'
    BY <2>3, <2>6 DEF CopyInv, Busy, Active, Documents
  <2>8. TaskInv'
    BY <1>4, <1>10, <2>3, <2>6 DEF TaskInv
  <2>9. lock.at = "none" /\ detail = "none"
    BY EarlyOrLate, EarlyAlone
  <2>10. task' \in [Packages -> TaskStates] /\ at' \in WorkerAt
    BY <1>1, <1>10, <2>6 DEF WorkerAt
  <2>11. Inv'
    BY <1>7, <2>3, <2>5, <2>6, <2>7, <2>8, <2>9, <2>10, FaultType, WorkerStepInv
  <2> QED BY <2>11, EarlyOrLate DEF EndKept
<1>11. CASE SaveAndEnd([d EXCEPT !.status = "exhausted"]) /\ UNCHANGED task
  <2>1. "exhausted" \in Active \cup Ended
    BY DEF Ended
  <2>2. /\ IsUpdate([d EXCEPT !.status = "exhausted"])
        /\ [d EXCEPT !.status = "exhausted"].sample = doc.sample
    BY <1>1, <1>2, <2>1, StatusIsUpdate
  <2>3. task' \in [Packages -> TaskStates]
    BY <1>1, <1>11
  <2> QED BY <1>4, <1>11, <2>2, <2>3, FaultType, SavedAndEnded
<1>12. CASE /\ d.phase = "evolving" /\ mine' = d /\ at' = "improve"
            /\ UNCHANGED <<doc, cur, task>>
  <2>1. CopyInv'
    BY <1>2, <1>12 DEF CopyInv, Busy, IsCopy
  <2>2. TaskInv'
    BY <1>4, <1>12 DEF TaskInv
  <2>3. at' \in WorkerAt /\ cur' \in Packages \cup {None}
    BY <1>12 DEF WorkerAt, Inv, TypeOK
  <2> QED BY <1>2, <1>3, <1>7, <1>12, <2>1, <2>2, <2>3, WorkerReads
<1> QED BY <1>6, <1>8, <1>9, <1>10, <1>11, <1>12 DEF Advance

(* Before the review there is nothing to recover.                           *)
LEMMA RecoveryIsLate ==
  ASSUME NEW d \in Documents, Earned(d), NeedsRecovery(d)
  PROVE  d.status \in Late
BY DEF Earned, Unpublished, NeedsRecovery, Late

LEMMA PassStep ==
  ASSUME Inv, Pass
  PROVE  Inv' /\ EndKept
<1>1. at = "pass" /\ at # "confirm" /\ UNCHANGED faults /\ Unlocked /\ Rest
  BY DEF Pass
<1>2. doc \in Documents /\ Earned(doc) /\ Current \in Nat
  BY DEF Inv, TypeOK, EarnedInv, Current
<1>3. \A p \in Packages : Tracked(doc.sample[p], task[p])
  BY DEF Inv, TaskInv
<1>4. CASE NeedsRecovery(doc) /\ mine' = doc /\ at' = "recover" /\ UNCHANGED <<doc, cur, task>>
  <2>1. doc.status \in Late
    BY <1>2, <1>4, RecoveryIsLate
  <2>2. CopyInv' /\ TaskInv'
    BY <1>3, <1>4, <2>1 DEF CopyInv, TaskInv, Busy
  <2>3. at' \in WorkerAt /\ cur' \in Packages \cup {None}
    BY <1>4 DEF WorkerAt, Inv, TypeOK
  <2> QED BY <1>1, <1>2, <1>4, <2>2, <2>3, WorkerReads
<1>5. CASE Drop /\ UNCHANGED task
  <2>1. mine' = Blank /\ at' = "top" /\ cur' = None /\ UNCHANGED doc
    BY <1>5 DEF Drop, EndPass
  <2>2. CopyInv' /\ TaskInv'
    BY <1>3, <1>5, <2>1 DEF CopyInv, TaskInv, Busy
  <2>3. at' \in WorkerAt
    BY <2>1 DEF WorkerAt
  <2> QED BY <1>1, <1>2, <1>5, <2>1, <2>2, <2>3, BlankDocument, WorkerReads
<1>6. CASE doc.status \in Active /\ mine' = doc /\ at' = "stop" /\ UNCHANGED <<doc, cur, task>>
  <2>1. mine' = [doc' EXCEPT !.status = mine'.status]
    BY <1>2, <1>6 DEF Documents
  <2>2. CopyInv' /\ TaskInv'
    BY <1>3, <1>6, <2>1 DEF CopyInv, TaskInv, Busy
  <2>3. at' \in WorkerAt /\ cur' \in Packages \cup {None}
    BY <1>6 DEF WorkerAt, Inv, TypeOK
  <2> QED BY <1>1, <1>2, <1>6, <2>2, <2>3, WorkerReads
<1>7. CASE doc.status \in Active \ {"stopping"} /\ Advance([doc EXCEPT !.status = "running"])
  BY <1>1, <1>7, AdvanceStep
<1> QED BY <1>4, <1>5, <1>6, <1>7 DEF Pass

-----------------------------------------------------------------------------
(* From the review on.                                                      *)

(* A document that says as much of the candidate as the one it replaces.    *)
IsLate(d) == d \in Documents /\ Earned(d) /\ d.status \in Late /\ d.sample = doc.sample

LEMMA LateDocument ==
  ASSUME Inv, doc.status \in Late
  PROVE  IsLate(doc) /\ at \notin Busy /\ Current \in Nat /\ Current > 0
BY EarlyOrLate DEF Inv, TypeOK, EarnedInv, IsLate, CopyInv, Current

(* New words for how the publication and the restore stand.                 *)
LEMMA LateWords ==
  ASSUME NEW d, IsLate(d),
         NEW s \in {"publishing", "publish_failed", "stale"},
         NEW b \in {"publishing", "failed", "unconfirmed"}
  PROVE  /\ IsLate([d EXCEPT !.status = s])
         /\ IsLate([d EXCEPT !.status = s, !.pub = b])
<1>1. s \in Statuses /\ s \in Late
  BY DEF Statuses, Late
<1>2. /\ [d EXCEPT !.status = s] \in Documents
      /\ [d EXCEPT !.status = s, !.pub = b] \in Documents
  BY <1>1 DEF IsLate, Documents
<1> QED BY <1>1, <1>2 DEF IsLate, Documents, Earned, RoundEarned, VersionsEarned

LEMMA RollbackWords ==
  ASSUME NEW d, IsLate(d), d.asked, NEW r \in {"restoring", "failed", "restored"}
  PROVE  IsLate([d EXCEPT !.rollback = r])
<1>1. [d EXCEPT !.rollback = r] \in Documents
  BY DEF IsLate, Documents
<1> QED BY <1>1 DEF IsLate, Documents, Earned, RoundEarned, VersionsEarned

LEMMA RestoringAsked ==
  ASSUME NEW d, IsLate(d), Restoring(d)
  PROVE  d.asked
BY DEF IsLate, Earned, VersionsEarned, Restoring

(* A version of the candidate found in production, or reported.             *)
LEMMA LatePublished ==
  ASSUME NEW d, IsLate(d), d.approved, d.restored = 0,
         NEW v \in 1..Current, versions[v] = "cand", Current \in Nat
  PROVE  IsLate([d EXCEPT !.published = v])
<1>1. [d EXCEPT !.published = v] \in Documents
  BY DEF IsLate, Documents
<1> QED BY <1>1 DEF IsLate, Documents, Earned, RoundEarned, VersionsEarned

LEMMA LateRestored ==
  ASSUME NEW d, IsLate(d), d.asked, Current \in Nat,
         NEW v \in 1..Current, versions[v] = "base", d.published < v
  PROVE  IsLate([d EXCEPT !.restored = v])
<1>1. [d EXCEPT !.restored = v] \in Documents
  BY DEF IsLate, Documents
<1> QED BY <1>1 DEF IsLate, Documents, Earned, RoundEarned, VersionsEarned

(* What the document says when nothing was found in production.             *)
LEMMA GivenLate ==
  ASSUME Inv, doc.status \in Late
  PROVE  /\ IsLate(Given(doc))
         /\ Given(doc).published = doc.published /\ Given(doc).approved = doc.approved
         /\ Given(doc).asked = doc.asked /\ Given(doc).restored = doc.restored
<1>1. IsLate(doc)
  BY LateDocument
<1>2. doc \in Documents
  BY <1>1 DEF IsLate
<1>3. CASE Restoring(doc)
  <2>1. IsLate([doc EXCEPT !.rollback = "failed"])
    BY <1>1, <1>3, RestoringAsked, RollbackWords
  <2>2. Given(doc) = [doc EXCEPT !.rollback = "failed"]
    BY <1>3 DEF Given, NotRestored
  <2> QED BY <1>2, <2>1, <2>2 DEF Documents
<1>4. CASE ~Restoring(doc)
  <2>1. PICK s \in {"publish_failed", "stale"} :
          Given(doc) = [doc EXCEPT !.status = s, !.pub = "failed"]
    BY <1>4 DEF Given, NotPromoted, Overtaken
  <2>2. IsLate([doc EXCEPT !.status = s, !.pub = "failed"])
    BY <1>1, LateWords
  <2> QED BY <1>2, <2>1, <2>2 DEF Documents
<1> QED BY <1>3, <1>4

(* What was recovered is in production, and the lock knows which it is.     *)
LEMMA RecoverLate ==
  ASSUME Inv, doc.status \in Late, NEW by, Recover(by)
  PROVE  /\ IsLate(doc')
         /\ \E b \in BOOLEAN :
              /\ lock' = [by |-> by, at |-> "confirm", version |-> Current, restoring |-> b]
              /\ IF b THEN doc'.restored # 0 ELSE doc'.published # 0
<1> DEFINE took(b) == lock' = [by |-> by, at |-> "confirm", version |-> Current, restoring |-> b]
<1>1. IsLate(doc) /\ doc \in Documents /\ Current \in Nat /\ Current > 0
  BY LateDocument DEF IsLate
<1>2. \A d : Merged(d) = d
  BY LateWrite
<1>3. Current \in 1..Current /\ InProduction = versions[Current]
  BY <1>1 DEF InProduction
<1>4. CASE doc.restored = Current /\ took(TRUE) /\ UNCHANGED doc
  <2>1. doc' = doc /\ took(TRUE)
    BY <1>4
  <2>2. doc'.restored # 0
    BY <1>1, <1>4, <2>1
  <2>3. IsLate(doc')
    BY <1>1, <2>1
  <2> QED BY <2>1, <2>2, <2>3
<1>5. CASE /\ doc.asked /\ InProduction = "base" /\ Current > doc.published
           /\ Put([doc EXCEPT !.restored = Current]) /\ took(TRUE)
  <2>1. IsLate([doc EXCEPT !.restored = Current])
    BY <1>1, <1>3, <1>5, LateRestored DEF Documents
  <2>2. doc' = [doc EXCEPT !.restored = Current]
    BY <1>2, <1>5 DEF Put
  <2>3. doc'.restored # 0
    BY <1>1, <2>2 DEF Documents
  <2> QED BY <1>5, <2>1, <2>2, <2>3
<1>6. CASE doc.published = Current /\ took(FALSE) /\ UNCHANGED doc
  <2>1. doc' = doc /\ took(FALSE)
    BY <1>6
  <2>2. doc'.published # 0
    BY <1>1, <1>6, <2>1
  <2>3. IsLate(doc')
    BY <1>1, <2>1
  <2> QED BY <2>1, <2>2, <2>3
<1>7. CASE /\ ~Restoring(doc) /\ Authorized(doc) /\ Claimed
           /\ Put([doc EXCEPT !.published = Current]) /\ took(FALSE)
  <2>1. doc.approved /\ doc.restored = 0 /\ InProduction = "cand"
    BY <1>7 DEF Restoring, Authorized, Claimed
  <2>2. IsLate([doc EXCEPT !.published = Current])
    BY <1>1, <1>3, <2>1, LatePublished
  <2>3. doc' = [doc EXCEPT !.published = Current]
    BY <1>2, <1>7 DEF Put
  <2>4. doc'.published # 0
    BY <1>1, <2>3 DEF Documents
  <2> QED BY <1>7, <2>2, <2>3, <2>4
<1> QED BY <1>4, <1>5, <1>6, <1>7 DEF Recover, Take

LockTypes ==
  /\ lock \in [by : {"nobody", "api", "worker"},
               at : {"none", "promote", "ask", "restore", "confirm"},
               version : 0..Current, restoring : BOOLEAN]
  /\ lock.by = "nobody" <=> lock.at = "none"
  /\ lock.by = "worker" <=> at = "confirm"

OrderTypes ==
  [what : {"promote", "restore"}, expect : 1..Current,
   state : {"open", "applied", "refused", "failed"}, version : 0..Current]

(* What a step that changes neither versions nor tasks has to show.         *)
LEMMA LateStepSends ==
  ASSUME Inv, doc.status \in Late, IsLate(doc'), LockTypes', LockInv',
         UNCHANGED <<versions, stopEvent, stopping, shutdown, task, crashes>>,
         orders' \in Seq(OrderTypes), Sent' <= MaxOrders, OrdersInv',
         detail' \in {"none", "read", "stale"}, faults' \in 0..MaxFaults,
         mine' \in Documents, Earned(mine'), at' \in WorkerAt \cup {"confirm"},
         cur' \in Packages \cup {None}, CopyInv', at' \notin Busy
  PROVE  Inv' /\ EndKept
<1>1. Current' = Current /\ Documents' = Documents
  BY DEF Current, Documents
<1>2. doc' \in Documents /\ Earned(doc') /\ doc'.sample = doc.sample
  BY DEF IsLate
<1>3. TypeOK'
  BY <1>1, <1>2 DEF Inv, TypeOK, LockTypes, WorkerAt, OrderTypes
<1>4. EarnedInv'
  BY <1>2 DEF EarnedInv, Earned, RoundEarned, VersionsEarned, Unpublished
<1>5. TaskInv'
  BY <1>2 DEF Inv, TaskInv, Busy
<1>6. EndKept
  BY EarlyOrLate DEF EndKept, Active
<1> QED BY <1>3, <1>4, <1>5, <1>6 DEF Inv

LEMMA LateStep ==
  ASSUME Inv, doc.status \in Late, IsLate(doc'), LockTypes', LockInv',
         UNCHANGED <<platform, stopEvent, stopping, shutdown, task, crashes>>,
         detail' \in {"none", "read", "stale"}, faults' \in 0..MaxFaults,
         mine' \in Documents, Earned(mine'), at' \in WorkerAt \cup {"confirm"},
         cur' \in Packages \cup {None}, CopyInv', at' \notin Busy
  PROVE  Inv' /\ EndKept
<1> USE DEF platform
<1>1. Sent' = Sent
  BY DEF Sent
<1>2. orders' \in Seq(OrderTypes) /\ Sent' <= MaxOrders
  BY <1>1 DEF Inv, TypeOK, OrderTypes
<1>3. OrdersInv'
  BY <1>1 DEF Inv, OrdersInv, OrderEarned
<1> QED BY <1>2, <1>3, LateStepSends

(* The worker's own steps of a recovery.                                    *)
LEMMA LatePassEnds ==
  ASSUME Inv, doc.status \in Late, at # "confirm", lock.at = "none", IsLate(doc'),
         EndPass, UNCHANGED task, faults' \in 0..MaxFaults, Unlocked, Rest
  PROVE  Inv' /\ EndKept
<1>1. doc' \in Documents /\ Earned(doc') /\ doc'.sample = doc.sample /\ doc'.status \in Late
  BY DEF IsLate
<1>2. task' \in [Packages -> TaskStates] /\ \A p \in Packages : Tracked(doc'.sample[p], task'[p])
  BY <1>1 DEF Inv, TypeOK, TaskInv
<1>3. Inv'
  BY <1>1, <1>2, PassEnds
<1>4. EndKept
  BY EarlyOrLate DEF EndKept, Active
<1> QED BY <1>3, <1>4

LEMMA RecoverRunStep ==
  ASSUME Inv, RecoverRun
  PROVE  Inv' /\ EndKept
<1>1. at = "recover" /\ lock = Free /\ UNCHANGED task /\ Rest
  BY DEF RecoverRun
<1>2. doc.status \in Late /\ mine.status \in Late /\ mine.sample = doc.sample
  BY <1>1 DEF Inv, CopyInv
<1>3. IsLate(doc) /\ Current \in Nat
  BY <1>2, LateDocument
<1>4. lock.at = "none" /\ lock.by = "nobody"
  BY <1>1 DEF Free
<1>5. mine \in Documents /\ Earned(mine) /\ cur \in Packages \cup {None}
      /\ detail \in {"none", "read", "stale"}
  BY DEF Inv, TypeOK, EarnedInv
<1>6. CASE Drop /\ UNCHANGED <<lock, faults>>
  <2>1. doc' = doc /\ EndPass
    BY <1>6 DEF Drop
  <2>2. IsLate(doc')
    BY <1>3, <2>1
  <2> QED BY <1>1, <1>2, <1>4, <1>6, <2>1, <2>2, FaultType, LatePassEnds DEF Unlocked
<1>7. CASE Recover("worker") /\ at' = "confirm" /\ UNCHANGED <<mine, cur, faults>>
  <2>1. /\ IsLate(doc')
        /\ \E b \in BOOLEAN :
             /\ lock' = [by |-> "worker", at |-> "confirm", version |-> Current, restoring |-> b]
             /\ IF b THEN doc'.restored # 0 ELSE doc'.published # 0
    BY <1>2, <1>7, RecoverLate
  <2>2. Current' = Current
    BY <1>1 DEF Rest, platform, Current
  <2>3. LockTypes'
    BY <1>3, <1>7, <2>1, <2>2 DEF LockTypes
  <2>4. doc'.status \in Late
    BY <2>1 DEF IsLate
  <2>5. LockInv' /\ CopyInv'
    BY <1>7, <2>1, <2>4 DEF LockInv, CopyInv, Busy
  <2> QED BY <1>1, <1>2, <1>5, <1>7, <2>1, <2>3, <2>5, FaultType, LateStep DEF Rest, Busy
<1>8. CASE Put(Given(doc)) /\ EndPass /\ UNCHANGED <<lock, faults>>
  <2>1. doc' = Given(doc)
    BY <1>2, <1>8, LateWrite DEF Put
  <2>2. IsLate(doc')
    BY <1>2, <2>1, GivenLate
  <2> QED BY <1>1, <1>2, <1>4, <1>8, <2>2, FaultType, LatePassEnds DEF Unlocked
<1>9. CASE Fault /\ at' = "writeback" /\ UNCHANGED <<doc, lock, mine, cur>>
  <2>1. IsLate(doc')
    BY <1>3, <1>9
  <2>2. Current' = Current /\ Sent' = Sent /\ UNCHANGED orders
    BY <1>1 DEF Rest, platform, Current, Sent
  <2>3. LockTypes'
    BY <1>1, <1>9, <2>2 DEF LockTypes, Inv, TypeOK
  <2>4. LockInv' /\ CopyInv'
    BY <1>1, <1>2, <1>9, <2>2 DEF LockInv, CopyInv, Busy, Inv, Rest
  <2> QED BY <1>1, <1>2, <1>5, <1>9, <2>1, <2>3, <2>4, FaultType, LateStep
      DEF Rest, Busy, WorkerAt
<1> QED BY <1>6, <1>7, <1>8, <1>9 DEF RecoverRun

(* The copy that is written back may be older, but it says nothing that is  *)
(* not so.                                                                  *)
LEMMA WriteBackStep ==
  ASSUME Inv, WriteBack
  PROVE  Inv' /\ EndKept
<1>1. /\ at = "writeback" /\ lock = Free /\ Put(mine) /\ EndPass
      /\ UNCHANGED <<lock, faults, task>> /\ Rest
  BY DEF WriteBack, SaveAndEnd
<1>2. doc.status \in Late /\ mine.status \in Late /\ mine.sample = doc.sample
  BY <1>1 DEF Inv, CopyInv
<1>3. lock.at = "none"
  BY <1>1 DEF Free
<1>4. doc' = mine
  BY <1>1, <1>2, LateWrite DEF Put
<1>5. IsLate(mine)
  BY <1>2 DEF Inv, TypeOK, EarnedInv, IsLate
<1>6. IsLate(doc')
  BY <1>4, <1>5
<1> QED BY <1>1, <1>2, <1>3, <1>6, FaultType, LatePassEnds DEF Unlocked

(* The executor has loaded the version, or not, or does not say.            *)
LEMMA ConfirmLate ==
  ASSUME Inv, lock.at = "confirm", Confirm
  PROVE  /\ doc.status \in Late /\ IsLate(doc') /\ lock' = Free
         /\ UNCHANGED <<versions, orders, detail, faults>>
<1>1. doc.status \in Late /\ IF lock.restoring THEN doc.restored # 0 ELSE doc.published # 0
  BY DEF Inv, LockInv
<1>2. IsLate(doc) /\ doc \in Documents
  BY <1>1, LateDocument DEF IsLate
<1>3. \A d : Merged(d) = d
  BY <1>1, LateWrite
<1>4. lock.restoring => doc.asked /\ doc.published # 0
  BY <1>1, <1>2 DEF IsLate, Earned, VersionsEarned
<1> DEFINE sure == [doc EXCEPT
             !.status = IF lock.restoring THEN "restored" ELSE "activated",
             !.pub = IF lock.restoring THEN "restored" ELSE "activated",
             !.rollback = IF lock.restoring THEN "restored" ELSE @]
           unsure == [doc EXCEPT !.status = "publish_failed", !.pub = "unconfirmed",
             !.rollback = IF lock.restoring THEN "failed" ELSE @]
<1>5. doc' = sure \/ doc' = unsure
  BY <1>3 DEF Confirm, Put
<1>6. IsLate(sure)
  <2>1. sure \in Documents
    BY <1>2 DEF Documents, Statuses
  <2>2. /\ sure.status \in Late /\ sure.sample = doc.sample
        /\ RoundEarned(sure)
    BY <1>2 DEF IsLate, Documents, Late, Earned, RoundEarned
  <2>3. VersionsEarned(sure)
    BY <1>1, <1>2, <1>4 DEF IsLate, Documents, Earned, VersionsEarned
  <2> QED BY <2>1, <2>2, <2>3 DEF IsLate, Earned
<1>7. IsLate(unsure)
  <2>1. unsure \in Documents
    BY <1>2 DEF Documents, Statuses
  <2>2. /\ unsure.status \in Late /\ unsure.sample = doc.sample
        /\ RoundEarned(unsure)
    BY <1>2 DEF IsLate, Documents, Late, Earned, RoundEarned
  <2>3. VersionsEarned(unsure)
    BY <1>1, <1>2, <1>4 DEF IsLate, Documents, Earned, VersionsEarned
  <2> QED BY <2>1, <2>2, <2>3 DEF IsLate, Earned
<1> HIDE DEF sure, unsure
<1>8. IsLate(doc')
  BY <1>5, <1>6, <1>7
<1> QED BY <1>1, <1>8 DEF Confirm, Done, Same

LEMMA FreeLock ==
  ASSUME Current \in Nat
  PROVE  /\ Free \in [by : {"nobody", "api", "worker"},
                      at : {"none", "promote", "ask", "restore", "confirm"},
                      version : 0..Current, restoring : BOOLEAN]
         /\ Free.by = "nobody" /\ Free.at = "none"
BY DEF Free

LEMMA ConfirmedStep ==
  ASSUME Inv, Confirmed
  PROVE  Inv' /\ EndKept
<1>1. /\ lock.by = "worker" /\ Confirm /\ lock.at = "confirm" /\ EndPass
      /\ UNCHANGED <<stopEvent, stopping, shutdown, task, crashes>>
  BY DEF Confirmed, Confirm
<1>2. /\ doc.status \in Late /\ IsLate(doc') /\ lock' = Free
      /\ UNCHANGED <<versions, orders, detail, faults>>
  BY <1>1, ConfirmLate
<1>3. Current \in Nat /\ Current' = Current
  BY <1>2, LateDocument DEF Current
<1>4. LockTypes'
  BY <1>1, <1>2, <1>3, FreeLock DEF LockTypes, EndPass
<1>5. doc'.status \in Late
  BY <1>2 DEF IsLate
<1>6. LockInv' /\ CopyInv'
  BY <1>1, <1>2, <1>3, <1>5, FreeLock DEF LockInv, CopyInv, EndPass, Busy
<1>7. detail' \in {"none", "read", "stale"} /\ faults' \in 0..MaxFaults
  BY <1>2, FaultType DEF Inv, TypeOK
<1>8. Blank \in Documents /\ Earned(Blank)
  BY <1>3, BlankDocument
<1>9. mine' = Blank /\ at' = "top" /\ cur' = None
  BY <1>1 DEF EndPass
<1>10. at' \in WorkerAt \cup {"confirm"} /\ at' \notin Busy
  BY <1>9 DEF WorkerAt, Busy
<1> QED BY <1>1, <1>2, <1>4, <1>6, <1>7, <1>8, <1>9, <1>10, LateStep DEF platform

LEMMA WorkerSteps ==
  ASSUME Inv, WorkerStep
  PROVE  Inv' /\ EndKept
BY TopStep, PassStep, CheckStep, StartStep, PollStep, ScoreStep, ImproveStep, StopPassStep,
   RecoverRunStep, WriteBackStep, ConfirmedStep, WorkerFailsStep DEF WorkerStep

-----------------------------------------------------------------------------
(* Requests, and readers of the experiment.                                 *)

(* The worker is not at work on a document that is Late, unless it recovers *)
(* it; that copy may be outdated by the step.                               *)
LEMMA RequestSends ==
  ASSUME Inv, doc.status \in Late, IsLate(doc'), lock.by # "worker", lock'.by # "worker",
         LockTypes', LockInv', OutsideWorker, UNCHANGED versions,
         orders' \in Seq(OrderTypes), Sent' <= MaxOrders, OrdersInv',
         detail' \in {"none", "read", "stale"}, faults' \in 0..MaxFaults
  PROVE  Inv' /\ EndKept
<1>1. mine \in Documents /\ Earned(mine) /\ cur \in Packages \cup {None}
      /\ at \in WorkerAt \cup {"confirm"} /\ at # "confirm"
  BY DEF Inv, TypeOK, EarnedInv, WorkerAt
<1>2. at \notin Busy
  BY LateDocument
<1>3. doc'.sample = doc.sample /\ doc'.status \in Late
  BY DEF IsLate
<1>4. CopyInv'
  BY <1>1, <1>2, <1>3 DEF Inv, CopyInv, OutsideWorker, worker, Busy
<1> QED BY <1>1, <1>2, <1>4, LateStepSends DEF OutsideWorker, worker

LEMMA RequestStep ==
  ASSUME Inv, doc.status \in Late, IsLate(doc'), lock.by # "worker", lock'.by # "worker",
         LockTypes', LockInv', OutsideWorker, UNCHANGED platform,
         detail' \in {"none", "read", "stale"}, faults' \in 0..MaxFaults
  PROVE  Inv' /\ EndKept
<1> USE DEF platform
<1>1. Sent' = Sent
  BY DEF Sent
<1>2. orders' \in Seq(OrderTypes) /\ Sent' <= MaxOrders
  BY <1>1 DEF Inv, TypeOK, OrderTypes
<1>3. OrdersInv'
  BY <1>1 DEF Inv, OrdersInv, OrderEarned
<1> QED BY <1>2, <1>3, RequestSends

(* A request that answers at once, the lock free before and after.          *)
LEMMA RequestAnswers ==
  ASSUME Inv, doc.status \in Late, IsLate(doc'), lock = Free, UNCHANGED lock, OutsideWorker, Same
  PROVE  Inv' /\ EndKept
<1>1. Current \in Nat /\ Current' = Current
  BY LateDocument DEF Same, Current
<1>2. lock'.by = "nobody" /\ lock'.at = "none" /\ lock.by = "nobody"
  BY <1>1, FreeLock
<1>3. at # "confirm"
  BY <1>2 DEF Inv, TypeOK
<1>4. LockTypes'
  BY <1>1, <1>2, <1>3, FreeLock DEF LockTypes, OutsideWorker, worker
<1>5. doc'.status \in Late
  BY DEF IsLate
<1>6. LockInv'
  BY <1>2, <1>5 DEF LockInv
<1>7. detail' \in {"none", "read", "stale"} /\ faults' \in 0..MaxFaults
  BY FaultType DEF Inv, TypeOK, Same
<1> QED BY <1>2, <1>4, <1>6, <1>7, RequestStep DEF Same, platform

(* A request that begins to confirm what is in production.                  *)
LEMMA RequestConfirms ==
  ASSUME Inv, doc.status \in Late, IsLate(doc'), lock.by # "worker", OutsideWorker, Same,
         NEW v \in 0..Current, NEW b \in BOOLEAN, Take("api", "confirm", v, b),
         IF b THEN doc'.restored # 0 ELSE doc'.published # 0
  PROVE  Inv' /\ EndKept
<1>1. Current \in Nat /\ Current' = Current
  BY LateDocument DEF Same, Current
<1>2. lock' = [by |-> "api", at |-> "confirm", version |-> v, restoring |-> b]
  BY DEF Take
<1>3. at # "confirm"
  BY DEF Inv, TypeOK
<1>4. LockTypes'
  BY <1>1, <1>2, <1>3 DEF LockTypes, OutsideWorker, worker
<1>5. doc'.status \in Late
  BY DEF IsLate
<1>6. LockInv'
  BY <1>2, <1>5 DEF LockInv
<1>7. detail' \in {"none", "read", "stale"} /\ faults' \in 0..MaxFaults
  BY FaultType DEF Inv, TypeOK, Same
<1> QED BY <1>2, <1>4, <1>6, <1>7, RequestStep DEF Same, platform

(* A request sends an order and waits for what becomes of it.               *)
LEMMA RequestOrders ==
  ASSUME Inv, doc.status \in Late, IsLate(doc'), lock = Free, OutsideWorker,
         UNCHANGED <<versions, detail, faults>>, Sent < MaxOrders,
         NEW what \in {"promote", "restore"}, NEW expect \in 1..Current,
         OrderEarned(Order(what, expect)), orders' = Append(orders, Order(what, expect)),
         NEW b \in BOOLEAN, Take("api", what, 0, b),
         IF what = "promote" THEN doc'.approved /\ doc'.published = 0
         ELSE doc'.asked /\ expect = doc'.published
  PROVE  Inv' /\ EndKept
<1> DEFINE o == Order(what, expect)
<1>1. Current \in Nat /\ Current' = Current /\ MaxOrders \in Nat
  BY LateDocument, PublicationAssumption DEF Current
<1>2. lock' = [by |-> "api", at |-> what, version |-> 0, restoring |-> b]
  BY DEF Take
<1>3. lock.by = "nobody" /\ lock.at = "none"
  BY <1>1, FreeLock
<1>4. at # "confirm"
  BY <1>3 DEF Inv, TypeOK
<1>5. LockTypes'
  BY <1>1, <1>2, <1>4 DEF LockTypes, OutsideWorker, worker
<1>6. o \in OrderTypes /\ o.state = "open" /\ o.what = what /\ o.expect = expect
  BY <1>1 DEF Order, OrderTypes
<1>7. orders \in Seq(OrderTypes) /\ Sent \in Nat /\ Sent = Len(orders)
  BY DEF Inv, TypeOK, OrderTypes, Sent
<1> HIDE DEF o
<1>8. orders' = Append(orders, o)
  BY DEF o
<1>9. /\ orders' \in Seq(OrderTypes) /\ Sent' = Sent + 1 /\ Sent' <= MaxOrders
      /\ orders'[Sent + 1] = o /\ \A i \in 1..Sent : orders'[i] = orders[i]
  BY <1>1, <1>6, <1>7, <1>8 DEF Sent
<1>10. OrdersInv'
  <2>1. ASSUME NEW i \in 1..Sent' PROVE OrderEarned(orders'[i])
    <3>1. CASE i = Sent + 1
      BY <1>9, <3>1 DEF o
    <3>2. CASE i \in 1..Sent
      BY <1>9, <3>2 DEF Inv, OrdersInv
    <3> QED BY <1>7, <1>9, <3>1, <3>2
  <2>2. ASSUME NEW i \in 1..Sent', NEW j \in 1..Sent',
               orders'[i].state = "applied", orders'[j].state = "applied",
               orders'[i].version = orders'[j].version
        PROVE  i = j
    <3>1. i \in 1..Sent /\ j \in 1..Sent
      BY <1>6, <1>7, <1>9, <2>2
    <3> QED BY <1>9, <2>2, <3>1 DEF Inv, OrdersInv
  <2> QED BY <2>1, <2>2 DEF OrdersInv, OrderEarned
<1>11. doc'.status \in Late
  BY DEF IsLate
<1>12. LockInv'
  BY <1>2, <1>6, <1>7, <1>9, <1>11 DEF LockInv
<1>13. detail' \in {"none", "read", "stale"} /\ faults' \in 0..MaxFaults
  BY FaultType DEF Inv, TypeOK
<1> QED BY <1>2, <1>3, <1>5, <1>9, <1>10, <1>12, <1>13, RequestSends

(* A promotion expects the version the experiment began with, a restore the *)
(* one that was published, which is the candidate.                          *)
LEMMA PromoteStep ==
  ASSUME Inv, doc.status \in Late, lock = Free, OutsideWorker,
         NEW d, IsLate(d), d.published = 0, Promote(d)
  PROVE  Inv' /\ EndKept
<1> DEFINE e == [d EXCEPT !.status = "publishing", !.phase = "publish", !.pub = "publishing",
                          !.approved = TRUE]
<1>1. doc' = e
  BY LateWrite DEF Promote, Put
<1>2. d \in Documents /\ Current \in Nat /\ Current > 0
  BY LateDocument DEF IsLate
<1>3. e \in Documents /\ e.status \in Late /\ e.sample = doc.sample
  <2>1. "publishing" \in Statuses /\ "publishing" \in Late /\ "publish" \in Phases
    BY DEF Statuses, Phases, Late
  <2> DEFINE k == [d EXCEPT !.status = "publishing", !.phase = "publish"]
  <2>2. k \in Documents /\ k.status = "publishing" /\ k.sample = d.sample
    BY <1>2, <2>1 DEF Documents
  <2>3. e = [k EXCEPT !.pub = "publishing", !.approved = TRUE]
    BY <1>2 DEF Documents
  <2> HIDE DEF k, e
  <2>4. /\ [k EXCEPT !.pub = "publishing", !.approved = TRUE] \in Documents
        /\ [k EXCEPT !.pub = "publishing", !.approved = TRUE].status = k.status
        /\ [k EXCEPT !.pub = "publishing", !.approved = TRUE].sample = k.sample
    BY <2>2 DEF Documents
  <2> QED BY <2>1, <2>2, <2>3, <2>4 DEF IsLate
<1>4. RoundEarned(e) /\ VersionsEarned(e)
  BY <1>2 DEF IsLate, Documents, Earned, RoundEarned, VersionsEarned
<1>5. e.approved /\ e.published = 0
  BY <1>2 DEF Documents
<1> HIDE DEF e
<1>6. IsLate(doc')
  BY <1>1, <1>3, <1>4 DEF IsLate, Earned
<1>7. Expected = Original /\ Expected \in 1..Current
  BY <1>2 DEF Expected, Original
<1>8. OrderEarned(Order("promote", Expected))
  BY <1>7 DEF OrderEarned, Order
<1> QED BY <1>1, <1>5, <1>6, <1>7, <1>8, RequestOrders DEF Promote

LEMMA RestoreStep ==
  ASSUME Inv, doc.status \in Late, lock = Free, OutsideWorker,
         NEW d, IsLate(d), Restore(d)
  PROVE  Inv' /\ EndKept
<1> DEFINE e == [d EXCEPT !.rollback = "restoring", !.asked = TRUE]
<1>1. doc' = e
  BY LateWrite DEF Restore, Put
<1>2. d \in Documents /\ Current \in Nat /\ d.published # 0 /\ versions[d.published] = "cand"
  BY LateDocument DEF IsLate, Earned, VersionsEarned, Restore, Restorable
<1>3. e \in Documents /\ e.status \in Late /\ e.sample = doc.sample
  BY <1>2 DEF IsLate, Documents
<1>4. RoundEarned(e) /\ VersionsEarned(e)
  BY <1>2 DEF IsLate, Documents, Earned, RoundEarned, VersionsEarned
<1>5. e.asked /\ e.published = d.published
  BY <1>2 DEF Documents
<1> HIDE DEF e
<1>6. IsLate(doc')
  BY <1>1, <1>3, <1>4 DEF IsLate, Earned
<1>7. d.published \in 1..Current
  BY <1>2 DEF Documents
<1>8. OrderEarned(Order("restore", d.published))
  BY <1>2, <1>7 DEF OrderEarned, Order
<1> QED BY <1>1, <1>5, <1>6, <1>7, <1>8, RequestOrders DEF Restore

LEMMA RequestSteps ==
  ASSUME Inv, Request, OutsideWorker
  PROVE  Inv' /\ EndKept
<1>1. lock = Free
  BY DEF Request, PublishFirst, PublishAgain, PublishRecorded, Publishable, RestoreFirst,
     RestoreAgain
<1>2. doc \in Documents /\ Earned(doc) /\ Current \in Nat /\ Current > 0
  BY DEF Inv, TypeOK, EarnedInv, Current
<1>3. lock.by = "nobody" /\ lock.at = "none"
  BY <1>1, <1>2, FreeLock
<1>4. Publishable => doc.status \in Late
  BY DEF Publishable, Late
<1>5. Restoring(doc) \/ Restorable(doc) => doc.status \in Late
  BY <1>2 DEF Earned, Unpublished, Restoring, Restorable, Late
<1>6. doc.status \in Late => IsLate(doc) /\ \A d : Merged(d) = d
  BY LateDocument, LateWrite
<1>7. ASSUME doc.status \in Late, NEW d, IsLate(d), Put(d), UNCHANGED lock, Same
      PROVE  Inv' /\ EndKept
  <2>1. IsLate(doc')
    BY <1>6, <1>7 DEF Put
  <2> QED BY <1>1, <1>7, <2>1, RequestAnswers
<1>8. ASSUME doc.status \in Late, Recover("api"), Same
      PROVE  Inv' /\ EndKept
  <2>1. PICK b \in BOOLEAN :
          /\ lock' = [by |-> "api", at |-> "confirm", version |-> Current, restoring |-> b]
          /\ IF b THEN doc'.restored # 0 ELSE doc'.published # 0
    BY <1>8, RecoverLate
  <2>2. IsLate(doc')
    BY <1>8, RecoverLate
  <2>3. Take("api", "confirm", Current, b) /\ Current \in 0..Current
    BY <1>2, <2>1 DEF Take
  <2> QED BY <1>3, <1>8, <2>1, <2>2, <2>3, RequestConfirms
<1>9. CASE PublishFirst
  <2>1. doc.status \in Late /\ doc.published = 0
    BY <1>4, <1>9 DEF PublishFirst
  <2>2. CASE Promote(doc)
    BY <1>1, <1>6, <2>1, <2>2, PromoteStep
  <2>3. CASE Put([doc EXCEPT !.status = "stale"]) /\ UNCHANGED lock /\ Same
    <3>1. IsLate([doc EXCEPT !.status = "stale"])
      BY <1>6, <2>1, LateWords
    <3> QED BY <1>7, <2>1, <2>3, <3>1
  <2> QED BY <1>9, <2>2, <2>3 DEF PublishFirst
<1>10. CASE PublishAgain
  <2>1. doc.status \in Late /\ doc.published = 0
    BY <1>4, <1>10 DEF PublishAgain, Interrupted
  <2>2. IsLate(Given(doc)) /\ Given(doc).published = 0
    BY <2>1, GivenLate
  <2>3. CASE Recover("api") /\ Same
    BY <1>8, <2>1, <2>3
  <2>4. CASE Promote(Given(doc))
    BY <1>1, <2>1, <2>2, <2>4, PromoteStep
  <2>5. CASE Put(Given(doc)) /\ UNCHANGED lock /\ Same
    BY <1>7, <2>1, <2>2, <2>5
  <2> QED BY <1>10, <2>3, <2>4, <2>5 DEF PublishAgain
<1>11. CASE PublishRecorded
  <2>1. doc.status \in Late /\ doc.published # 0 /\ Same
    BY <1>4, <1>11 DEF PublishRecorded
  <2>2. CASE Take("api", "confirm", Current, FALSE) /\ UNCHANGED doc
    <3>1. IsLate(doc') /\ doc'.published # 0
      <4>1. doc' = doc
        BY <2>2
      <4> QED BY <1>6, <2>1, <4>1
    <3>2. Current \in 0..Current /\ FALSE \in BOOLEAN
      BY <1>2
    <3> QED BY <1>3, <2>1, <2>2, <3>1, <3>2, RequestConfirms
  <2>3. CASE Put([doc EXCEPT !.status = "stale"]) /\ UNCHANGED lock
    <3>1. IsLate([doc EXCEPT !.status = "stale"])
      BY <1>6, <2>1, LateWords
    <3> QED BY <1>7, <2>1, <2>3, <3>1
  <2> QED BY <1>11, <2>2, <2>3 DEF PublishRecorded
<1>12. CASE RestoreFirst
  <2>1. doc.status \in Late /\ Restore(doc)
    BY <1>5, <1>12 DEF RestoreFirst, Restore
  <2> QED BY <1>1, <1>6, <2>1, RestoreStep
<1>13. CASE RestoreAgain
  <2>1. doc.status \in Late
    BY <1>5, <1>13 DEF RestoreAgain
  <2>2. IsLate(Given(doc))
    BY <2>1, GivenLate
  <2>3. CASE Recover("api") /\ Same
    BY <1>8, <2>1, <2>3
  <2>4. CASE Restore(Given(doc))
    BY <1>1, <2>1, <2>2, <2>4, RestoreStep
  <2>5. CASE Put(Given(doc)) /\ UNCHANGED lock /\ Same
    BY <1>7, <2>1, <2>2, <2>5
  <2> QED BY <1>13, <2>3, <2>4, <2>5 DEF RestoreAgain
<1> QED BY <1>9, <1>10, <1>11, <1>12, <1>13 DEF Request

(* The answer to the last order.                                            *)
LEMMA AnswerEarned ==
  ASSUME Inv, lock.at \in {"promote", "restore"}, Answer.state = "applied"
  PROVE  /\ Answer.version \in 1..Current
         /\ lock.at = "promote" => versions[Answer.version] = "cand"
         /\ lock.at = "restore" => /\ versions[Answer.version] = "base"
                                   /\ doc.published < Answer.version
<1>1. Sent > 0 /\ Sent \in Nat /\ orders \in Seq(OrderTypes) /\ Sent = Len(orders)
  BY DEF Inv, TypeOK, LockInv, Sent, OrderTypes
<1>2. Answer = orders[Sent] /\ Sent \in 1..Sent
  BY <1>1 DEF Answer
<1>3. Answer \in OrderTypes /\ OrderEarned(Answer)
  BY <1>1, <1>2 DEF Inv, OrdersInv
<1>4. /\ lock.at = "promote" => Answer.what = "promote"
      /\ lock.at = "restore" => Answer.what = "restore" /\ Answer.expect = doc.published
  BY <1>2 DEF Inv, LockInv
<1>5. Current \in Nat /\ Answer.version = Answer.expect + 1 /\ Answer.expect \in 1..Current
      /\ Answer.version \in 0..Current
  BY <1>3 DEF OrderEarned, OrderTypes, Inv, TypeOK, Current
<1> QED BY <1>3, <1>4, <1>5 DEF OrderEarned

(* A call of a request gets its answer, or none.                            *)
LEMMA CallSteps ==
  ASSUME Inv, lock.by = "api", CallStep, OutsideWorker
  PROVE  Inv' /\ EndKept
<1>1. doc.status \in Late /\ lock.by # "worker" /\ at # "confirm"
  BY DEF Inv, TypeOK, LockInv
<1>2. IsLate(doc) /\ doc \in Documents /\ Current \in Nat /\ Current > 0
  BY <1>1, LateDocument DEF IsLate
<1>3. \A d : Merged(d) = d
  BY <1>1, LateWrite
<1>4. ASSUME IsLate(doc'), lock' = Free, UNCHANGED <<platform, detail>>,
             Fault \/ UNCHANGED faults
      PROVE  Inv' /\ EndKept
  <2>1. Current' = Current
    BY <1>4 DEF platform, Current
  <2>2. LockTypes' /\ lock'.by # "worker"
    BY <1>1, <1>2, <1>4, <2>1, FreeLock DEF LockTypes, OutsideWorker, worker
  <2>3. doc'.status \in Late
    BY <1>4 DEF IsLate
  <2>4. LockInv'
    BY <1>2, <1>4, <2>3, FreeLock DEF LockInv
  <2>5. detail' \in {"none", "read", "stale"}
    BY <1>4 DEF Inv, TypeOK
  <2> QED BY <1>1, <1>4, <2>2, <2>4, <2>5, FaultType, RequestStep
<1>5. CASE Promoted
  <2>1. /\ lock.at = "promote" /\ Answer.state = "applied" /\ Same
        /\ Put([doc EXCEPT !.published = Answer.version])
        /\ Take("api", "confirm", Answer.version, FALSE)
    BY <1>5 DEF Promoted
  <2>2. Answer.version \in 1..Current /\ versions[Answer.version] = "cand"
    BY <2>1, AnswerEarned
  <2>3. doc.approved /\ doc.restored = 0
    BY <1>2, <2>1 DEF Inv, LockInv, IsLate, Earned, VersionsEarned
  <2>4. IsLate([doc EXCEPT !.published = Answer.version])
    BY <1>2, <2>2, <2>3, LatePublished
  <2>5. doc' = [doc EXCEPT !.published = Answer.version]
    BY <1>3, <2>1 DEF Put
  <2>6. IsLate(doc') /\ doc'.published # 0
    BY <1>2, <2>2, <2>4, <2>5 DEF Documents
  <2>7. Answer.version \in 0..Current /\ FALSE \in BOOLEAN
    BY <1>2, <2>2
  <2> QED BY <1>1, <2>1, <2>6, <2>7, RequestConfirms
<1>6. CASE PromoteRaises
  <2>1. /\ lock.at = "promote" /\ Take("api", "ask", 0, FALSE)
        /\ UNCHANGED <<doc, platform, detail>> /\ (Fault \/ UNCHANGED faults)
    BY <1>6 DEF PromoteRaises
  <2>2. lock' = [by |-> "api", at |-> "ask", version |-> 0, restoring |-> FALSE]
    BY <2>1 DEF Take
  <2>3. Current' = Current
    BY <2>1 DEF platform, Current
  <2>4. LockTypes' /\ lock'.by # "worker"
    BY <1>1, <1>2, <2>2, <2>3 DEF LockTypes, OutsideWorker, worker
  <2>5. IsLate(doc')
    BY <1>2, <2>1
  <2>6. LockInv'
    BY <1>1, <2>1, <2>2 DEF Inv, LockInv
  <2>7. detail' \in {"none", "read", "stale"}
    BY <2>1 DEF Inv, TypeOK
  <2> QED BY <1>1, <2>1, <2>4, <2>5, <2>6, <2>7, FaultType, RequestStep
<1>7. CASE Ask
  <2>1. /\ lock.at = "ask" /\ lock' = Free /\ UNCHANGED <<platform, detail>>
        /\ Fault \/ UNCHANGED faults
        /\ \/ Put(IF Claimed THEN NotPromoted([doc EXCEPT !.published = Current])
                  ELSE IF Current # Original THEN Overtaken(doc) ELSE NotPromoted(doc))
           \/ Put(NotPromoted(doc))
    BY <1>7 DEF Ask, Done
  <2>2. doc.approved /\ doc.restored = 0
    BY <1>2, <2>1 DEF Inv, LockInv, IsLate, Earned, VersionsEarned
  <2>3. IsLate(NotPromoted(doc)) /\ IsLate(Overtaken(doc))
    BY <1>2, LateWords DEF NotPromoted, Overtaken
  <2>4. CASE Claimed
    <3>1. Current \in 1..Current /\ versions[Current] = "cand"
      BY <1>2, <2>4 DEF Claimed, InProduction
    <3>2. IsLate([doc EXCEPT !.published = Current])
      BY <1>2, <2>2, <3>1, LatePublished
    <3>3. IsLate(NotPromoted([doc EXCEPT !.published = Current]))
      BY <3>2, LateWords DEF NotPromoted
    <3>4. IsLate(doc')
      BY <1>3, <2>1, <2>3, <2>4, <3>3 DEF Put
    <3> QED BY <1>4, <2>1, <3>4
  <2>5. CASE ~Claimed
    <3>1. IsLate(doc')
      BY <1>3, <2>1, <2>3, <2>5 DEF Put
    <3> QED BY <1>4, <2>1, <3>1
  <2> QED BY <2>4, <2>5
<1>8. CASE Confirm
  <2>1. lock.at = "confirm"
    BY <1>8 DEF Confirm
  <2>2. IsLate(doc') /\ lock' = Free /\ UNCHANGED <<versions, orders, detail, faults>>
    BY <1>8, <2>1, ConfirmLate
  <2> QED BY <1>4, <2>2 DEF platform
<1>9. CASE Restored
  <2>1. /\ lock.at = "restore" /\ Answer.state = "applied" /\ Same
        /\ Put([doc EXCEPT !.restored = Answer.version])
        /\ Take("api", "confirm", Answer.version, TRUE)
    BY <1>9 DEF Restored
  <2>2. /\ Answer.version \in 1..Current /\ versions[Answer.version] = "base"
        /\ doc.published < Answer.version
    BY <2>1, AnswerEarned
  <2>3. doc.asked
    BY <2>1 DEF Inv, LockInv
  <2>4. IsLate([doc EXCEPT !.restored = Answer.version])
    BY <1>2, <2>2, <2>3, LateRestored
  <2>5. doc' = [doc EXCEPT !.restored = Answer.version]
    BY <1>3, <2>1 DEF Put
  <2>6. IsLate(doc') /\ doc'.restored # 0
    BY <1>2, <2>2, <2>4, <2>5 DEF Documents
  <2>7. Answer.version \in 0..Current /\ TRUE \in BOOLEAN
    BY <1>2, <2>2
  <2> QED BY <1>1, <2>1, <2>6, <2>7, RequestConfirms
<1>10. CASE RestoreRaises
  <2>1. /\ lock.at = "restore" /\ lock' = Free /\ Put(NotRestored(doc))
        /\ UNCHANGED <<platform, detail>> /\ (Fault \/ UNCHANGED faults)
    BY <1>10 DEF RestoreRaises, Done
  <2>2. doc.asked
    BY <2>1 DEF Inv, LockInv
  <2>3. IsLate(NotRestored(doc))
    BY <1>2, <2>2, RollbackWords DEF NotRestored
  <2>4. IsLate(doc')
    BY <1>3, <2>1, <2>3 DEF Put
  <2> QED BY <1>4, <2>1, <2>4
<1> QED BY <1>5, <1>6, <1>7, <1>8, <1>9, <1>10 DEF CallStep

(* A reader of the experiment may find its version overtaken, and writes    *)
(* the experiment as it was at the review.                                  *)
LEMMA DetailSteps ==
  ASSUME Inv, DetailStep, OutsideWorker
  PROVE  Inv' /\ EndKept
<1>1. doc.status \in Late
  BY DEF DetailStep, DetailRead, DetailAsk, DetailWrite, Inv, LockInv, Late
<1>2. IsLate(doc) /\ doc \in Documents /\ Current \in Nat
  BY <1>1, LateDocument DEF IsLate
<1>3. UNCHANGED <<platform, lock, faults>>
  BY DEF DetailStep, DetailRead, DetailAsk, DetailWrite
<1>4. Current' = Current /\ Sent' = Sent
  BY <1>3 DEF platform, Current, Sent
<1>5. LockTypes'
  BY <1>3, <1>4 DEF LockTypes, Inv, TypeOK, OutsideWorker, worker
<1>6. detail' \in {"none", "read", "stale"} /\ faults' \in 0..MaxFaults
  BY <1>3, FaultType DEF DetailStep, DetailRead, DetailAsk, DetailWrite
<1>7. CASE UNCHANGED doc
  <2>1. IsLate(doc')
    BY <1>2, <1>7
  <2>2. LockInv'
    BY <1>1, <1>3, <1>4, <1>7 DEF Inv, LockInv, platform
  <2>3. mine \in Documents /\ Earned(mine) /\ cur \in Packages \cup {None}
        /\ at \in WorkerAt \cup {"confirm"} /\ at \notin Busy /\ CopyInv'
    BY <1>1, <1>7, LateDocument
    DEF Inv, TypeOK, EarnedInv, WorkerAt, CopyInv, OutsideWorker, worker
  <2> QED BY <1>1, <1>3, <1>5, <1>6, <2>1, <2>2, <2>3, LateStep DEF OutsideWorker, worker
<1>8. CASE DetailWrite
  <2> DEFINE e == [AsReviewed(doc) EXCEPT !.status = "stale"]
  <2>1. doc' = e /\ lock = Free
    BY <1>1, <1>8, LateWrite DEF DetailWrite, Put
  <2>2. e \in Documents
    <3>1. AsReviewed(doc) \in Documents
      <4> DEFINE d1 == [doc EXCEPT !.phase = "review", !.pub = "not_started", !.approved = FALSE]
                 d2 == [d1 EXCEPT !.published = 0, !.restored = 0]
                 d3 == [d2 EXCEPT !.rollback = "none", !.asked = FALSE]
      <4>1. "review" \in Phases /\ 0 \in 0..Current
        BY <1>2 DEF Phases
      <4>2. d1 \in Documents
        BY <1>2, <4>1 DEF Documents
      <4> HIDE DEF d1
      <4>3. d2 \in Documents
        BY <4>1, <4>2 DEF Documents
      <4> HIDE DEF d2
      <4>4. d3 \in Documents
        BY <4>3 DEF Documents
      <4>5. AsReviewed(doc) = d3
        BY <1>2 DEF AsReviewed, Documents, d1, d2
      <4> QED BY <4>4, <4>5
    <3>2. "stale" \in Statuses
      BY DEF Statuses
    <3> QED BY <3>1, <3>2 DEF Documents
  <2>3. /\ e.status = "stale" /\ e.sample = doc.sample /\ RoundEarned(e) /\ VersionsEarned(e)
    BY <1>2 DEF IsLate, AsReviewed, Documents, Earned, RoundEarned, VersionsEarned
  <2> HIDE DEF e
  <2>4. IsLate(doc') /\ doc'.status \in Late
    BY <2>1, <2>2, <2>3 DEF IsLate, Earned, Late
  <2>5. lock.by # "worker" /\ lock'.by # "worker" /\ lock'.at = "none"
    BY <1>2, <1>3, <2>1, FreeLock
  <2>6. LockInv'
    BY <2>4, <2>5 DEF LockInv
  <2> QED BY <1>1, <1>3, <1>5, <1>6, <2>4, <2>5, <2>6, RequestStep
<1> QED BY <1>7, <1>8 DEF DetailStep, DetailRead, DetailAsk

-----------------------------------------------------------------------------
(* The platform.                                                            *)

LEMMA VersionsKeep ==
  ASSUME NEW d \in Documents, Earned(d), Current \in Nat, Current' \in Nat, Current <= Current',
         \A v \in 1..Current : versions'[v] = versions[v]
  PROVE  /\ d \in Documents' /\ RoundEarned(d)
         /\ d.published # 0 => versions'[d.published] = "cand" /\ d.approved
         /\ d.restored # 0 => versions'[d.restored] = "base" /\ d.asked /\ d.published < d.restored
BY DEF Documents, Earned, VersionsEarned

(* What anybody knows of the platform stays so when versions are added and  *)
(* orders get their answer.                                                 *)
LEMMA PlatformGrows ==
  ASSUME Inv, UNCHANGED <<doc, lock, detail, faults>>, OutsideWorker,
         versions' \in Seq(Commits), Current' \in Nat, Current <= Current',
         \A v \in 1..Current : versions'[v] = versions[v],
         orders' \in Seq(OrderTypes'), Sent' = Sent,
         \A i \in 1..Sent : orders'[i].what = orders[i].what
                              /\ orders'[i].expect = orders[i].expect,
         OrdersInv'
  PROVE  Inv' /\ EndKept
<1>1. doc \in Documents /\ mine \in Documents /\ Current \in Nat /\ Current > 0
      /\ Earned(doc) /\ Earned(mine)
  BY DEF Inv, TypeOK, EarnedInv, Current
<1>2. doc' \in Documents' /\ mine' \in Documents'
  BY <1>1, VersionsKeep DEF OutsideWorker, worker
<1>3. (lock \in [by : {"nobody", "api", "worker"},
                 at : {"none", "promote", "ask", "restore", "confirm"},
                 version : 0..Current, restoring : BOOLEAN])'
  <2>1. lock \in [by : {"nobody", "api", "worker"},
                  at : {"none", "promote", "ask", "restore", "confirm"},
                  version : 0..Current, restoring : BOOLEAN]
    BY DEF Inv, TypeOK
  <2>2. 0..Current \subseteq 0..Current'
    BY <1>1
  <2> QED BY <2>1, <2>2
<1>4. TypeOK'
  BY <1>1, <1>2, <1>3 DEF Inv, TypeOK, OrderTypes, OutsideWorker, worker
<1>5. EarnedInv'
  BY <1>1, VersionsKeep
  DEF EarnedInv, Earned, RoundEarned, VersionsEarned, Unpublished, OutsideWorker, worker
<1>6. LockInv'
  BY DEF Inv, LockInv, TypeOK, Sent
<1>7. CopyInv' /\ TaskInv' /\ EndKept
  BY DEF Inv, CopyInv, TaskInv, OutsideWorker, worker, EndKept
<1> QED BY <1>4, <1>5, <1>6, <1>7 DEF Inv

LEMMA OrderFacts ==
  ASSUME Inv, NEW i \in 1..Sent
  PROVE  /\ orders[i] \in OrderTypes /\ OrderEarned(orders[i])
         /\ orders[i].expect \in 1..Current /\ orders[i].version \in 0..Current
<1>1. orders \in Seq(OrderTypes) /\ Sent = Len(orders) /\ Sent \in Nat
  BY DEF Inv, TypeOK, Sent, OrderTypes
<1>2. orders[i] \in OrderTypes
  BY <1>1
<1>3. orders[i].expect \in 1..Current /\ orders[i].version \in 0..Current
  BY <1>2 DEF OrderTypes
<1> QED BY <1>2, <1>3 DEF Inv, OrdersInv

LEMMA RivalStep ==
  ASSUME Inv, Rival, OutsideWorker
  PROVE  Inv' /\ EndKept
<1>1. PICK c \in Commits : versions' = Append(versions, c)
  BY DEF Rival
<1>2. versions \in Seq(Commits) /\ Current = Len(versions) /\ Current \in Nat
  BY DEF Inv, TypeOK, Current
<1>3. /\ versions' \in Seq(Commits) /\ Current' = Current + 1
      /\ \A v \in 1..Current : versions'[v] = versions[v]
  BY <1>1, <1>2 DEF Current
<1>4. UNCHANGED <<doc, orders, lock, detail, faults>> /\ Sent' = Sent
  BY DEF Rival, Sent
<1>5. orders' \in Seq(OrderTypes')
  <2>1. orders \in Seq(OrderTypes) /\ OrderTypes \subseteq OrderTypes'
    BY <1>2, <1>3 DEF Inv, TypeOK, OrderTypes
  <2> QED BY <1>4, <2>1
<1>6. OrdersInv'
  <2>1. ASSUME NEW i \in 1..Sent
        PROVE  orders[i].expect \in 1..Current /\ orders[i].version \in 0..Current
    BY <2>1, OrderFacts
  <2>2. ASSUME NEW i \in 1..Sent
        PROVE  OrderEarned(orders[i])'
    <3>1. OrderEarned(orders[i])
      BY DEF Inv, OrdersInv
    <3>2. orders[i].state = "applied" => orders[i].version \in 1..Current
      BY <1>2, <2>1, <3>1 DEF OrderEarned
    <3> QED BY <1>3, <1>4, <2>1, <3>1, <3>2 DEF OrderEarned
  <2> QED BY <1>4, <2>2 DEF Inv, OrdersInv
<1> QED BY <1>2, <1>3, <1>4, <1>5, <1>6, PlatformGrows

(* An order that passes makes the next version, and it alone does.          *)
LEMMA DecideStep ==
  ASSUME Inv, NEW i \in 1..Sent, Decide(i), OutsideWorker
  PROVE  Inv' /\ EndKept
<1>1. versions \in Seq(Commits) /\ Current = Len(versions) /\ Current \in Nat /\ Current > 0
  BY DEF Inv, TypeOK, Current
<1>2. orders \in Seq(OrderTypes) /\ Sent = Len(orders) /\ Sent \in Nat
  BY DEF Inv, TypeOK, Sent, OrderTypes
<1>3. \A j \in 1..Sent : /\ orders[j] \in OrderTypes /\ OrderEarned(orders[j])
                         /\ orders[j].expect \in 1..Current /\ orders[j].version \in 0..Current
  BY OrderFacts
<1>4. UNCHANGED <<doc, lock, detail, faults>> /\ orders[i].state = "open"
  BY DEF Decide
<1>5. CASE /\ Passes(orders[i])
           /\ versions' = Append(versions, IF orders[i].what = "promote" THEN "cand" ELSE "base")
           /\ orders' = [orders EXCEPT ![i].state = "applied", ![i].version = Current + 1]
  <2> DEFINE o == [orders[i] EXCEPT !.state = "applied", !.version = Current + 1]
  <2>1. orders' = [orders EXCEPT ![i] = o]
    BY <1>2, <1>3, <1>5 DEF OrderTypes
  <2>2. /\ versions' \in Seq(Commits) /\ Current' = Current + 1
        /\ \A v \in 1..Current : versions'[v] = versions[v]
        /\ versions'[Current + 1] = IF orders[i].what = "promote" THEN "cand" ELSE "base"
    BY <1>1, <1>5 DEF Current, Commits
  <2>3. /\ o \in OrderTypes' /\ o.state = "applied" /\ o.version = Current + 1
        /\ o.what = orders[i].what /\ o.expect = orders[i].expect
    <3>1. orders[i] \in OrderTypes /\ orders[i].expect \in 1..Current'
      BY <1>1, <1>3, <2>2
    <3>2. Current + 1 \in 0..Current'
      BY <1>1, <2>2
    <3> QED BY <3>1, <3>2 DEF OrderTypes
  <2>4. o.expect = Current
    BY <1>5, <2>3 DEF Passes
  <2> HIDE DEF o
  <2>5. /\ orders' \in Seq(OrderTypes') /\ Sent' = Sent /\ orders'[i] = o
        /\ \A j \in 1..Sent : j # i => orders'[j] = orders[j]
    <3>1. OrderTypes \subseteq OrderTypes'
      BY <1>1, <2>2 DEF OrderTypes
    <3>2. orders \in Seq(OrderTypes')
      BY <1>2, <3>1
    <3> QED BY <1>2, <2>1, <2>3, <3>2 DEF Sent
  <2>6. ASSUME NEW j \in 1..Sent'
        PROVE  /\ orders'[j].what = "promote" => orders'[j].expect = Original
               /\ orders'[j].what = "restore" => versions'[orders'[j].expect] = "cand"
               /\ orders'[j].state = "applied" =>
                    /\ orders'[j].version = orders'[j].expect + 1
                    /\ versions'[orders'[j].version]
                         = IF orders'[j].what = "promote" THEN "cand" ELSE "base"
    <3>1. CASE j = i
      BY <1>1, <1>3, <2>2, <2>3, <2>4, <2>5, <3>1 DEF OrderEarned
    <3>2. CASE j # i
      <4>1. orders'[j] = orders[j] /\ j \in 1..Sent
        BY <2>5, <2>6, <3>2
      <4>2. /\ versions'[orders[j].expect] = versions[orders[j].expect]
            /\ orders[j].version # 0 =>
                 versions'[orders[j].version] = versions[orders[j].version]
        BY <1>1, <1>3, <2>2, <4>1
      <4> QED BY <1>3, <4>1, <4>2 DEF OrderEarned
    <3> QED BY <3>1, <3>2
  <2>7. ASSUME NEW j \in 1..Sent', NEW k \in 1..Sent',
               orders'[j].state = "applied", orders'[k].state = "applied",
               orders'[j].version = orders'[k].version
        PROVE  j = k
    <3>1. CASE j = i \/ k = i
      BY <1>1, <1>3, <2>3, <2>5, <2>7, <3>1
    <3>2. CASE j # i /\ k # i
      BY <2>5, <2>7, <3>2 DEF Inv, OrdersInv
    <3> QED BY <3>1, <3>2
  <2>8. OrdersInv'
    BY <2>6, <2>7 DEF OrdersInv, OrderEarned, Original
  <2>9. \A j \in 1..Sent : orders'[j].what = orders[j].what
                             /\ orders'[j].expect = orders[j].expect
    BY <2>3, <2>5
  <2> QED BY <1>1, <1>4, <2>2, <2>5, <2>8, <2>9, PlatformGrows
<1>6. ASSUME NEW s \in {"refused", "failed"}, orders' = [orders EXCEPT ![i].state = s],
             UNCHANGED versions
      PROVE  Inv' /\ EndKept
  <2> DEFINE o == [orders[i] EXCEPT !.state = s]
  <2>1. orders' = [orders EXCEPT ![i] = o] /\ Current' = Current /\ OrderTypes' = OrderTypes
    BY <1>2, <1>3, <1>6 DEF OrderTypes, Current
  <2>2. /\ o \in OrderTypes /\ o.state = s
        /\ o.what = orders[i].what /\ o.expect = orders[i].expect
    BY <1>3, <1>6 DEF OrderTypes
  <2> HIDE DEF o
  <2>3. /\ orders' \in Seq(OrderTypes) /\ Sent' = Sent /\ orders'[i] = o
        /\ \A j \in 1..Sent : j # i => orders'[j] = orders[j]
    BY <1>2, <2>1, <2>2 DEF Sent
  <2>4. \A j \in 1..Sent : /\ orders'[j].what = orders[j].what
                           /\ orders'[j].expect = orders[j].expect
                           /\ orders'[j].state = "applied" => orders'[j] = orders[j]
    BY <1>6, <2>2, <2>3
  <2>5. OrdersInv'
    BY <1>3, <1>6, <2>3, <2>4 DEF Inv, OrdersInv, OrderEarned
  <2> QED BY <1>1, <1>4, <1>6, <2>1, <2>3, <2>4, <2>5, PlatformGrows DEF Inv, TypeOK
<1> QED BY <1>5, <1>6 DEF Decide

-----------------------------------------------------------------------------
(* The executor's tasks, stops, and the end of the process.                 *)

(* A step that changes tasks and flags, and neither document nor platform.  *)
LEMMA OutsideStep ==
  ASSUME Inv, UNCHANGED <<doc, platform, lock, detail, worker>>, faults' \in 0..MaxFaults,
         stopEvent' \in BOOLEAN, stopping' \in BOOLEAN, shutdown' \in BOOLEAN,
         crashes' = crashes, task' \in [Packages -> TaskStates],
         \A p \in Packages : Tracked(doc.sample[p], task'[p]),
         \A p \in Packages : task[p] = "absent" => task'[p] = "absent"
  PROVE  Inv' /\ EndKept
<1> USE DEF platform, worker
<1>1. Current' = Current /\ Sent' = Sent /\ Documents' = Documents
  BY DEF Current, Sent, Documents
<1>2. TypeOK'
  BY <1>1 DEF Inv, TypeOK
<1>3. EarnedInv' /\ OrdersInv' /\ LockInv'
  BY <1>1 DEF Inv, EarnedInv, Earned, RoundEarned, VersionsEarned, Unpublished, OrdersInv,
     OrderEarned, LockInv
<1>4. CopyInv' /\ TaskInv'
  BY DEF Inv, CopyInv, TaskInv
<1>5. EndKept
  BY DEF EndKept
<1> QED BY <1>2, <1>3, <1>4, <1>5 DEF Inv

LEMMA TaskSteps ==
  ASSUME Inv, NEW p \in Packages, TaskEnds(p) \/ TaskInterrupted(p)
  PROVE  Inv' /\ EndKept
<1>1. task \in [Packages -> TaskStates] /\ \A q \in Packages : Tracked(doc.sample[q], task[q])
  BY DEF Inv, TypeOK, TaskInv
<1>2. PICK s \in {"completed", "failed", "stopped", "interrupted"} :
        task' = [task EXCEPT ![p] = s]
  BY DEF TaskEnds, TaskInterrupted
<1>3. task[p] \in Running
  BY DEF TaskEnds, TaskInterrupted, Running
<1>4. task' \in [Packages -> TaskStates]
  BY <1>1, <1>2 DEF TaskStates, Running
<1>5. Tracked(doc.sample[p], s)
  BY <1>1, <1>3 DEF Tracked, Running
<1>6. /\ \A q \in Packages : Tracked(doc.sample[q], task'[q])
      /\ \A q \in Packages : task[q] = "absent" => task'[q] = "absent"
  BY <1>1, <1>2, <1>3, <1>5 DEF Running
<1>7. /\ UNCHANGED <<doc, platform, lock, detail, worker, stopEvent, stopping, shutdown, crashes>>
      /\ Fault \/ UNCHANGED faults
  BY DEF TaskEnds, TaskInterrupted, pubVars
<1>8. stopEvent \in BOOLEAN /\ stopping \in BOOLEAN /\ shutdown \in BOOLEAN
  BY DEF Inv, TypeOK
<1> QED BY <1>4, <1>6, <1>7, <1>8, FaultType, OutsideStep

LEMMA FlagSteps ==
  ASSUME Inv, RequestStop \/ Shutdown
  PROVE  Inv' /\ EndKept
<1>1. /\ UNCHANGED <<doc, platform, lock, detail, worker, faults, crashes, task>>
      /\ stopEvent' \in BOOLEAN /\ stopping' \in BOOLEAN /\ shutdown' \in BOOLEAN
  BY DEF RequestStop, Shutdown, pubVars, Inv, TypeOK
<1>2. task \in [Packages -> TaskStates] /\ \A q \in Packages : Tracked(doc.sample[q], task[q])
  BY DEF Inv, TypeOK, TaskInv
<1> QED BY <1>1, <1>2, FaultType, OutsideStep

(* A stop of an experiment under way changes its status only.               *)
LEMMA StopWriteStep ==
  ASSUME Inv, StopWrite
  PROVE  Inv' /\ EndKept
<1>1. /\ lock = Free /\ stopping' = FALSE
      /\ Put(IF doc.status \in Active THEN [doc EXCEPT !.status = "stopping"] ELSE doc)
      /\ at' = IF at = "none" THEN "top" ELSE at
      /\ UNCHANGED <<platform, lock, detail, faults, mine, cur, stopEvent, shutdown, task, crashes>>
  BY DEF StopWrite
<1>2. doc \in Documents /\ Earned(doc) /\ Current \in Nat /\ lock.at = "none"
  BY <1>1, FreeLock DEF Inv, TypeOK, EarnedInv, Current
<1>3. /\ doc.status \in Active => doc' = [doc EXCEPT !.status = "stopping"]
      /\ doc.status \notin Active => doc' = doc
  BY <1>1, <1>2 DEF Put, Merged, Documents
<1>4. Current' = Current /\ Sent' = Sent /\ Documents' = Documents
  BY <1>1 DEF platform, Current, Sent, Documents
<1>5. "stopping" \in Statuses /\ "stopping" \in Active
  BY DEF Statuses, Active
<1>6. doc' \in Documents /\ doc'.sample = doc.sample
  BY <1>2, <1>3, <1>5 DEF Documents
<1>7. TypeOK'
  <2>1. UNCHANGED <<versions, orders, lock, detail, faults, mine, cur, stopEvent, shutdown,
                    task, crashes>>
    BY <1>1 DEF platform
  <2>2. doc' \in Documents' /\ stopping' \in BOOLEAN
    BY <1>1, <1>4, <1>6
  <2>3. /\ at' \in {"none", "top", "pass", "check", "start", "poll", "score", "improve", "stop",
                    "recover", "confirm", "writeback"}
        /\ (at' = "confirm") = (at = "confirm")
    BY <1>1 DEF Inv, TypeOK
  <2>4. mine \in Documents /\ (lock.by = "worker" <=> at = "confirm")
    BY DEF Inv, TypeOK
  <2>5. mine' \in Documents' /\ (lock'.by = "worker" <=> at' = "confirm")
    BY <1>4, <2>1, <2>3, <2>4
  <2> QED BY <1>4, <2>1, <2>2, <2>3, <2>5 DEF Inv, TypeOK
<1>8. Earned(doc')
  <2>1. CASE doc.status \in Active
    <3>1. doc.status \notin Late
      BY <2>1, EarlyOrLate
    <3> QED BY <1>2, <1>3, <2>1, <3>1
        DEF Earned, RoundEarned, VersionsEarned, Unpublished, Late, Documents
  <2>2. CASE doc.status \notin Active
    BY <1>2, <1>3, <2>2
  <2> QED BY <2>1, <2>2
<1>9. EarnedInv' /\ OrdersInv'
  BY <1>1, <1>4, <1>8 DEF Inv, EarnedInv, Earned, RoundEarned, VersionsEarned, Unpublished,
     OrdersInv, OrderEarned, platform
<1>10. doc.status \in Late => doc' = doc
  BY <1>3, EarlyOrLate
<1>11. LockInv'
  BY <1>1, <1>2, <1>10 DEF Inv, LockInv
<1>12. CopyInv'
  <2>1. CASE at \in Busy
    <3>1. /\ doc.status \in Active /\ mine.status \in Active /\ at # "none"
          /\ mine = [doc EXCEPT !.status = mine.status]
      BY <2>1 DEF Inv, CopyInv, Busy
    <3>2. /\ doc'.status = "stopping" /\ doc'.phase = doc.phase
          /\ mine = [doc' EXCEPT !.status = mine.status]
      BY <1>2, <1>3, <3>1 DEF Documents
    <3>3. at' = at /\ mine' = mine
      BY <1>1, <3>1
    <3> QED BY <1>5, <2>1, <3>1, <3>2, <3>3 DEF Inv, CopyInv, Busy
  <2>2. CASE at \notin Busy
    BY <1>1, <1>10, <2>2 DEF Inv, CopyInv, Busy
  <2> QED BY <2>1, <2>2
<1>13. TaskInv'
  BY <1>1, <1>6 DEF Inv, TaskInv
<1>14. EndKept
  BY <1>2, <1>3, <1>5, EarlyOrLate DEF EndKept, Documents
<1> QED BY <1>7, <1>9, <1>11, <1>12, <1>13, <1>14 DEF Inv

(* The next process begins with what is stored, and with the tasks that the *)
(* last one has left.                                                       *)
LEMMA RestartStep ==
  ASSUME Inv, Restart
  PROVE  Inv' /\ EndKept
<1>1. /\ crashes < MaxCrashes /\ crashes' = crashes + 1
      /\ doc' = IF doc.status \in Active \ {"stopping"} /\ ~NeedsRecovery(doc)
                THEN [doc EXCEPT !.status = "recovering"] ELSE doc
      /\ at' \in {"top", "none"} /\ mine' = Blank /\ cur' = None
      /\ stopEvent' = FALSE /\ stopping' = FALSE /\ shutdown' = FALSE
      /\ lock' = Free /\ detail' = "none" /\ UNCHANGED <<platform, faults>>
      /\ task' \in CallLost
  BY DEF Restart, PublicationLost
<1>2. doc \in Documents /\ Earned(doc) /\ Current \in Nat
  BY DEF Inv, TypeOK, EarnedInv, Current
<1>3. Current' = Current /\ Sent' = Sent /\ Documents' = Documents
  BY <1>1 DEF platform, Current, Sent, Documents
<1>4. "recovering" \in Statuses /\ "recovering" \in Active
  BY DEF Statuses, Active
<1>5. doc' \in Documents /\ doc'.sample = doc.sample
  BY <1>1, <1>2, <1>4 DEF Documents
<1>6. /\ task' \in [Packages -> TaskStates]
      /\ \A p \in Packages : Tracked(doc.sample[p], task'[p])
  BY <1>1, LostCalls
<1>7. Blank \in Documents /\ Earned(Blank)
  BY <1>2, BlankDocument
<1>8. crashes' \in 0..MaxCrashes
  BY <1>1, CrashesAssumption DEF Inv, TypeOK
<1>9. (/\ lock \in [by : {"nobody", "api", "worker"},
                    at : {"none", "promote", "ask", "restore", "confirm"},
                    version : 0..Current, restoring : BOOLEAN]
       /\ lock.by = "nobody" <=> lock.at = "none"
       /\ lock.by = "worker" <=> at = "confirm")'
  BY <1>1, <1>2, <1>3, FreeLock
<1>10. TypeOK'
  BY <1>1, <1>3, <1>5, <1>6, <1>7, <1>8, <1>9 DEF Inv, TypeOK, platform
<1>11. Earned(doc')
  <2>1. CASE doc.status \in Active \ {"stopping"} /\ ~NeedsRecovery(doc)
    <3>1. doc.status \notin Late
      BY <2>1, EarlyOrLate
    <3>2. doc' = [doc EXCEPT !.status = "recovering"]
      BY <1>1, <2>1
    <3> QED BY <1>2, <3>1, <3>2
        DEF Earned, RoundEarned, VersionsEarned, Unpublished, Late, Documents
  <2>2. CASE ~(doc.status \in Active \ {"stopping"} /\ ~NeedsRecovery(doc))
    BY <1>1, <1>2, <2>2
  <2> QED BY <2>1, <2>2
<1>12. EarnedInv' /\ OrdersInv'
  BY <1>1, <1>3, <1>7, <1>11 DEF Inv, EarnedInv, Earned, RoundEarned, VersionsEarned,
     Unpublished, OrdersInv, OrderEarned, platform
<1>13. LockInv' /\ CopyInv' /\ TaskInv'
  BY <1>1, <1>2, <1>5, <1>6, FreeLock DEF LockInv, CopyInv, TaskInv, Busy
<1>14. EndKept
  BY <1>1, EarlyOrLate DEF EndKept
<1> QED BY <1>10, <1>12, <1>13, <1>14 DEF Inv

LEMMA NextInv ==
  ASSUME Inv, [Next]_vars
  PROVE  Inv' /\ EndKept
<1>1. CASE WorkerStep
  BY <1>1, WorkerSteps
<1>2. CASE Publish
  <2>1. CASE PlatformStep /\ OutsideWorker
    BY <2>1, RivalStep, DecideStep DEF PlatformStep
  <2>2. CASE Request /\ OutsideWorker
    BY <2>2, RequestSteps
  <2>3. CASE DetailStep /\ OutsideWorker
    BY <2>3, DetailSteps
  <2>4. CASE lock.by = "api" /\ CallStep /\ OutsideWorker
    BY <2>4, CallSteps
  <2> QED BY <1>2, <2>1, <2>2, <2>3, <2>4 DEF Publish
<1>3. CASE RequestStop \/ Shutdown
  BY <1>3, FlagSteps
<1>4. CASE StopWrite
  BY <1>4, StopWriteStep
<1>5. CASE Restart
  BY <1>5, RestartStep
<1>6. CASE \E p \in Packages : TaskEnds(p) \/ TaskInterrupted(p)
  BY <1>6, TaskSteps
<1>7. CASE UNCHANGED vars
  <2>1. /\ UNCHANGED <<doc, platform, lock, detail, worker, faults, stopEvent, stopping,
                       shutdown, task, crashes>>
        /\ stopEvent \in BOOLEAN /\ stopping \in BOOLEAN /\ shutdown \in BOOLEAN
    BY <1>7 DEF vars, pubVars, Inv, TypeOK
  <2>2. task \in [Packages -> TaskStates] /\ \A p \in Packages : Tracked(doc.sample[p], task[p])
    BY DEF Inv, TypeOK, TaskInv
  <2> QED BY <2>1, <2>2, FaultType, OutsideStep
<1> QED BY <1>1, <1>2, <1>3, <1>4, <1>5, <1>6, <1>7 DEF Next

LEMMA InvHolds == Spec => []Inv
<1>1. Inv /\ [Next]_vars => Inv'
  BY NextInv
<1> QED BY InitInv, <1>1, PTL DEF Spec

-----------------------------------------------------------------------------
(* Theorems.                                                                *)

(* Types; versions that the document names exist, and a call is made by who *)
(* has the lock.                                                            *)
THEOREM ExperimentTypes == Spec => []TypeOK
<1>1. Inv => TypeOK
  BY DEF Inv
<1> QED BY <1>1, InvHolds, PTL

(* A sample that is over has no task running: the executor is never left    *)
(* with work of an experiment that has stopped or moved on.                 *)
THEOREM TasksNeverLeft == Spec => []NoTaskLeft
<1>1. Inv => NoTaskLeft
  BY DEF Inv, TaskInv, Tracked, NoTaskLeft, SampleOver
<1> QED BY <1>1, InvHolds, PTL

(* An experiment is promoted once at most: every promotion expects the      *)
(* version the experiment began with, and only one can find it.             *)
THEOREM PromotedOnce == Spec => []AtMostOnePromotion
<1>1. Inv => AtMostOnePromotion
  <2> SUFFICES ASSUME Inv PROVE AtMostOnePromotion
    OBVIOUS
  <2>1. ASSUME NEW i \in Applied("promote"), NEW j \in Applied("promote") PROVE i = j
    <3>1. i \in 1..Sent /\ j \in 1..Sent
      BY <2>1 DEF Applied
    <3>2. OrderEarned(orders[i]) /\ OrderEarned(orders[j])
      BY <3>1 DEF Inv, OrdersInv
    <3>3. orders[i].version = Original + 1 /\ orders[j].version = Original + 1
      BY <2>1, <3>2 DEF Applied, OrderEarned
    <3> QED BY <2>1, <3>1, <3>3 DEF Inv, OrdersInv, Applied
  <2>2. CASE Applied("promote") = {}
    BY <2>2, FS_EmptySet DEF AtMostOnePromotion
  <2>3. CASE Applied("promote") # {}
    <3>1. PICK i : Applied("promote") = {i}
      BY <2>1, <2>3
    <3>2. Cardinality({i}) = 1
      BY FS_Singleton
    <3> QED BY <3>1, <3>2 DEF AtMostOnePromotion
  <2> QED BY <2>2, <2>3
<1> QED BY <1>1, InvHolds, PTL

(* A restore takes the candidate out of production and nothing else.        *)
THEOREM RestoresAreOwn == Spec => []RestoreIsOwn
<1>1. Inv => RestoreIsOwn
  <2> SUFFICES ASSUME Inv, NEW i \in Applied("restore")
               PROVE  versions[orders[i].version - 1] = "cand"
    BY DEF RestoreIsOwn
  <2>1. i \in 1..Sent /\ orders[i].what = "restore" /\ orders[i].state = "applied"
    BY DEF Applied
  <2>2. OrderEarned(orders[i]) /\ orders[i].expect \in 1..Current
    BY <2>1, OrderFacts
  <2>3. orders[i].version = orders[i].expect + 1 /\ orders[i].expect \in Int
    BY <2>1, <2>2 DEF OrderEarned
  <2>4. orders[i].version - 1 = orders[i].expect
    BY <2>3
  <2> QED BY <2>1, <2>2, <2>4 DEF OrderEarned
<1> QED BY <1>1, InvHolds, PTL

(* What the document says of the candidate and of production is true.       *)
THEOREM ExperimentOutcomes == Spec => []OutcomeIsTrue
<1>1. Inv => OutcomeIsTrue
  BY DEF Inv, EarnedInv, Earned, RoundEarned, VersionsEarned, OutcomeIsTrue
<1> QED BY <1>1, InvHolds, PTL

(* An experiment that ended stays as it ended, and a stop is not undone.    *)
THEOREM ExperimentEndsStay == Spec => EndStays
<1>1. Inv /\ [Next]_vars => EndKept
  BY NextInv
<1> QED BY <1>1, InvHolds, PTL DEF Spec, EndStays, EndKept

(* While the worker is between two writes nobody else changes anything but  *)
(* the status, so that what it writes loses nothing: requests, readers and  *)
(* stops leave the rest of the document alone until the review.             *)
THEOREM CopyIsCurrent ==
  Spec => [](at \in Busy => mine = [doc EXCEPT !.status = mine.status])
<1>1. Inv => (at \in Busy => mine = [doc EXCEPT !.status = mine.status])
  BY DEF Inv, CopyInv
<1> QED BY <1>1, InvHolds, PTL

=============================================================================
