--------------------------- MODULE BenchmarkProofs ---------------------------
(***************************************************************************)
(* A batch, for every set of rows, workers and requests and all limits: a  *)
(* row has one holder, a row that is over stays so, a stop is final and no *)
(* row is forgotten, all but for the rows that mark_running revives, and a *)
(* row fails for good only after all its attempts or in a stopped batch.   *)
(* A batch stops by itself only after a streak that its table shows.       *)
(***************************************************************************)
EXTENDS Benchmark, FiniteSetTheorems, TLAPS

(* Who has a row; a worker that gives up for a stop has seen the event; a   *)
(* batch that does not run has no worker at work.                           *)
PlaceInv ==
  \A w \in Workers :
    /\ worker[w].row \in Rows <=> worker[w].at \notin {"absent", "idle", "claiming", "gone"}
    /\ worker[w].at \in {"cancelling", "halted"} => event
    /\ worker[w].at = "absent" <=> phase = "created"
    /\ phase \in {"ended", "lost"} => worker[w].at = "gone"

(* A row is pending only when nobody holds it and another attempt is left;  *)
(* it is in progress only after the start.                                  *)
HeldInv ==
  /\ \A w \in Workers, r \in Rows : Holds(w, r) => status[r] # "pending"
  /\ \A r \in Rows : status[r] = "pending" => retries[r] < MaxRetries
  /\ \A r \in Rows : phase = "created" => status[r] \notin {"running", "evaluating"}

(* How far a row is tells how far its worker is.                            *)
ScoreInv ==
  \A w \in Workers, r \in Rows : Holds(w, r) /\ r \notin revived =>
    /\ worker[w].at \in {"scoring", "scored"} => status[r] # "running"
    /\ worker[w].at \in {"claimed", "executing", "polling", "traced"} => status[r] # "evaluating"

IInv == TypeOK /\ PlaceInv /\ OneHolder /\ HeldInv /\ ScoreInv
        /\ NoOrphanRow /\ StopIsFinal /\ FailureIsEarned

USE DEF Active, Final, Steps, Holding, Without

-----------------------------------------------------------------------------
(* The initial state and each step keep the invariant.                      *)
LEMMA InitOK == Init => IInv
<1> SUFFICES ASSUME Init PROVE IInv
  OBVIOUS
<1>1. TypeOK /\ PlaceInv
  BY NoneAssumption DEF Init, TypeOK, PlaceInv
<1>2. \A w \in Workers, r \in Rows : ~Holds(w, r)
  BY NoneAssumption DEF Init, Holds
<1>3. OneHolder /\ HeldInv /\ ScoreInv
  BY <1>2, LimitAssumption DEF Init, OneHolder, HeldInv, ScoreInv
<1>4. NoOrphanRow /\ StopIsFinal /\ FailureIsEarned
  BY DEF Init, NoOrphanRow, StopIsFinal, FailureIsEarned
<1> QED BY <1>1, <1>3, <1>4 DEF IInv

-----------------------------------------------------------------------------
(* A worker that moves on, without a write: it keeps its row, or had none   *)
(* to write.                                                                *)
Early == {"claimed", "executing", "polling", "traced"}
Late == {"scoring", "scored"}

Quiet ==
  /\ UNCHANGED <<status, retries, stopReason, revived, phase>> /\ (event => event')
  /\ \A u \in Workers, r \in Rows : Holds(u, r)' <=> Holds(u, r)
  /\ \A u \in Workers :
       /\ worker'[u].at \in Early => worker[u].at \in Early
       /\ worker'[u].at \in Late => worker[u].at \in Late
       /\ worker'[u].at = "marking" /\ worker'[u].row \in Rows
            => worker'[u].read = retries[worker'[u].row] + 1
       /\ worker'[u].at = "gone" => worker[u].at = "gone" \/ event

LEMMA QuietKeeps == ASSUME IInv, TypeOK', PlaceInv', Quiet PROVE IInv'
<1>1. OneHolder'
  BY DEF IInv, OneHolder, Quiet, Holds
<1>2. HeldInv'
  BY DEF IInv, HeldInv, Quiet
<1>3. ScoreInv'
  BY DEF IInv, ScoreInv, Quiet, Early, Late
<1>4. NoOrphanRow'
  <2>1. ASSUME NEW r \in Rows \ revived, phase = "running", status[r] \in {"running", "evaluating"}
        PROVE  \E u \in Workers : Holds(u, r)'
    BY <2>1 DEF IInv, NoOrphanRow, Quiet
  <2>2. ASSUME NEW r \in Rows \ revived, phase = "running", status[r] = "pending"
        PROVE  event' \/ \E u \in Workers : worker'[u].at # "gone"
    BY <2>2 DEF IInv, NoOrphanRow, Quiet
  <2> QED BY <2>1, <2>2 DEF Quiet, NoOrphanRow
<1>5. StopIsFinal' /\ FailureIsEarned'
  BY DEF IInv, StopIsFinal, FailureIsEarned, Quiet
<1> QED BY <1>1, <1>2, <1>3, <1>4, <1>5 DEF IInv

LEMMA CheckEventKeeps == ASSUME IInv, NEW w \in Workers, CheckEvent(w) PROVE IInv'
<1>1. TypeOK'
  BY NoneAssumption DEF IInv, TypeOK, PlaceInv, CheckEvent, table, counters, GoTo, Leave
<1>2. PlaceInv'
  BY NoneAssumption DEF IInv, TypeOK, PlaceInv, CheckEvent, table, counters, GoTo, Leave
<1>3. Quiet
  <2>1. UNCHANGED <<status, retries, stopReason, revived, phase>> /\ (event => event')
    BY DEF CheckEvent, table, counters, GoTo, Leave
  <2>2. \A u \in Workers, r \in Rows : Holds(u, r)' <=> Holds(u, r)
    BY NoneAssumption DEF IInv, TypeOK, Holds, CheckEvent, table, counters, GoTo, Leave
  <2>3. ASSUME NEW u \in Workers
        PROVE  /\ worker'[u].at \in Early => worker[u].at \in Early
               /\ worker'[u].at \in Late => worker[u].at \in Late
               /\ worker'[u].at = "gone" => worker[u].at = "gone" \/ event
    BY DEF IInv, TypeOK, Early, Late, CheckEvent, table, counters, GoTo, Leave
  <2>4. ASSUME NEW u \in Workers, worker'[u].at = "marking", worker'[u].row \in Rows
        PROVE  worker'[u].read = retries[worker'[u].row] + 1
    BY <2>4 DEF IInv, TypeOK, OneHolder, Holds, CheckEvent, table, counters, GoTo, Leave
  <2> QED BY <2>1, <2>2, <2>3, <2>4 DEF Quiet
<1> QED BY <1>1, <1>2, <1>3, QuietKeeps

LEMMA TriggerKeeps == ASSUME IInv, NEW w \in Workers, Trigger(w) PROVE IInv'
<1>1. TypeOK'
  BY NoneAssumption DEF IInv, TypeOK, PlaceInv, Trigger, table, counters, GoTo
<1>2. PlaceInv'
  BY NoneAssumption DEF IInv, TypeOK, PlaceInv, Trigger, table, counters, GoTo
<1>3. Quiet
  <2>1. UNCHANGED <<status, retries, stopReason, revived, phase>> /\ (event => event')
    BY DEF Trigger, table, counters, GoTo
  <2>2. \A u \in Workers, r \in Rows : Holds(u, r)' <=> Holds(u, r)
    BY NoneAssumption DEF IInv, TypeOK, Holds, Trigger, table, counters, GoTo
  <2>3. ASSUME NEW u \in Workers
        PROVE  /\ worker'[u].at \in Early => worker[u].at \in Early
               /\ worker'[u].at \in Late => worker[u].at \in Late
               /\ worker'[u].at = "gone" => worker[u].at = "gone" \/ event
    BY DEF IInv, TypeOK, Early, Late, Trigger, table, counters, GoTo
  <2>4. ASSUME NEW u \in Workers, worker'[u].at = "marking", worker'[u].row \in Rows
        PROVE  worker'[u].read = retries[worker'[u].row] + 1
    BY <2>4 DEF IInv, TypeOK, OneHolder, Holds, Trigger, table, counters, GoTo
  <2> QED BY <2>1, <2>2, <2>3, <2>4 DEF Quiet
<1> QED BY <1>1, <1>2, <1>3, QuietKeeps

LEMMA CheckPollKeeps == ASSUME IInv, NEW w \in Workers, CheckPoll(w) PROVE IInv'
<1>1. TypeOK'
  BY NoneAssumption DEF IInv, TypeOK, PlaceInv, CheckPoll, table, counters, GoTo
<1>2. PlaceInv'
  BY NoneAssumption DEF IInv, TypeOK, PlaceInv, CheckPoll, table, counters, GoTo
<1>3. Quiet
  <2>1. UNCHANGED <<status, retries, stopReason, revived, phase>> /\ (event => event')
    BY DEF CheckPoll, table, counters, GoTo
  <2>2. \A u \in Workers, r \in Rows : Holds(u, r)' <=> Holds(u, r)
    BY NoneAssumption DEF IInv, TypeOK, Holds, CheckPoll, table, counters, GoTo
  <2>3. ASSUME NEW u \in Workers
        PROVE  /\ worker'[u].at \in Early => worker[u].at \in Early
               /\ worker'[u].at \in Late => worker[u].at \in Late
               /\ worker'[u].at = "gone" => worker[u].at = "gone" \/ event
    BY DEF IInv, TypeOK, Early, Late, CheckPoll, table, counters, GoTo
  <2>4. ASSUME NEW u \in Workers, worker'[u].at = "marking", worker'[u].row \in Rows
        PROVE  worker'[u].read = retries[worker'[u].row] + 1
    BY <2>4 DEF IInv, TypeOK, OneHolder, Holds, CheckPoll, table, counters, GoTo
  <2> QED BY <2>1, <2>2, <2>3, <2>4 DEF Quiet
<1> QED BY <1>1, <1>2, <1>3, QuietKeeps

LEMMA AnswerKeeps == ASSUME IInv, NEW w \in Workers, Answer(w) PROVE IInv'
<1>1. TypeOK'
  BY NoneAssumption DEF IInv, TypeOK, PlaceInv, Answer, table, counters, GoTo
<1>2. PlaceInv'
  BY NoneAssumption DEF IInv, TypeOK, PlaceInv, Answer, table, counters, GoTo
<1>3. Quiet
  <2>1. UNCHANGED <<status, retries, stopReason, revived, phase>> /\ (event => event')
    BY DEF Answer, table, counters, GoTo
  <2>2. \A u \in Workers, r \in Rows : Holds(u, r)' <=> Holds(u, r)
    BY NoneAssumption DEF IInv, TypeOK, Holds, Answer, table, counters, GoTo
  <2>3. ASSUME NEW u \in Workers
        PROVE  /\ worker'[u].at \in Early => worker[u].at \in Early
               /\ worker'[u].at \in Late => worker[u].at \in Late
               /\ worker'[u].at = "gone" => worker[u].at = "gone" \/ event
    BY DEF IInv, TypeOK, Early, Late, Answer, table, counters, GoTo
  <2>4. ASSUME NEW u \in Workers, worker'[u].at = "marking", worker'[u].row \in Rows
        PROVE  worker'[u].read = retries[worker'[u].row] + 1
    BY <2>4 DEF IInv, TypeOK, OneHolder, Holds, Answer, table, counters, GoTo
  <2> QED BY <2>1, <2>2, <2>3, <2>4 DEF Quiet
<1> QED BY <1>1, <1>2, <1>3, QuietKeeps

LEMMA ScoreKeeps == ASSUME IInv, NEW w \in Workers, Score(w) PROVE IInv'
<1>1. TypeOK'
  BY NoneAssumption DEF IInv, TypeOK, PlaceInv, Score, table, counters, GoTo
<1>2. PlaceInv'
  BY NoneAssumption DEF IInv, TypeOK, PlaceInv, Score, table, counters, GoTo
<1>3. Quiet
  <2>1. UNCHANGED <<status, retries, stopReason, revived, phase>> /\ (event => event')
    BY DEF Score, table, counters, GoTo
  <2>2. \A u \in Workers, r \in Rows : Holds(u, r)' <=> Holds(u, r)
    BY NoneAssumption DEF IInv, TypeOK, Holds, Score, table, counters, GoTo
  <2>3. ASSUME NEW u \in Workers
        PROVE  /\ worker'[u].at \in Early => worker[u].at \in Early
               /\ worker'[u].at \in Late => worker[u].at \in Late
               /\ worker'[u].at = "gone" => worker[u].at = "gone" \/ event
    BY DEF IInv, TypeOK, Early, Late, Score, table, counters, GoTo
  <2>4. ASSUME NEW u \in Workers, worker'[u].at = "marking", worker'[u].row \in Rows
        PROVE  worker'[u].read = retries[worker'[u].row] + 1
    BY <2>4 DEF IInv, TypeOK, OneHolder, Holds, Score, table, counters, GoTo
  <2> QED BY <2>1, <2>2, <2>3, <2>4 DEF Quiet
<1> QED BY <1>1, <1>2, <1>3, QuietKeeps

LEMMA RecordSuccessKeeps == ASSUME IInv, NEW w \in Workers, RecordSuccess(w) PROVE IInv'
<1>1. TypeOK'
  BY NoneAssumption DEF IInv, TypeOK, PlaceInv, RecordSuccess, table, counters, Return
<1>2. PlaceInv'
  BY NoneAssumption DEF IInv, TypeOK, PlaceInv, RecordSuccess, table, counters, Return
<1>3. Quiet
  <2>1. UNCHANGED <<status, retries, stopReason, revived, phase>> /\ (event => event')
    BY DEF RecordSuccess, table, counters, Return
  <2>2. \A u \in Workers, r \in Rows : Holds(u, r)' <=> Holds(u, r)
    BY NoneAssumption DEF IInv, TypeOK, Holds, RecordSuccess, table, counters, Return
  <2>3. ASSUME NEW u \in Workers
        PROVE  /\ worker'[u].at \in Early => worker[u].at \in Early
               /\ worker'[u].at \in Late => worker[u].at \in Late
               /\ worker'[u].at = "gone" => worker[u].at = "gone" \/ event
    BY DEF IInv, TypeOK, Early, Late, RecordSuccess, table, counters, Return
  <2>4. ASSUME NEW u \in Workers, worker'[u].at = "marking", worker'[u].row \in Rows
        PROVE  worker'[u].read = retries[worker'[u].row] + 1
    BY <2>4 DEF IInv, TypeOK, OneHolder, Holds, RecordSuccess, table, counters, Return
  <2> QED BY <2>1, <2>2, <2>3, <2>4 DEF Quiet
<1> QED BY <1>1, <1>2, <1>3, QuietKeeps

LEMMA ReadRetriesKeeps == ASSUME IInv, NEW w \in Workers, ReadRetries(w) PROVE IInv'
<1>1. TypeOK'
  BY NoneAssumption DEF IInv, TypeOK, PlaceInv, ReadRetries, table, counters
<1>2. PlaceInv'
  BY NoneAssumption DEF IInv, TypeOK, PlaceInv, ReadRetries, table, counters
<1>3. Quiet
  <2>1. UNCHANGED <<status, retries, stopReason, revived, phase>> /\ (event => event')
    BY DEF ReadRetries, table, counters
  <2>2. \A u \in Workers, r \in Rows : Holds(u, r)' <=> Holds(u, r)
    BY NoneAssumption DEF IInv, TypeOK, Holds, ReadRetries, table, counters
  <2>3. ASSUME NEW u \in Workers
        PROVE  /\ worker'[u].at \in Early => worker[u].at \in Early
               /\ worker'[u].at \in Late => worker[u].at \in Late
               /\ worker'[u].at = "gone" => worker[u].at = "gone" \/ event
    BY DEF IInv, TypeOK, Early, Late, ReadRetries, table, counters
  <2>4. ASSUME NEW u \in Workers, worker'[u].at = "marking", worker'[u].row \in Rows
        PROVE  worker'[u].read = retries[worker'[u].row] + 1
    BY <2>4 DEF IInv, TypeOK, OneHolder, Holds, ReadRetries, table, counters
  <2> QED BY <2>1, <2>2, <2>3, <2>4 DEF Quiet
<1> QED BY <1>1, <1>2, <1>3, QuietKeeps

LEMMA RecordFailureKeeps == ASSUME IInv, NEW w \in Workers, RecordFailure(w) PROVE IInv'
<1>1. TypeOK'
  BY NoneAssumption DEF IInv, TypeOK, PlaceInv, RecordFailure, table, counters, GoTo, Return
<1>2. PlaceInv'
  BY NoneAssumption DEF IInv, TypeOK, PlaceInv, RecordFailure, table, counters, GoTo, Return
<1>3. Quiet
  <2>1. UNCHANGED <<status, retries, stopReason, revived, phase>> /\ (event => event')
    BY DEF RecordFailure, table, counters, GoTo, Return
  <2>2. \A u \in Workers, r \in Rows : Holds(u, r)' <=> Holds(u, r)
    BY NoneAssumption DEF IInv, TypeOK, Holds, RecordFailure, table, counters, GoTo, Return
  <2>3. ASSUME NEW u \in Workers
        PROVE  /\ worker'[u].at \in Early => worker[u].at \in Early
               /\ worker'[u].at \in Late => worker[u].at \in Late
               /\ worker'[u].at = "gone" => worker[u].at = "gone" \/ event
    BY DEF IInv, TypeOK, Early, Late, RecordFailure, table, counters, GoTo, Return
  <2>4. ASSUME NEW u \in Workers, worker'[u].at = "marking", worker'[u].row \in Rows
        PROVE  worker'[u].read = retries[worker'[u].row] + 1
    BY <2>4 DEF IInv, TypeOK, OneHolder, Holds, RecordFailure, table, counters, GoTo, Return
  <2> QED BY <2>1, <2>2, <2>3, <2>4 DEF Quiet
<1> QED BY <1>1, <1>2, <1>3, QuietKeeps

LEMMA HaltWorkersKeeps == ASSUME IInv, NEW w \in Workers, HaltWorkers(w) PROVE IInv'
<1>1. TypeOK'
  BY NoneAssumption DEF IInv, TypeOK, PlaceInv, HaltWorkers, table, counters, GoTo
<1>2. PlaceInv'
  BY NoneAssumption DEF IInv, TypeOK, PlaceInv, HaltWorkers, table, counters, GoTo
<1>3. Quiet
  <2>1. UNCHANGED <<status, retries, stopReason, revived, phase>> /\ (event => event')
    BY DEF HaltWorkers, table, counters, GoTo
  <2>2. \A u \in Workers, r \in Rows : Holds(u, r)' <=> Holds(u, r)
    BY NoneAssumption DEF IInv, TypeOK, Holds, HaltWorkers, table, counters, GoTo
  <2>3. ASSUME NEW u \in Workers
        PROVE  /\ worker'[u].at \in Early => worker[u].at \in Early
               /\ worker'[u].at \in Late => worker[u].at \in Late
               /\ worker'[u].at = "gone" => worker[u].at = "gone" \/ event
    BY DEF IInv, TypeOK, Early, Late, HaltWorkers, table, counters, GoTo
  <2>4. ASSUME NEW u \in Workers, worker'[u].at = "marking", worker'[u].row \in Rows
        PROVE  worker'[u].read = retries[worker'[u].row] + 1
    BY <2>4 DEF IInv, TypeOK, OneHolder, Holds, HaltWorkers, table, counters, GoTo
  <2> QED BY <2>1, <2>2, <2>3, <2>4 DEF Quiet
<1> QED BY <1>1, <1>2, <1>3, QuietKeeps

-----------------------------------------------------------------------------
(* A worker takes a row.                                                    *)
LEMMA ClaimKeeps == ASSUME IInv, NEW w \in Workers, Claim(w) PROVE IInv'
<1>1. CASE Claimable = {} /\ Leave(w) /\ UNCHANGED status
  <2>1. UNCHANGED <<status, retries, stopReason, revived, phase, event, streak, failing, request>>
    BY <1>1 DEF Claim, counters
  <2>2. TypeOK' /\ PlaceInv'
    BY <1>1, <2>1, NoneAssumption DEF IInv, TypeOK, PlaceInv, Claim, Leave
  <2>3. /\ \A u \in Workers, r \in Rows : Holds(u, r)' <=> Holds(u, r)
        /\ \A u \in Workers : u # w => worker'[u] = worker[u]
        /\ worker'[w].at = "gone"
    BY <1>1, NoneAssumption DEF IInv, TypeOK, Holds, Claim, Leave
  <2>4. OneHolder' /\ HeldInv' /\ ScoreInv'
    BY <2>1, <2>3 DEF IInv, OneHolder, HeldInv, ScoreInv, Holds
  <2>5. \A r \in Rows : status[r] # "pending"
    BY <1>1 DEF IInv, HeldInv, Claimable
  <2>6. NoOrphanRow'
    BY <2>1, <2>3, <2>5 DEF IInv, NoOrphanRow
  <2>7. StopIsFinal' /\ FailureIsEarned'
    BY <2>1 DEF IInv, StopIsFinal, FailureIsEarned
  <2> QED BY <2>2, <2>4, <2>6, <2>7 DEF IInv
<1>2. ASSUME NEW r \in Claimable, SetStatus(r, "running"),
             worker' = [worker EXCEPT ![w] = [at |-> "claimed", row |-> r, read |-> 0]]
      PROVE  IInv'
  <2>1. /\ r \in Rows /\ status[r] = "pending"
        /\ UNCHANGED <<retries, stopReason, revived, phase, event, streak, failing, request>>
        /\ worker[w].at = "claiming"
    BY <1>2 DEF Claim, Claimable, counters
  <2>2. TypeOK'
    BY <1>2, <2>1 DEF IInv, TypeOK, SetStatus
  <2>3. PlaceInv'
    BY <1>2, <2>1 DEF IInv, TypeOK, PlaceInv
  <2>4. /\ status' \in [Rows -> Active \cup Final] /\ status'[r] = "running"
        /\ \A s \in Rows : s # r => status'[s] = status[s]
        /\ \A u \in Workers : u # w => worker'[u] = worker[u]
        /\ worker'[w] = [at |-> "claimed", row |-> r, read |-> 0]
    BY <1>2, <2>1, <2>2 DEF IInv, TypeOK, SetStatus
  <2>5. /\ Holds(w, r)' /\ \A s \in Rows : Holds(w, s)' => s = r
        /\ \A u \in Workers, s \in Rows : u # w => (Holds(u, s)' <=> Holds(u, s))
        /\ \A u \in Workers : ~Holds(u, r)
        /\ \A s \in Rows : ~Holds(w, s)
    BY <2>1, <2>4 DEF IInv, HeldInv, Holds
  <2>6. OneHolder'
    BY <2>1, <2>4, <2>5 DEF IInv, OneHolder
  <2>7. HeldInv'
    BY <2>1, <2>4, <2>5 DEF IInv, HeldInv, PlaceInv
  <2>8. ScoreInv'
    <3>1. ASSUME NEW u \in Workers, NEW s \in Rows, Holds(u, s)', s \notin revived'
          PROVE  /\ worker'[u].at \in {"scoring", "scored"} => status'[s] # "running"
                 /\ worker'[u].at \in {"claimed", "executing", "polling", "traced"} => status'[s] # "evaluating"
      BY <2>1, <2>4, <2>5, <3>1 DEF IInv, ScoreInv
    <3> QED BY <3>1 DEF ScoreInv
  <2>9. NoOrphanRow'
    BY <2>1, <2>4, <2>5 DEF IInv, NoOrphanRow
  <2>10. StopIsFinal' /\ FailureIsEarned'
    BY <2>1, <2>4 DEF IInv, StopIsFinal, FailureIsEarned
  <2> QED BY <2>2, <2>3, <2>6, <2>7, <2>8, <2>9, <2>10 DEF IInv
<1> QED BY <1>1, <1>2 DEF Claim

(* A failure gives the row back, or ends it.                                *)
LEMMA MarkFailedKeeps == ASSUME IInv, NEW w \in Workers, MarkFailed(w) PROVE IInv'
<1> DEFINE r == worker[w].row
<1>1. /\ r \in Rows /\ Holds(w, r) /\ worker[w].at = "marking" /\ worker[w].read = retries[r] + 1
      /\ UNCHANGED <<stopReason, revived, phase, event, streak, failing, request>>
  BY DEF IInv, PlaceInv, OneHolder, Holds, MarkFailed, counters
<1>2. worker' = [worker EXCEPT ![w].at = "counting"]
  BY DEF MarkFailed, GoTo
<1>3. /\ retries \in [Rows -> Nat] /\ status \in [Rows -> Active \cup Final]
      /\ MaxRetries \in Nat
  BY LimitAssumption DEF IInv, TypeOK
<1>4. /\ status' \in [Rows -> Active \cup Final] /\ retries' \in [Rows -> Nat]
      /\ \A s \in Rows : s # r => status'[s] = status[s] /\ retries'[s] = retries[s]
      /\ \/ status[r] \in Final /\ status'[r] = status[r] /\ retries'[r] = retries[r]
         \/ /\ status[r] \in {"running", "evaluating"} /\ retries'[r] = retries[r] + 1
            /\ \/ status'[r] = "failed" /\ retries'[r] >= MaxRetries
               \/ status'[r] = "pending" /\ retries'[r] < MaxRetries
  <2>1. CASE status[r] \in {"running", "evaluating"}
    <3>1. /\ status' = [status EXCEPT ![r] = AfterFailure(worker[w].read)]
          /\ retries' = [retries EXCEPT ![r] = worker[w].read]
      BY <2>1 DEF MarkFailed, SetStatus
    <3>2. /\ AfterFailure(worker[w].read) \in {"failed", "pending"}
          /\ AfterFailure(worker[w].read) = "failed" => worker[w].read >= MaxRetries
          /\ AfterFailure(worker[w].read) = "pending" => worker[w].read < MaxRetries
      BY <1>1, <1>3 DEF AfterFailure
    <3>3. retries[r] + 1 \in Nat
      BY <1>1, <1>3
    <3> HIDE DEF r
    <3> QED BY <1>1, <1>3, <2>1, <3>1, <3>2, <3>3
  <2>2. CASE status[r] \notin {"running", "evaluating"}
    <3>1. status[r] \in Final
      BY <1>1, <1>3, <2>2 DEF IInv, HeldInv
    <3>2. UNCHANGED <<status, retries>>
      BY <2>2 DEF MarkFailed
    <3> QED BY <1>3, <3>1, <3>2
  <2> QED BY <2>1, <2>2
<1>5. /\ \A u \in Workers : u # w => worker'[u] = worker[u]
      /\ worker'[w] = [worker[w] EXCEPT !.at = "counting"]
      /\ worker'[w].at = "counting" /\ worker'[w].row = r
      /\ worker' \in [Workers -> [at : Steps, row : Rows \cup {None}, read : Nat]]
  BY <1>2 DEF IInv, TypeOK
<1>6. /\ \A s \in Rows : ~Holds(w, s)'
      /\ \A u \in Workers, s \in Rows : u # w => (Holds(u, s)' <=> Holds(u, s))
      /\ \A u \in Workers : u # w => ~Holds(u, r)
  BY <1>1, <1>5 DEF IInv, OneHolder, Holds
<1> HIDE DEF r
<1>7. TypeOK'
  BY <1>1, <1>4, <1>5 DEF IInv, TypeOK
<1>8. PlaceInv'
  BY <1>1, <1>5 DEF IInv, PlaceInv
<1>9. OneHolder'
  BY <1>4, <1>5, <1>6 DEF IInv, OneHolder
<1>10. HeldInv'
  BY <1>1, <1>4, <1>6 DEF IInv, HeldInv
<1>11. ScoreInv'
  BY <1>1, <1>4, <1>5, <1>6 DEF IInv, ScoreInv
<1>12. NoOrphanRow'
  <2>1. ASSUME NEW s \in Rows \ revived, phase = "running", status'[s] \in {"running", "evaluating"}
        PROVE  \E u \in Workers : Holds(u, s)'
    BY <1>4, <1>6, <2>1 DEF IInv, NoOrphanRow, Holds, r
  <2>2. worker'[w].at # "gone"
    BY <1>5
  <2> QED BY <1>1, <2>1, <2>2 DEF NoOrphanRow
<1>13. StopIsFinal'
  BY <1>1, <1>4 DEF IInv, StopIsFinal
<1>14. FailureIsEarned'
  BY <1>1, <1>3, <1>4 DEF IInv, FailureIsEarned
<1> QED BY <1>7, <1>8, <1>9, <1>10, <1>11, <1>12, <1>13, <1>14 DEF IInv

-----------------------------------------------------------------------------
(* The other writes, the batch thread, a stop request and a crash.          *)
LEMMA StartKeeps == ASSUME IInv, Start PROVE IInv'
<1>1. TypeOK' /\ PlaceInv'
  BY WorkersAssumption, NoneAssumption DEF IInv, TypeOK, PlaceInv, table, counters, Start
<1>2. OneHolder' /\ HeldInv'
  BY WorkersAssumption, NoneAssumption DEF IInv, TypeOK, PlaceInv, OneHolder, HeldInv, Holds, table, counters, Start
<1>3. ScoreInv'
  BY WorkersAssumption, NoneAssumption DEF IInv, TypeOK, PlaceInv, HeldInv, ScoreInv, OneHolder, Holds, table, counters, Start
<1>4. NoOrphanRow'
  BY WorkersAssumption, NoneAssumption DEF IInv, TypeOK, PlaceInv, OneHolder, HeldInv, ScoreInv, NoOrphanRow, Holds, table, counters, Start
<1>5. StopIsFinal' /\ FailureIsEarned'
  BY WorkersAssumption, NoneAssumption DEF IInv, TypeOK, PlaceInv, HeldInv, StopIsFinal, FailureIsEarned, table, counters, Start
<1> QED BY <1>1, <1>2, <1>3, <1>4, <1>5 DEF IInv

LEMMA FinishKeeps == ASSUME IInv, Finish PROVE IInv'
<1>1. TypeOK' /\ PlaceInv'
  BY DEF IInv, TypeOK, PlaceInv, table, counters, Finish
<1>2. OneHolder' /\ HeldInv'
  BY DEF IInv, TypeOK, PlaceInv, OneHolder, HeldInv, Holds, table, counters, Finish
<1>3. ScoreInv'
  BY DEF IInv, TypeOK, PlaceInv, HeldInv, ScoreInv, OneHolder, Holds, table, counters, Finish
<1>4. NoOrphanRow'
  BY DEF IInv, TypeOK, PlaceInv, OneHolder, HeldInv, ScoreInv, NoOrphanRow, Holds, table, counters, Finish
<1>5. StopIsFinal' /\ FailureIsEarned'
  BY DEF IInv, TypeOK, PlaceInv, HeldInv, StopIsFinal, FailureIsEarned, table, counters, Finish
<1> QED BY <1>1, <1>2, <1>3, <1>4, <1>5 DEF IInv

LEMMA CrashKeeps == ASSUME IInv, Crash PROVE IInv'
<1>1. TypeOK' /\ PlaceInv'
  BY NoneAssumption DEF IInv, TypeOK, PlaceInv, table, counters, Crash
<1>2. OneHolder' /\ HeldInv'
  BY NoneAssumption DEF IInv, TypeOK, PlaceInv, OneHolder, HeldInv, Holds, table, counters, Crash
<1>3. ScoreInv'
  BY NoneAssumption DEF IInv, TypeOK, PlaceInv, HeldInv, ScoreInv, OneHolder, Holds, table, counters, Crash
<1>4. NoOrphanRow'
  BY NoneAssumption DEF IInv, TypeOK, PlaceInv, OneHolder, HeldInv, ScoreInv, NoOrphanRow, Holds, table, counters, Crash
<1>5. StopIsFinal' /\ FailureIsEarned'
  BY NoneAssumption DEF IInv, TypeOK, PlaceInv, HeldInv, StopIsFinal, FailureIsEarned, table, counters, Crash
<1> QED BY <1>1, <1>2, <1>3, <1>4, <1>5 DEF IInv

LEMMA LookUpKeeps == ASSUME IInv, NEW q \in Requests, LookUp(q) PROVE IInv'
<1>1. TypeOK' /\ PlaceInv'
  BY DEF IInv, TypeOK, PlaceInv, table, counters, LookUp
<1>2. OneHolder' /\ HeldInv'
  BY DEF IInv, TypeOK, PlaceInv, OneHolder, HeldInv, Holds, table, counters, LookUp
<1>3. ScoreInv'
  BY DEF IInv, TypeOK, PlaceInv, HeldInv, ScoreInv, OneHolder, Holds, table, counters, LookUp
<1>4. NoOrphanRow'
  BY DEF IInv, TypeOK, PlaceInv, OneHolder, HeldInv, ScoreInv, NoOrphanRow, Holds, table, counters, LookUp
<1>5. StopIsFinal' /\ FailureIsEarned'
  BY DEF IInv, TypeOK, PlaceInv, HeldInv, StopIsFinal, FailureIsEarned, table, counters, LookUp
<1> QED BY <1>1, <1>2, <1>3, <1>4, <1>5 DEF IInv

LEMMA NotifyKeeps == ASSUME IInv, NEW q \in Requests, Notify(q) PROVE IInv'
<1>1. TypeOK' /\ PlaceInv'
  BY DEF IInv, TypeOK, PlaceInv, table, counters, Notify
<1>2. OneHolder' /\ HeldInv'
  BY DEF IInv, TypeOK, PlaceInv, OneHolder, HeldInv, Holds, table, counters, Notify
<1>3. ScoreInv'
  BY DEF IInv, TypeOK, PlaceInv, HeldInv, ScoreInv, OneHolder, Holds, table, counters, Notify
<1>4. NoOrphanRow'
  BY DEF IInv, TypeOK, PlaceInv, OneHolder, HeldInv, ScoreInv, NoOrphanRow, Holds, table, counters, Notify
<1>5. StopIsFinal' /\ FailureIsEarned'
  BY DEF IInv, TypeOK, PlaceInv, HeldInv, StopIsFinal, FailureIsEarned, table, counters, Notify
<1> QED BY <1>1, <1>2, <1>3, <1>4, <1>5 DEF IInv

LEMMA StopRowsKeeps == ASSUME IInv, NEW q \in Requests, StopRows(q) PROVE IInv'
<1>1. TypeOK' /\ PlaceInv'
  BY DEF IInv, TypeOK, PlaceInv, table, counters, StopRows, StopBatch
<1>2. OneHolder' /\ HeldInv'
  BY DEF IInv, TypeOK, PlaceInv, OneHolder, HeldInv, Holds, table, counters, StopRows, StopBatch
<1>3. ScoreInv'
  BY DEF IInv, TypeOK, PlaceInv, HeldInv, ScoreInv, OneHolder, Holds, table, counters, StopRows, StopBatch
<1>4. NoOrphanRow'
  BY DEF IInv, TypeOK, PlaceInv, OneHolder, HeldInv, ScoreInv, NoOrphanRow, Holds, table, counters, StopRows, StopBatch
<1>5. StopIsFinal' /\ FailureIsEarned'
  BY DEF IInv, TypeOK, PlaceInv, HeldInv, StopIsFinal, FailureIsEarned, table, counters, StopRows, StopBatch
<1> QED BY <1>1, <1>2, <1>3, <1>4, <1>5 DEF IInv

LEMMA MarkRunningKeeps == ASSUME IInv, NEW w \in Workers, MarkRunning(w) PROVE IInv'
<1>1. TypeOK' /\ PlaceInv'
  BY NoneAssumption DEF IInv, TypeOK, PlaceInv, table, counters, MarkRunning, GoTo, SetStatus
<1>2. OneHolder' /\ HeldInv'
  BY NoneAssumption DEF IInv, TypeOK, PlaceInv, OneHolder, HeldInv, Holds, table, counters, MarkRunning, GoTo, SetStatus
<1>3. ScoreInv'
  BY NoneAssumption DEF IInv, TypeOK, PlaceInv, HeldInv, ScoreInv, OneHolder, Holds, table, counters, MarkRunning, GoTo, SetStatus
<1>4. NoOrphanRow'
  BY NoneAssumption DEF IInv, TypeOK, PlaceInv, OneHolder, HeldInv, ScoreInv, NoOrphanRow, Holds, table, counters, MarkRunning, GoTo, SetStatus
<1>5. StopIsFinal' /\ FailureIsEarned'
  BY NoneAssumption DEF IInv, TypeOK, PlaceInv, HeldInv, StopIsFinal, FailureIsEarned, table, counters, MarkRunning, GoTo, SetStatus
<1> QED BY <1>1, <1>2, <1>3, <1>4, <1>5 DEF IInv

LEMMA SetTraceKeeps == ASSUME IInv, NEW w \in Workers, SetTrace(w) PROVE IInv'
<1>1. TypeOK' /\ PlaceInv'
  BY NoneAssumption DEF IInv, TypeOK, PlaceInv, table, counters, SetTrace, GoTo, Guarded
<1>2. OneHolder' /\ HeldInv'
  BY NoneAssumption DEF IInv, TypeOK, PlaceInv, OneHolder, HeldInv, Holds, table, counters, SetTrace, GoTo, Guarded
<1>3. ScoreInv'
  BY NoneAssumption DEF IInv, TypeOK, PlaceInv, HeldInv, ScoreInv, OneHolder, Holds, table, counters, SetTrace, GoTo, Guarded
<1>4. NoOrphanRow'
  BY NoneAssumption DEF IInv, TypeOK, PlaceInv, OneHolder, HeldInv, ScoreInv, NoOrphanRow, Holds, table, counters, SetTrace, GoTo, Guarded
<1>5. StopIsFinal' /\ FailureIsEarned'
  BY NoneAssumption DEF IInv, TypeOK, PlaceInv, HeldInv, StopIsFinal, FailureIsEarned, table, counters, SetTrace, GoTo, Guarded
<1> QED BY <1>1, <1>2, <1>3, <1>4, <1>5 DEF IInv

LEMMA SetResultKeeps == ASSUME IInv, NEW w \in Workers, SetResult(w) PROVE IInv'
<1>1. TypeOK' /\ PlaceInv'
  BY NoneAssumption DEF IInv, TypeOK, PlaceInv, table, counters, SetResult, GoTo, Guarded
<1>2. OneHolder' /\ HeldInv'
  BY NoneAssumption DEF IInv, TypeOK, PlaceInv, OneHolder, HeldInv, Holds, table, counters, SetResult, GoTo, Guarded
<1>3. ScoreInv'
  BY NoneAssumption DEF IInv, TypeOK, PlaceInv, HeldInv, ScoreInv, OneHolder, Holds, table, counters, SetResult, GoTo, Guarded
<1>4. NoOrphanRow'
  BY NoneAssumption DEF IInv, TypeOK, PlaceInv, OneHolder, HeldInv, ScoreInv, NoOrphanRow, Holds, table, counters, SetResult, GoTo, Guarded
<1>5. StopIsFinal' /\ FailureIsEarned'
  BY NoneAssumption DEF IInv, TypeOK, PlaceInv, HeldInv, StopIsFinal, FailureIsEarned, table, counters, SetResult, GoTo, Guarded
<1> QED BY <1>1, <1>2, <1>3, <1>4, <1>5 DEF IInv

LEMMA MarkCancelledKeeps == ASSUME IInv, NEW w \in Workers, MarkCancelled(w) PROVE IInv'
<1>1. TypeOK' /\ PlaceInv'
  BY NoneAssumption DEF IInv, TypeOK, PlaceInv, table, counters, MarkCancelled, Leave, Guarded
<1>2. OneHolder' /\ HeldInv'
  BY NoneAssumption DEF IInv, TypeOK, PlaceInv, OneHolder, HeldInv, Holds, table, counters, MarkCancelled, Leave, Guarded
<1>3. ScoreInv'
  BY NoneAssumption DEF IInv, TypeOK, PlaceInv, HeldInv, ScoreInv, OneHolder, Holds, table, counters, MarkCancelled, Leave, Guarded
<1>4. NoOrphanRow'
  BY NoneAssumption DEF IInv, TypeOK, PlaceInv, OneHolder, HeldInv, ScoreInv, NoOrphanRow, Holds, table, counters, MarkCancelled, Leave, Guarded
<1>5. StopIsFinal' /\ FailureIsEarned'
  BY NoneAssumption DEF IInv, TypeOK, PlaceInv, HeldInv, StopIsFinal, FailureIsEarned, table, counters, MarkCancelled, Leave, Guarded
<1> QED BY <1>1, <1>2, <1>3, <1>4, <1>5 DEF IInv

LEMMA HaltBatchKeeps == ASSUME IInv, NEW w \in Workers, HaltBatch(w) PROVE IInv'
<1>1. TypeOK' /\ PlaceInv'
  BY NoneAssumption DEF IInv, TypeOK, PlaceInv, table, counters, HaltBatch, Leave, StopBatch
<1>2. OneHolder' /\ HeldInv'
  BY NoneAssumption DEF IInv, TypeOK, PlaceInv, OneHolder, HeldInv, Holds, table, counters, HaltBatch, Leave, StopBatch
<1>3. ScoreInv'
  BY NoneAssumption DEF IInv, TypeOK, PlaceInv, HeldInv, ScoreInv, OneHolder, Holds, table, counters, HaltBatch, Leave, StopBatch
<1>4. NoOrphanRow'
  BY NoneAssumption DEF IInv, TypeOK, PlaceInv, OneHolder, HeldInv, ScoreInv, NoOrphanRow, Holds, table, counters, HaltBatch, Leave, StopBatch
<1>5. StopIsFinal' /\ FailureIsEarned'
  BY NoneAssumption DEF IInv, TypeOK, PlaceInv, HeldInv, StopIsFinal, FailureIsEarned, table, counters, HaltBatch, Leave, StopBatch
<1> QED BY <1>1, <1>2, <1>3, <1>4, <1>5 DEF IInv

-----------------------------------------------------------------------------
LEMMA StepKeeps == IInv /\ [Next]_vars => IInv'
<1> SUFFICES ASSUME IInv, [Next]_vars PROVE IInv'
  OBVIOUS
<1>1. CASE Start \/ Finish \/ Crash
  BY <1>1, StartKeeps, FinishKeeps, CrashKeeps
<1>2. ASSUME NEW w \in Workers, Execute(w) \/ Answer(w) PROVE IInv'
  BY <1>2, CheckEventKeeps, ClaimKeeps, MarkRunningKeeps, TriggerKeeps, CheckPollKeeps, AnswerKeeps,
    SetTraceKeeps, ScoreKeeps, SetResultKeeps, RecordSuccessKeeps, MarkCancelledKeeps, ReadRetriesKeeps,
    MarkFailedKeeps, RecordFailureKeeps, HaltWorkersKeeps, HaltBatchKeeps DEF Execute
<1>3. ASSUME NEW q \in Requests, LookUp(q) \/ Notify(q) \/ StopRows(q) PROVE IInv'
  BY <1>3, LookUpKeeps, NotifyKeeps, StopRowsKeeps
<1>4. CASE UNCHANGED vars
  BY <1>4 DEF vars, table, counters, IInv, TypeOK, PlaceInv, OneHolder, HeldInv, ScoreInv, NoOrphanRow,
    StopIsFinal, FailureIsEarned, Holds
<1> QED BY <1>1, <1>2, <1>3, <1>4 DEF Next

LEMMA Invariant == Spec => []IInv
BY InitOK, StepKeeps, PTL DEF Spec

(* The variables keep their types.                                          *)
THEOREM BatchTypes == Spec => []TypeOK
BY Invariant, PTL DEF IInv

(* A row is claimed by one worker at a time, and what mark_failed read of   *)
(* it still holds when it writes.                                           *)
THEOREM OneWorkerPerRow == Spec => []OneHolder
BY Invariant, PTL DEF IInv

(* After stop_batch every row is over, whatever the workers write late, but *)
(* for the rows that mark_running revived.                                  *)
THEOREM StopsAreFinal == Spec => []StopIsFinal
BY Invariant, PTL DEF IInv

(* While the batch's process lives no row is forgotten.                     *)
THEOREM RowsHaveWorkers == Spec => []NoOrphanRow
BY Invariant, PTL DEF IInv

(* A row has failed after all its attempts or in a stopped batch, and is    *)
(* cancelled for a stop only.                                               *)
THEOREM FailuresEarned == Spec => []FailureIsEarned
BY Invariant, PTL DEF IInv

(* A row that is over is written by mark_running only.                      *)
THEOREM FinalRowsStay == Spec => FinalStays
<1> DEFINE Kept == \A r \in Rows : status[r] \in Final /\ r \notin revived' => status'[r] = status[r]
<1>1. ASSUME IInv, [Next]_vars PROVE Kept
  <2>0. status \in [Rows -> Active \cup Final] /\ revived \subseteq Rows
    BY <1>1 DEF IInv, TypeOK
  <2>1. ASSUME NEW w \in Workers, Claim(w) \/ MarkRunning(w) PROVE Kept
    BY <2>0, <2>1 DEF Claim, Claimable, MarkRunning, SetStatus
  <2>2. ASSUME NEW w \in Workers, SetTrace(w) \/ SetResult(w) \/ MarkCancelled(w) PROVE Kept
    BY <2>0, <2>2 DEF SetTrace, SetResult, MarkCancelled, Guarded
  <2>3. ASSUME NEW w \in Workers, MarkFailed(w) PROVE Kept
    BY <2>0, <2>3 DEF MarkFailed, SetStatus
  <2>4. ASSUME NEW w \in Workers, CheckEvent(w) \/ Trigger(w) \/ CheckPoll(w) \/ Answer(w) \/ Score(w)
                 \/ RecordSuccess(w) \/ ReadRetries(w) \/ RecordFailure(w) \/ HaltWorkers(w)
        PROVE  Kept
    BY <2>4 DEF CheckEvent, Trigger, CheckPoll, Answer, Score, RecordSuccess, ReadRetries, RecordFailure,
      HaltWorkers, table
  <2>5. ASSUME StopBatch("auto") \/ StopBatch("user") PROVE Kept
    BY <2>0, <2>5 DEF StopBatch
  <2>6. ASSUME Start \/ Finish \/ Crash \/ (\E q \in Requests : LookUp(q) \/ Notify(q)) \/ UNCHANGED vars PROVE Kept
    BY <2>6 DEF Start, Finish, Crash, LookUp, Notify, vars, table
  <2>7. ASSUME (\E w \in Workers : HaltBatch(w)) \/ (\E q \in Requests : StopRows(q)) PROVE Kept
    BY <2>5, <2>7 DEF HaltBatch, StopRows
  <2> HIDE DEF Kept
  <2> QED BY <1>1, <2>1, <2>2, <2>3, <2>4, <2>6, <2>7 DEF Next, Execute
<1>2. IInv /\ [Next]_vars => [Kept]_vars
  BY <1>1
<1> QED BY <1>2, Invariant, PTL DEF Spec, FinalStays

-----------------------------------------------------------------------------
(* The streak.  A failure is written to the table (MarkFailed) before it is *)
(* counted in memory (RecordFailure), and until somebody stops the batch    *)
(* the row of a worker is in progress, so that the write takes effect.  So  *)
(* the streak, with the failures about to be counted, never exceeds what    *)
(* the table shows.                                                         *)

Counting == {w \in Workers : worker[w].at = "counting"}

Shown(c) == \E r \in Rows : CaseOf[r] = c /\ retries[r] > 0

Enough ==
  /\ Cardinality(Failures) >= StreakLimit
  /\ \E r, s \in Rows : CaseOf[r] # CaseOf[s] /\ retries[r] > 0 /\ retries[s] > 0

InProgress ==
  \A w \in Workers, r \in Rows : Holds(w, r) => status[r] \in {"running", "evaluating"}

Unstopped ==
  /\ InProgress
  /\ streak + Cardinality(Counting) <= Cardinality(Failures)
  /\ \A c \in failing : Shown(c)
  /\ \A w \in Counting : Shown(CaseOf[worker[w].row])
  /\ \A w \in Workers : worker[w].at \in {"halting", "halted"} => Enough

StreakInv ==
  /\ IsFiniteSet(Failures)
  /\ stopReason = "none" => Unstopped
  /\ stopReason = "auto" => Enough

LEMMA CountingFinite == IsFiniteSet(Counting) /\ Cardinality(Counting) \in Nat
BY FiniteAssumption, FS_Subset, FS_CardinalityType DEF Counting

LEMMA OneFailureMore ==
  ASSUME TypeOK, IsFiniteSet(Failures), NEW r \in Rows, retries' = [retries EXCEPT ![r] = @ + 1]
  PROVE  IsFiniteSet(Failures') /\ Cardinality(Failures') = Cardinality(Failures) + 1
<1> DEFINE new == <<r, retries[r] + 1>>
<1>1. \A x : x \in Failures <=> \E p \in Rows : \E n \in 1..retries[p] : x = <<p, n>>
  BY DEF Failures
<1>2. \A x : x \in Failures' <=> \E p \in Rows : \E n \in 1..retries'[p] : x = <<p, n>>
  BY DEF Failures
<1>3. new \notin Failures
  BY <1>1 DEF TypeOK
<1>4. \A x : x \in Failures' <=> x \in Failures \/ x = new
  BY <1>1, <1>2 DEF TypeOK
<1>5. Failures' = Failures \cup {new}
  BY <1>4
<1> HIDE DEF new
<1> QED BY <1>3, <1>5, FS_AddElement

(* A step that shows or counts no failure.                                  *)
CountsStay ==
  /\ UNCHANGED <<retries, stopReason, streak, failing>>
  /\ \A w \in Workers :
       /\ worker'[w].at = "counting" => worker[w].at = "counting" /\ worker'[w].row = worker[w].row
       /\ worker'[w].at \in {"halting", "halted"} => worker[w].at \in {"halting", "halted"}

LEMMA SameCounts ==
  ASSUME IInv, StreakInv, CountsStay, stopReason = "none" /\ InProgress => InProgress'
  PROVE  StreakInv'
<1>1. Failures' = Failures /\ (\A c : Shown(c)' <=> Shown(c)) /\ (Enough' <=> Enough)
  BY DEF CountsStay, Failures, Shown, Enough
<1>2. Counting' \subseteq Counting
  BY DEF CountsStay, Counting
<1>3. Cardinality(Counting') <= Cardinality(Counting) /\ Cardinality(Counting') \in Nat
  BY <1>2, CountingFinite, FS_Subset, FS_CardinalityType
<1>4. streak \in Nat /\ Cardinality(Failures) \in Nat
  BY FS_CardinalityType DEF IInv, TypeOK, StreakInv
<1>5. ASSUME stopReason = "none" PROVE Unstopped'
  <2>1. Unstopped
    BY <1>5 DEF StreakInv
  <2>2. InProgress'
    BY <1>5, <2>1 DEF Unstopped
  <2>3. streak' + Cardinality(Counting') <= Cardinality(Failures')
    BY <1>1, <1>3, <1>4, <2>1, CountingFinite DEF Unstopped, CountsStay
  <2>4. \A c \in failing' : Shown(c)'
    BY <1>1, <2>1 DEF Unstopped, CountsStay
  <2>5. \A w \in Counting' : Shown(CaseOf[worker[w].row])'
    BY <1>1, <2>1 DEF Unstopped, CountsStay, Counting, Shown
  <2>6. \A w \in Workers : worker'[w].at \in {"halting", "halted"} => Enough'
    BY <1>1, <2>1 DEF Unstopped, CountsStay
  <2> QED BY <2>2, <2>3, <2>4, <2>5, <2>6 DEF Unstopped
<1> QED BY <1>1, <1>5 DEF StreakInv, CountsStay

(* Which steps keep the counts.                                              *)
LEMMA MovesKeepCounts ==
  ASSUME IInv, NEW w \in Workers,
         \/ CheckEvent(w) \/ Trigger(w) \/ CheckPoll(w) \/ Answer(w) \/ Score(w)
         \/ ReadRetries(w) \/ HaltWorkers(w)
  PROVE  CountsStay /\ (InProgress => InProgress')
<1>1. CountsStay
  BY DEF IInv, TypeOK, CountsStay, CheckEvent, Trigger, CheckPoll, Answer, Score, ReadRetries,
    HaltWorkers, GoTo, Leave, table, counters
<1>2. \A u \in Workers, r \in Rows : Holds(u, r)' => Holds(u, r)
  BY NoneAssumption DEF IInv, TypeOK, Holds, CheckEvent, Trigger, CheckPoll, Answer, Score,
    ReadRetries, HaltWorkers, GoTo, Leave
<1>3. status' = status
  BY DEF CheckEvent, Trigger, CheckPoll, Answer, Score, ReadRetries, HaltWorkers, table
<1> QED BY <1>1, <1>2, <1>3 DEF InProgress

LEMMA WritesKeepCounts ==
  ASSUME IInv, NEW w \in Workers,
         Claim(w) \/ MarkRunning(w) \/ SetTrace(w) \/ SetResult(w) \/ MarkCancelled(w)
  PROVE  CountsStay /\ (InProgress => InProgress')
<1>1. CountsStay
  BY DEF IInv, TypeOK, CountsStay, Claim, MarkRunning, SetTrace, SetResult, MarkCancelled, GoTo,
    Leave, counters
<1>2. CASE Claim(w)
  BY <1>1, <1>2, NoneAssumption DEF IInv, TypeOK, HeldInv, InProgress, Holds, Claim, Claimable, SetStatus, Leave
<1>3. CASE MarkRunning(w)
  BY <1>1, <1>3, NoneAssumption DEF IInv, TypeOK, InProgress, Holds, MarkRunning, SetStatus, GoTo
<1>4. CASE SetTrace(w)
  BY <1>1, <1>4, NoneAssumption DEF IInv, TypeOK, InProgress, Holds, SetTrace, Guarded, GoTo
<1>5. CASE SetResult(w)
  BY <1>1, <1>5, NoneAssumption DEF IInv, TypeOK, OneHolder, InProgress, Holds, SetResult, Guarded, GoTo
<1>6. CASE MarkCancelled(w)
  BY <1>1, <1>6, NoneAssumption DEF IInv, TypeOK, OneHolder, InProgress, Holds, MarkCancelled, Guarded, Leave
<1> QED BY <1>2, <1>3, <1>4, <1>5, <1>6, <1>1

LEMMA OthersKeepCounts ==
  ASSUME IInv, Start \/ Finish \/ Crash \/ (\E q \in Requests : LookUp(q) \/ Notify(q)) \/ UNCHANGED vars
  PROVE  CountsStay /\ (InProgress => InProgress')
<1>1. CountsStay
  BY DEF IInv, TypeOK, CountsStay, Start, Finish, Crash, LookUp, Notify, vars, table, counters
<1>2. \A u \in Workers, r \in Rows : Holds(u, r)' => Holds(u, r)
  BY NoneAssumption DEF IInv, TypeOK, Holds, Start, Finish, Crash, LookUp, Notify, vars
<1>3. status' = status
  BY DEF Start, Finish, Crash, LookUp, Notify, vars, table
<1> QED BY <1>1, <1>2, <1>3 DEF InProgress

LEMMA MarkFailedCounts == ASSUME IInv, StreakInv, NEW w \in Workers, MarkFailed(w) PROVE StreakInv'
<1> DEFINE r == worker[w].row
<1>1. r \in Rows /\ Holds(w, r) /\ worker[w].read = retries[r] + 1 /\ worker[w].at = "marking"
  BY DEF IInv, PlaceInv, OneHolder, Holds, MarkFailed
<1>2. CASE stopReason = "none"
  <2>1. status[r] \in {"running", "evaluating"}
    BY <1>1, <1>2 DEF StreakInv, Unstopped, InProgress
  <2>2. retries' = [retries EXCEPT ![r] = @ + 1] /\ stopReason' = "none" /\ UNCHANGED counters
    BY <1>1, <1>2, <2>1 DEF MarkFailed
  <2>3. IsFiniteSet(Failures') /\ Cardinality(Failures') = Cardinality(Failures) + 1
    BY <1>1, <2>2, OneFailureMore DEF IInv, StreakInv
  <2>4. Counting' = Counting \cup {w}
    BY DEF MarkFailed, GoTo, Counting, IInv, TypeOK
  <2>5. Cardinality(Counting') = Cardinality(Counting) + 1
    BY <1>1, <2>4, CountingFinite, FS_AddElement DEF Counting
  <2>6. \A p \in Rows : retries[p] > 0 => retries'[p] > 0
    BY <2>2 DEF IInv, TypeOK
  <2>7. retries'[r] > 0
    BY <1>1, <2>2 DEF IInv, TypeOK
  <2>8. InProgress'
    BY <1>1, <1>2, NoneAssumption DEF StreakInv, Unstopped, InProgress, IInv, TypeOK, OneHolder, Holds,
      MarkFailed, SetStatus, GoTo
  <2>9. streak' + Cardinality(Counting') <= Cardinality(Failures')
    BY <1>2, <2>2, <2>3, <2>5, CountingFinite, FS_CardinalityType
       DEF StreakInv, Unstopped, counters, IInv, TypeOK
  <2>10. \A c \in failing' : Shown(c)'
    BY <1>2, <2>2, <2>6 DEF StreakInv, Unstopped, Shown, counters
  <2>11. \A u \in Counting' : Shown(CaseOf[worker[u].row])'
    <3>1. \A u \in Workers : worker'[u].row = worker[u].row
      BY DEF MarkFailed, GoTo, IInv, TypeOK
    <3>2. Shown(CaseOf[worker[w].row])'
      BY <1>1, <2>7, <3>1 DEF Shown
    <3>3. \A u \in Counting : Shown(CaseOf[worker[u].row])'
      BY <1>2, <2>6, <3>1 DEF StreakInv, Unstopped, Shown, Counting
    <3> QED BY <2>4, <3>1, <3>2, <3>3 DEF Shown
  <2>12. ASSUME NEW u \in Workers, worker'[u].at \in {"halting", "halted"} PROVE Enough'
    <3>1. worker[u].at \in {"halting", "halted"}
      BY <2>12 DEF MarkFailed, GoTo, IInv, TypeOK
    <3>2. Enough
      BY <1>2, <3>1 DEF StreakInv, Unstopped
    <3> QED BY <2>3, <2>6, <3>2, LimitAssumption, FS_CardinalityType DEF Enough, StreakInv
  <2> QED BY <2>2, <2>3, <2>8, <2>9, <2>10, <2>11, <2>12 DEF StreakInv, Unstopped
<1>3. CASE stopReason # "none"
  <2>1. IsFiniteSet(Failures') /\ (Enough => Enough')
    <3>1. CASE retries' = retries
      BY <3>1 DEF StreakInv, Failures, Enough
    <3>2. CASE retries' = [retries EXCEPT ![r] = @ + 1]
      <4>1. IsFiniteSet(Failures') /\ Cardinality(Failures') = Cardinality(Failures) + 1
        BY <1>1, <3>2, OneFailureMore DEF IInv, StreakInv
      <4>2. \A p \in Rows : retries[p] > 0 => retries'[p] > 0
        BY <3>2 DEF IInv, TypeOK
      <4> QED BY <4>1, <4>2, LimitAssumption, FS_CardinalityType DEF Enough, StreakInv
    <3> QED BY <1>1, <3>1, <3>2 DEF MarkFailed
  <2> QED BY <1>3, <2>1 DEF StreakInv, MarkFailed
<1> QED BY <1>2, <1>3

LEMMA RecordCounts ==
  ASSUME IInv, StreakInv, NEW w \in Workers, RecordSuccess(w) \/ RecordFailure(w)
  PROVE  StreakInv'
<1>1. UNCHANGED <<status, retries, stopReason>>
  BY DEF RecordSuccess, RecordFailure, table
<1>2. Failures' = Failures /\ (\A c : Shown(c)' <=> Shown(c)) /\ (Enough' <=> Enough)
  BY <1>1 DEF Failures, Shown, Enough
<1>3. streak \in Nat /\ Cardinality(Failures) \in Nat
  BY FS_CardinalityType DEF IInv, TypeOK, StreakInv
<1>4. InProgress => InProgress'
  BY <1>1, NoneAssumption DEF InProgress, Holds, RecordSuccess, RecordFailure, Return, GoTo, IInv, TypeOK
<1>5. ASSUME RecordSuccess(w), Unstopped PROVE Unstopped'
  <2>1. Counting' = Counting
    BY <1>5 DEF Counting, RecordSuccess, Return, IInv, TypeOK
  <2>2. streak' = 0 /\ failing' = {}
    BY <1>5 DEF RecordSuccess
  <2>3. streak' + Cardinality(Counting') <= Cardinality(Failures')
    BY <1>2, <1>3, <1>5, <2>1, <2>2, CountingFinite DEF Unstopped
  <2>4. \A u \in Counting' : worker'[u].row = worker[u].row
    BY <1>5, <2>1 DEF Counting, RecordSuccess, Return, IInv, TypeOK
  <2>5. \A u \in Workers : worker'[u].at \in {"halting", "halted"} => worker[u].at \in {"halting", "halted"}
    BY <1>5 DEF RecordSuccess, Return, IInv, TypeOK
  <2>6. \A u \in Counting' : Shown(CaseOf[worker[u].row])'
    BY <1>1, <1>5, <2>1, <2>4 DEF Unstopped, Shown
  <2> QED BY <1>2, <1>4, <1>5, <2>2, <2>3, <2>5, <2>6 DEF Unstopped
<1>6. ASSUME RecordFailure(w), Unstopped PROVE Unstopped'
  <2> DEFINE c == CaseOf[worker[w].row]
  <2>1. w \in Counting /\ worker[w].row \in Rows /\ Shown(c)
    BY <1>6 DEF Counting, RecordFailure, Unstopped, IInv, PlaceInv
  <2>2. Counting' = Counting \ {w}
    BY <1>6 DEF Counting, RecordFailure, Return, GoTo, IInv, TypeOK
  <2>3. Cardinality(Counting') = Cardinality(Counting) - 1 /\ streak' = streak + 1
        /\ failing' = failing \cup {c}
    BY <1>6, <2>1, <2>2, CountingFinite, FS_RemoveElement DEF RecordFailure
  <2>4. streak' + Cardinality(Counting') <= Cardinality(Failures')
    BY <1>2, <1>3, <1>6, <2>3, CountingFinite DEF Unstopped
  <2>5. \A d \in failing' : Shown(d)'
    BY <1>2, <1>6, <2>1, <2>3 DEF Unstopped
  <2>6. \A u \in Counting' : worker'[u].row = worker[u].row
    BY <1>6, <2>2 DEF Counting, RecordFailure, Return, GoTo, IInv, TypeOK
  <2>7. \A u \in Counting' : Shown(CaseOf[worker[u].row])'
    BY <1>1, <1>6, <2>2, <2>6 DEF Unstopped, Shown
  <2>8. Halts(c) => Enough
    <3> SUFFICES ASSUME Halts(c) PROVE Enough
      OBVIOUS
    <3>1. Cardinality(Failures) >= StreakLimit
      <4>1. Cardinality(Counting) >= 1
        BY <2>1, CountingFinite, FS_EmptySet
      <4> QED BY <1>3, <1>6, <4>1, CountingFinite, LimitAssumption DEF Halts, Unstopped
    <3>2. PICK d \in failing \cup {c}, e \in failing \cup {c} : d # e
      <4>1. ~ (failing \cup {c} \subseteq {c})
        <5>1. Cardinality(failing \cup {c}) >= 2
          BY DEF Halts
        <5>2. Cardinality({c}) = 1
          BY FS_Singleton
        <5>3. failing \cup {c} # {c}
          BY <5>1, <5>2
        <5> QED BY <5>3
      <4> QED BY <4>1
    <3>3. Shown(d) /\ Shown(e)
      BY <1>6, <2>1 DEF Unstopped
    <3> QED BY <3>1, <3>2, <3>3 DEF Enough, Shown
  <2>9. \A u \in Workers : worker'[u].at \in {"halting", "halted"} =>
           worker[u].at \in {"halting", "halted"} \/ Halts(c)
    BY <1>6 DEF RecordFailure, Return, GoTo, IInv, TypeOK
  <2>10. \A u \in Workers : worker'[u].at \in {"halting", "halted"} => Enough'
    BY <1>2, <1>6, <2>8, <2>9 DEF Unstopped
  <2> HIDE DEF c
  <2> QED BY <1>4, <1>6, <2>4, <2>5, <2>7, <2>10 DEF Unstopped
<1> QED BY <1>1, <1>2, <1>5, <1>6 DEF StreakInv

LEMMA StopCounts ==
  ASSUME IInv, StreakInv,
         (\E w \in Workers : HaltBatch(w)) \/ (\E q \in Requests : StopRows(q))
  PROVE  StreakInv'
<1>1. retries' = retries
  BY DEF HaltBatch, StopRows, StopBatch
<1>2. Failures' = Failures /\ (Enough' <=> Enough)
  BY <1>1 DEF Failures, Enough
<1>3. CASE \E w \in Workers : HaltBatch(w)
  BY <1>2, <1>3 DEF HaltBatch, StopBatch, StreakInv, Unstopped, IInv, TypeOK
<1>4. CASE \E q \in Requests : StopRows(q)
  BY <1>2, <1>4 DEF StopRows, StopBatch, StreakInv
<1> QED BY <1>3, <1>4

(* A batch that stopped by itself had a streak to show: the failures in the *)
(* table are at least StreakLimit, of two cases.                            *)
THEOREM AutoStopsEarned == Spec => []AutoStopEarned
<1>1. Init => StreakInv
  <2> SUFFICES ASSUME Init PROVE StreakInv
    OBVIOUS
  <2>1. Failures = {} /\ Counting = {} /\ stopReason = "none" /\ streak = 0 /\ failing = {}
    BY DEF Init, Failures, Counting
  <2>2. InProgress /\ \A w \in Workers : worker[w].at \notin {"halting", "halted"}
    BY DEF Init, InProgress, Holds
  <2> QED BY <2>1, <2>2, FS_EmptySet DEF StreakInv, Unstopped
<1>2. IInv /\ StreakInv /\ [Next]_vars => StreakInv'
  <2> SUFFICES ASSUME IInv, StreakInv, [Next]_vars PROVE StreakInv'
    OBVIOUS
  <2>1. ASSUME NEW w \in Workers, Execute(w) \/ Answer(w) PROVE StreakInv'
    <3>1. CASE \/ CheckEvent(w) \/ Trigger(w) \/ CheckPoll(w) \/ Answer(w) \/ Score(w)
               \/ ReadRetries(w) \/ HaltWorkers(w)
      BY <3>1, MovesKeepCounts, SameCounts
    <3>2. CASE Claim(w) \/ MarkRunning(w) \/ SetTrace(w) \/ SetResult(w) \/ MarkCancelled(w)
      BY <3>2, WritesKeepCounts, SameCounts
    <3>3. CASE MarkFailed(w) \/ RecordSuccess(w) \/ RecordFailure(w) \/ HaltBatch(w)
      BY <3>3, MarkFailedCounts, RecordCounts, StopCounts
    <3> QED BY <2>1, <3>1, <3>2, <3>3 DEF Execute
  <2>2. CASE Start \/ Finish \/ Crash \/ (\E q \in Requests : LookUp(q) \/ Notify(q)) \/ UNCHANGED vars
    BY <2>2, OthersKeepCounts, SameCounts
  <2>3. CASE \E q \in Requests : StopRows(q)
    BY <2>3, StopCounts
  <2> QED BY <2>1, <2>2, <2>3 DEF Next
<1>3. StreakInv => AutoStopEarned
  BY DEF StreakInv, Enough, AutoStopEarned
<1> QED BY <1>1, <1>2, <1>3, Invariant, PTL DEF Spec

=============================================================================
