------------------------------ MODULE Benchmark ------------------------------
(***************************************************************************)
(* A batch of the benchmark (evolution/app/benchmark/repo.py, runner.py):  *)
(* its rows, the workers that claim and run them, the streak of failures   *)
(* that stops the batch, and the stop requests.                            *)
(*                                                                         *)
(* A worker thread takes a row through a generation in the executor and a  *)
(* scoring; the answers of both are choices.  Every statement on the       *)
(* database is a step of its own, for each takes the lock for itself.      *)
(* Workers and the registry of cancel events are lost with the process;    *)
(* nothing takes the batch up again.                                       *)
(***************************************************************************)
EXTENDS Integers, FiniteSets

CONSTANTS
  Rows,
  CaseOf,       \* the case of each row; its seeds are rows of their own
  Workers,
  Requests,     \* to stop the batch
  None,
  MaxRetries,
  StreakLimit   \* _FAIL_STREAK_LIMIT

ASSUME CaseAssumption == DOMAIN CaseOf = Rows
ASSUME LimitAssumption == MaxRetries \in Nat \ {0} /\ StreakLimit \in Nat \ {0}
ASSUME NoneAssumption == None \notin Rows
ASSUME WorkersAssumption == Workers # {}
ASSUME FiniteAssumption == IsFiniteSet(Rows) /\ IsFiniteSet(Workers)

VARIABLES
  status, retries,  \* of each row
  stopReason,       \* in benchmark_batch_meta
  revived,          \* the rows that mark_running found over: a history
  phase,            \* of the batch thread: "created", "running", "ended", "lost"
  event,            \* is the cancel event set
  streak, failing,  \* _FailStreak: the failures in a row, and their cases
  worker,           \* of each thread: where it is, its row, the retries it read
  request           \* of each stop request

table == <<status, retries, stopReason>>
counters == <<streak, failing>>
vars == <<table, revived, phase, event, counters, worker, request>>

Active == {"pending", "running", "evaluating"}
Final == {"done", "failed", "cancelled"}

Steps == {"absent", "idle", "claiming", "claimed", "executing", "polling", "traced",
          "scoring", "scored", "succeeded", "cancelling", "failed", "marking", "counting",
          "halting", "halted", "gone"}

(* The steps of a worker that may write its row.                            *)
Holding == {"claimed", "executing", "polling", "traced", "scoring", "scored",
            "cancelling", "failed", "marking"}

Without(pc) == [at |-> pc, row |-> None, read |-> 0]

Holds(w, r) == worker[w].row = r /\ worker[w].at \in Holding

-----------------------------------------------------------------------------
(* What a request or a worker does to the table.                            *)

SetStatus(r, s) == status' = [status EXCEPT ![r] = s]

(* An UPDATE of row r to s that finds it in one of the statuses of S.       *)
Guarded(r, s, S) ==
  status' = IF status[r] \in S THEN [status EXCEPT ![r] = s] ELSE status

(* stop_batch: a row that had failed before stays so in the report.         *)
StopBatch(reason) ==
  /\ status' = [r \in Rows |->
       IF status[r] \notin Active THEN status[r]
       ELSE IF retries[r] = 0 THEN "cancelled" ELSE "failed"]
  /\ stopReason' = IF stopReason = "none" THEN reason ELSE stopReason
  /\ UNCHANGED retries

Init ==
  /\ status = [r \in Rows |-> "pending"] /\ retries = [r \in Rows |-> 0]
  /\ stopReason = "none" /\ revived = {}
  /\ phase = "created" /\ event = FALSE
  /\ streak = 0 /\ failing = {}
  /\ worker = [w \in Workers |-> Without("absent")]
  /\ request = [q \in Requests |-> "none"]

-----------------------------------------------------------------------------
(* _run_batch_sync.                                                         *)

(* The event is registered, then the workers start.                         *)
Start ==
  /\ phase = "created"
  /\ phase' = "running"
  /\ worker' = [w \in Workers |-> Without("idle")]
  /\ UNCHANGED <<table, revived, event, counters, request>>

(* All workers are joined; the event is taken out of the registry.          *)
Finish ==
  /\ phase = "running" /\ \A w \in Workers : worker[w].at = "gone"
  /\ phase' = "ended"
  /\ UNCHANGED <<table, revived, event, counters, worker, request>>

-----------------------------------------------------------------------------
(* _worker_loop and _execute_one.                                           *)

GoTo(w, pc) == worker' = [worker EXCEPT ![w].at = pc]
Leave(w) == worker' = [worker EXCEPT ![w] = Without("gone")]
Return(w) == worker' = [worker EXCEPT ![w] = Without("idle")]

CheckEvent(w) ==
  /\ worker[w].at = "idle"
  /\ IF event THEN Leave(w) ELSE GoTo(w, "claiming")
  /\ UNCHANGED <<table, revived, phase, event, counters, request>>

(* Mutant: the row is selected, and updated by a second statement.          *)
ClaimableTwice == {r \in Rows : retries[r] < MaxRetries
  /\ \/ status[r] = "pending"
     \/ status[r] = "running" /\ \E w \in Workers : worker[w].at = "claimed" /\ worker[w].row = r}

(* Mutant: a row that failed is not claimed again.                          *)
ClaimableOnce == {r \in Rows : status[r] = "pending" /\ retries[r] = 0}

(* claim_next_pending takes the first of these by time and id.              *)
Claimable == {r \in Rows : status[r] = "pending" /\ retries[r] < MaxRetries}

Claim(w) ==
  /\ worker[w].at = "claiming"
  /\ \/ \E r \in Claimable :
          /\ SetStatus(r, "running")
          /\ worker' = [worker EXCEPT ![w] = [at |-> "claimed", row |-> r, read |-> 0]]
     \/ Claimable = {} /\ Leave(w) /\ UNCHANGED status
  /\ UNCHANGED <<retries, stopReason, revived, phase, event, counters, request>>

(* mark_running asks nothing of the status it overwrites.                   *)
MarkRunning(w) ==
  LET r == worker[w].row IN
  /\ worker[w].at = "claimed"
  /\ SetStatus(r, "running")
  /\ revived' = IF status[r] \in Final THEN revived \cup {r} ELSE revived
  /\ GoTo(w, "executing")
  /\ UNCHANGED <<retries, stopReason, phase, event, counters, request>>

(* The generation starts in the executor, or the call fails.                *)
Trigger(w) ==
  /\ worker[w].at = "executing"
  /\ GoTo(w, "polling") \/ GoTo(w, "failed")
  /\ UNCHANGED <<table, revived, phase, event, counters, request>>

(* Mutant: the polling does not look at the event.                          *)
CheckPollNever(w) ==
  /\ FALSE
  /\ UNCHANGED vars

(* _check_cancel, before the polling and in every round of it.              *)
CheckPoll(w) ==
  /\ worker[w].at = "polling" /\ event
  /\ GoTo(w, "cancelling")
  /\ UNCHANGED <<table, revived, phase, event, counters, request>>

(* The executor ends the generation; there is no limit of time.             *)
Answer(w) ==
  /\ worker[w].at = "polling"
  /\ GoTo(w, "traced") \/ GoTo(w, "failed")
  /\ UNCHANGED <<table, revived, phase, event, counters, request>>

(* Mutant: a trace that comes late is written whatever the status.          *)
SetTraceAnyway(w) ==
  /\ worker[w].at = "traced"
  /\ SetStatus(worker[w].row, "evaluating")
  /\ GoTo(w, "scoring")
  /\ UNCHANGED <<retries, stopReason, revived, phase, event, counters, request>>

SetTrace(w) ==
  /\ worker[w].at = "traced"
  /\ Guarded(worker[w].row, "evaluating", {"pending", "running"})
  /\ GoTo(w, "scoring")
  /\ UNCHANGED <<retries, stopReason, revived, phase, event, counters, request>>

Score(w) ==
  /\ worker[w].at = "scoring"
  /\ \/ event /\ GoTo(w, "cancelling")
     \/ GoTo(w, "scored")
     \/ GoTo(w, "failed")
  /\ UNCHANGED <<table, revived, phase, event, counters, request>>

SetResult(w) ==
  /\ worker[w].at = "scored"
  /\ Guarded(worker[w].row, "done", {"evaluating"})
  /\ GoTo(w, "succeeded")
  /\ UNCHANGED <<retries, stopReason, revived, phase, event, counters, request>>

RecordSuccess(w) ==
  /\ worker[w].at = "succeeded"
  /\ streak' = 0 /\ failing' = {}
  /\ Return(w)
  /\ UNCHANGED <<table, revived, phase, event, request>>

(* Stopping the generation may fail, with no effect here.                   *)
MarkCancelled(w) ==
  /\ worker[w].at = "cancelling"
  /\ Guarded(worker[w].row, "cancelled", Active)
  /\ Leave(w)
  /\ UNCHANGED <<retries, stopReason, revived, phase, event, counters, request>>

(* mark_failed, its query: the new number of retries.                       *)
ReadRetries(w) ==
  /\ worker[w].at = "failed"
  /\ worker' = [worker EXCEPT ![w] =
       [at |-> "marking", row |-> worker[w].row, read |-> retries[worker[w].row] + 1]]
  /\ UNCHANGED <<table, revived, phase, event, counters, request>>

(* mark_failed, its update: the row can be tried again, until the limit.    *)
AfterFailure(n) == IF n >= MaxRetries THEN "failed" ELSE "pending"

MarkFailed(w) ==
  LET r == worker[w].row IN
  /\ worker[w].at = "marking"
  /\ IF status[r] \in {"running", "evaluating"}
       THEN SetStatus(r, AfterFailure(worker[w].read))
            /\ retries' = [retries EXCEPT ![r] = worker[w].read]
       ELSE UNCHANGED <<status, retries>>
  /\ GoTo(w, "counting")
  /\ UNCHANGED <<stopReason, revived, phase, event, counters, request>>

(* Mutant: seeds of one case are told apart.                                *)
HaltsOneCase(c) == streak + 1 >= StreakLimit

(* Does this failure stop the batch: StreakLimit in a row, of two cases.    *)
Halts(c) == streak + 1 >= StreakLimit /\ Cardinality(failing \cup {c}) >= 2

RecordFailure(w) ==
  LET c == CaseOf[worker[w].row] IN
  /\ worker[w].at = "counting"
  /\ streak' = streak + 1 /\ failing' = failing \cup {c}
  /\ IF Halts(c) THEN GoTo(w, "halting") ELSE Return(w)
  /\ UNCHANGED <<table, revived, phase, event, request>>

(* _halt_batch: the event first.                                            *)
HaltWorkers(w) ==
  /\ worker[w].at = "halting"
  /\ event' = TRUE
  /\ GoTo(w, "halted")
  /\ UNCHANGED <<table, revived, phase, counters, request>>

HaltBatch(w) ==
  /\ worker[w].at = "halted"
  /\ StopBatch("auto")
  /\ Leave(w)
  /\ UNCHANGED <<revived, phase, event, counters, request>>

-----------------------------------------------------------------------------
(* request_stop looks the event up, sets it if it was in the registry, and  *)
(* then stops the rows.                                                     *)
LookUp(q) ==
  /\ request[q] = "none"
  /\ request' = [request EXCEPT ![q] = IF phase = "running" THEN "found" ELSE "notified"]
  /\ UNCHANGED <<table, revived, phase, event, counters, worker>>

Notify(q) ==
  /\ request[q] = "found"
  /\ event' = (event \/ phase = "running")
  /\ request' = [request EXCEPT ![q] = "notified"]
  /\ UNCHANGED <<table, revived, phase, counters, worker>>

StopRows(q) ==
  /\ request[q] = "notified"
  /\ StopBatch("user")
  /\ request' = [request EXCEPT ![q] = "over"]
  /\ UNCHANGED <<revived, phase, event, counters, worker>>

(* The process dies.  The batch is not taken up by the next one.            *)
Crash ==
  /\ phase # "lost"
  /\ phase' = "lost" /\ event' = FALSE
  /\ worker' = [w \in Workers |-> Without("gone")]
  /\ request' = [q \in Requests |-> IF request[q] \in {"found", "notified"} THEN "over"
                                  ELSE request[q]]
  /\ UNCHANGED <<table, revived, counters>>

Execute(w) ==
  \/ CheckEvent(w) \/ Claim(w) \/ MarkRunning(w) \/ Trigger(w) \/ CheckPoll(w)
  \/ SetTrace(w) \/ Score(w) \/ SetResult(w) \/ RecordSuccess(w) \/ MarkCancelled(w)
  \/ ReadRetries(w) \/ MarkFailed(w) \/ RecordFailure(w) \/ HaltWorkers(w) \/ HaltBatch(w)

Next ==
  \/ Start \/ Finish \/ Crash
  \/ \E w \in Workers : Execute(w) \/ Answer(w)
  \/ \E q \in Requests : LookUp(q) \/ Notify(q) \/ StopRows(q)

Spec == Init /\ [][Next]_vars

(* Threads go on by themselves; Answer is up to the executor.               *)
Fairness ==
  /\ WF_vars(Start)
  /\ \A w \in Workers : WF_vars(Execute(w))
  /\ \A q \in Requests : WF_vars(Notify(q) \/ StopRows(q))

FairSpec == Spec /\ Fairness

-----------------------------------------------------------------------------
(* Properties.                                                              *)

(* The values of the variables.                                             *)
TypeOK ==
  /\ status \in [Rows -> Active \cup Final] /\ retries \in [Rows -> Nat]
  /\ stopReason \in {"none", "user", "auto"} /\ revived \subseteq Rows
  /\ phase \in {"created", "running", "ended", "lost"} /\ event \in BOOLEAN
  /\ streak \in Nat /\ failing \subseteq {CaseOf[r] : r \in Rows}
  /\ worker \in [Workers -> [at : Steps, row : Rows \cup {None}, read : Nat]]
  /\ request \in [Requests -> {"none", "found", "notified", "over"}]

(* No row is in the hands of two workers (claim_next_pending is one         *)
(* statement), through failures, retries and stops: what mark_failed read   *)
(* before its update still holds.                                           *)
OneHolder ==
  \A r \in Rows :
    /\ \A v, w \in Workers : Holds(v, r) /\ Holds(w, r) => v = w
    /\ \A w \in Workers : Holds(w, r) /\ worker[w].at = "marking"
                            => worker[w].read = retries[r] + 1

(* A stopped batch has no row that is pending, running or being evaluated,  *)
(* and what the workers write late does not change that: stop_batch and the *)
(* guards of set_trace, set_result and mark_failed.  The exception are the  *)
(* rows that mark_running found over.                                       *)
StopIsFinal ==
  stopReason # "none" => \A r \in Rows : status[r] \in Final \/ r \in revived

(* Rows that are over stay so, but for mark_running (the guards of the      *)
(* updates).                                                                *)
FinalStays ==
  [][\A r \in Rows : status[r] \in Final /\ r \notin revived' => status'[r] = status[r]]_vars

(* As long as the batch's process lives, a row in progress has a worker and *)
(* a row to be tried again has one that will look for it: no worker leaves  *)
(* with None from claim_next_pending while a row of another may come back   *)
(* and find nobody.                                                         *)
NoOrphanRow ==
  phase = "running" =>
    \A r \in Rows \ revived :
      /\ status[r] \in {"running", "evaluating"} => \E w \in Workers : Holds(w, r)
      /\ status[r] = "pending" => event \/ \E w \in Workers : worker[w].at # "gone"

(* The failures that the table shows: each row's, numbered.                 *)
Failures == UNION {{r} \X (1..retries[r]) : r \in Rows}

(* The batch stops by itself only after StreakLimit failures that the rows  *)
(* show, of two cases: the streak in memory, fed by all workers, agrees     *)
(* with the table (_FailStreak, _halt_batch).                               *)
AutoStopEarned ==
  stopReason = "auto" =>
    /\ Cardinality(Failures) >= StreakLimit
    /\ \E r, s \in Rows : CaseOf[r] # CaseOf[s] /\ retries[r] > 0 /\ retries[s] > 0

(* A row that has failed without a stop was tried MaxRetries times; a row   *)
(* is cancelled only in a batch that somebody stops.                        *)
FailureIsEarned ==
  \A r \in Rows :
    /\ status[r] = "failed" => retries[r] >= MaxRetries \/ stopReason # "none"
    /\ status[r] = "cancelled" => event \/ stopReason # "none" \/ phase = "lost"

(* Once the event is set all workers leave, however long the executor takes *)
(* (the checks of the event in the loop, in every round of the polling and  *)
(* around the scoring), or the process dies.                                *)
StopIsHeard == event ~> (phase = "lost" \/ \A w \in Workers : worker[w].at = "gone")

(* A batch comes to its end by itself, provided the executor answers: all   *)
(* rows are over (the retries are bounded, no pending row is forgotten).    *)
BatchEnds ==
  (\A w \in Workers : []<>(worker[w].at # "polling"))
    => (phase = "running" ~>
          phase = "lost" \/ \A r \in Rows : status[r] \in Final \/ r \in revived)

=============================================================================
