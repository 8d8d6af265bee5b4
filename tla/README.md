# EvoWriter in TLA+

EvoWriter is a writing service: an *executor* that runs billed generations for
users, a *platform* that keeps the production version of the writing agent, an
*evolution* service that improves that agent by experiments and benchmarks, and
a desktop client. This directory holds TLA+ models of its protocols, their TLC
configurations, and TLAPS proofs. Run the tools in this directory:

    tlc -workers 2 -config MCBillingRuns.cfg MCBillingRuns
    tlapm BillingProofs.tla

It covers six protocols:

* **billing**, the credit ledger and the runtime around it: an error costs money,
  and one protocol spans an event loop, worker threads, a database and files;
* **releases**, how a version of the agent gets into production and into the
  executor: two services that can lose each other;
* **automatic tasks**, written by processes that outlive the one that started
  them;
* **conversations**, their gate, their message log and the status of their runs;
* **experiments**, from the first sample to the version in production: a worker
  thread, requests and restarts that share one stored document;
* **benchmarks**, a table of rows that threads claim, retry and give up, against
  stop requests.

## Inventory

Paths are relative to `src/`. "Hard" says what a test hardly reaches, "correct"
what should hold.

| part | state | operations | hard | correct |
|---|---|---|---|---|
| v2 ledger, `executor/app/platform/credits/ledger.py` | wallets, operations, calls, results, finalizations, entries, invite grants; receipt files | reserve, started, record_call, save_result, finish, settle, recover, adjust, create_invites, register_invited | races for one balance, late calls, crash between four writes, unreadable receipts, rounding | nobody owes; charged once, by the outcome that reached the disk; balance = entries |
| billing runtime, `credits/runtime.py` | `runs`, `preparations`, contexts, scanner | submit, _produce, before_call, record, request_stop, start_recovery, aclose | stop against completion and shutdown, scan against live runs, eviction | started once; stop wins; no settlement under a live run; every reservation returns |
| request paths, `credits/api.py`, `routers/screenplay.py`, `routers/target_tasks.py` | request in flight | prepare_operation, stream_screenplay, start_public, stops | wait in a thread, retransmission | a request sent again makes no new work |
| target tasks, `domains/writing/target_tasks.py` | task store (journal, trusted record), monitors, worker lock, stop file | submit, start, stop, recover, verify_result, worker side | stop file against terminal status, worker that outlives its process, recovery | one worker per task; a terminal status stays; workspace released once |
| conversation gate, `domains/writing/run_gate.py`, `conversation_log.py`, `agent.py` | lock per conversation, waiters, epoch, claimed workspaces | acquire, clear_for_stop, claim/release of a workspace | grant against cancellation, epoch read across awaits | one generation per conversation; a stop leaves no waiter; the lock is not lost |
| trace, `platform/trace/recorder.py`, `outcomes.py`, `contracts/cancel_state.py` | runs, buffered events, user-stop marks, outcome buffer | start, await input, resume, cancel, finish, zombie scan, drain, deliver | resume against zombie scan, stop against end, at-least-once delivery | one terminal state; reason is the true one; no outcome lost |
| loader, `platform/agent/loader.py`, `reconcile.py`, `binding_client.py` | loaded package, production checkout, spool | load, reload, reconcile, sign, replay | reload against reconcile, cap of the spool | the newest notified package ends up loaded |
| platform, `platform/app/release.py`, `core/ledger.py`, `bindings.py`, `artifacts.py` | production pointer, promotions, bindings | promote (compare and set), notify, probe, bind | lost replies, serialized notifications | a promotion applies once; pointer and history agree |
| experiments, `evolution/app/experiments/` | runs in JSON rows, run lock, workers, stop flags | create, worker steps, stop, publish, recover, restore | stale run written back, unknown outcome of a promotion, stop in the dispatch window | a publication is never forgotten; no promotion without authorization |
| benchmark, `evolution/app/benchmark/` | rows, cancel events, fail streak | claim, run, record, stop, stop by fail streak | revived rows, retries outside the update | a row has one result; a stopped batch ends |
| database layer, `platform/core/db/__init__.py` | lock, connection | _Tx | failing BEGIN or COMMIT | lock released, transaction closed |
| others | | evolve sessions, dataset, versioning, ingestion, state stores, memory, artifacts/trash, isolation, auth, admin, v1 credits, contracts, desktop, website | little concurrency, or external | listed in PROJECT.json with the reason they are left out |

How the parts touch: a router prepares an operation in the ledger, then hands a
source (a generator) to `BillingRuns.submit`; the source runs the agent, whose
middleware calls back `before_call` and `record` for every model call, some of
them in worker threads; target tasks are submitted through the same runtime and
resumed at start; the scanner and `request_stop` share `runs` with them.
Experiments promote through the platform, the platform notifies the executor,
the executor signs bindings back to the platform.

## Modules

    Money            sums and the rounding of the ledger
    Wallet           abstract: holds, closed once, never more than available
    BillingLedger    the tables; one action per transaction   (implements Wallet)
    BillingRuns      the running service over BillingLedger   (implements BillingLedger)
    VersionRegister  abstract: a history of versions, changed by compare and set
    Release          platform and executor around one release  (implements VersionRegister)
    TargetTasks      automatic tasks, their processes and the claim of a work
    Conversation     gate, message log, generators and runs of one conversation
    Publication      an experiment's document and its way into production
    Experiments      the worker of an experiment, over Publication
    Benchmark        a batch: its rows, workers, retries and stops
    BillingProofs                       theorems about the ledger
    BillingRunsProofs                   theorems about the running service
    SettlementProofs                    how its operations end, over those theorems
    ReleaseProofs                       theorems about releases
    TargetTasksProofs                   theorems about automatic tasks
    ConversationProofs                  theorems about conversations
    ExperimentsProofs                   theorems about experiments
    BenchmarkProofs                     theorems about batches
    MCBillingLedger, MCBillingRuns, MCRelease, MCTargetTasks, MCConversation,
    MCExperiments, MCBenchmark          instances for TLC

### BillingLedger

One variable per table or column (`wallet`, `status`, `budget`, `consumed`,
`charged`, `calls`, `saved`, `intent`, `entries`, `invite`), one action per
method that runs in one `db.transaction()`. The callers are left open, so
that what is proved here holds whatever the rest of the executor does.

* An operation *is* its `(user_id, request_id)` pair: rows are never deleted and
  the pair is unique.
* Costs are natural numbers of sub-cents, `Scale` to the centipoint: the code
  adds exact decimals and rounds once, half up, in `settle` (`HalfUp`). Token
  counts and prices are abstracted to the cost they give; 0 stands for a free
  retry and for unknown usage. `StatementAddsUp` does not use `HalfUp`: it says
  what a rounded charge is (`FairlyCharged`: within half a unit, a half up).
* `Total` is a cardinality, not a recursion, so that TLAPS can reason about it.
* A revoked invite code is a code nobody uses, so `revoke` has no action.

### BillingRuns

Adds what is not a table: the receipt file, the record and stop file of a target
task (`receipt`, `admitted`, `stopFile`, which survive a crash), and the process
(`mode`, `prep`, `run`, `inflight`, `fin`, `scan`, `stopping`, which do not).

* **Event loop.** Code between two awaits is not interrupted by coroutines, but
  worker threads run beside it and the process may die anywhere. So `finish`,
  `recover` and `request_stop` are sequences of steps (`fin`, `scan`,
  `stopping` are their program counters), every coroutine step asks for
  `LoopFree`, and the steps of worker threads (`BeforeCall`, `CallReturns`,
  `CallFails`, `Administration`) and `Crash` do not.
* **finish** is receipt, intent, settlement, removal; `Fault` lets one of the
  first three fail. A receipt that cannot be written is tolerated by the code,
  a failed transaction ends `finish`.
* **recover** settles receipts, then intents, then calls `finish(o, "failed")`
  for pending operations that no run owns, in that order. An error in the
  first part ends the scan, at startup the process.
* **Requests** are delivered `Copies` times in any order; a delivery without a
  row waits (`loading`) while the model configuration is read in a thread. A target
  is rejected, or recorded and then not started (the second alternative of
  `RejectTarget`); either way its reservation is failed.
* **Finished runs.** `submit` keeps `KeepFinished` of them (`Evicted`). `forgotten` is a
  history: the chats whose run was evicted while their settlement was open and a
  copy of their request was loading. `submit` has nothing to share for such a copy.
* **A run** is queued, running, done or dead (its task was cancelled before
  its first step). `cancelling` is a cancellation not yet delivered, `stopped`
  the user's mark, `cancelled` the event the gate reads.
* **Process.** `Shutdown` and `Close` are the two halves of the lifespan's end,
  `Exit` follows when all tasks ended; `Start` resumes target tasks and begins
  the first scan. Which pending target tasks had already recorded an end of their
  own is left open here; `TargetTasks` models the task store.

Assumed: removing a receipt succeeds; reading the database does not fail; every model
has a price; the final frame of a source is followed by no further await in it. Not modelled: SSE
frames, receipts set aside as `.invalid`, `recover_invites`.

### Release

* **Platform.** `versions` and `production` are the tables of the ledger that
  matter; the commit in production is the commit of that version, because
  `apply_promotion` writes both keys in one transaction. A request of `promote`
  or `restore` goes through `waiting` (network and lock), `probing` (checks and
  packaging), `notifying`, and an answer: `activated`, `unconfirmed`, `changed`
  (409), `rejected`, or `gone` when the platform restarts. The callers read
  commit and version of the pointer together, so `expect` is a version, 0 for
  none.
* **Lock.** `_RELEASE_LOCK` is held in `probing` and `notifying`. The pointer is
  checked at `Begin` and again in the transaction of `Apply`.
* **Notification.** A thread of the executor handles it (`ensure`, `clear`,
  `load`, `name`, `report`); `awaits` is the thread the platform waits for. After
  `Timeout` the thread goes on. At most `NotifyAttempts` attempts, then `GiveUp`.
* **Loader.** `package` is `_loaded_package`, `named` is `_current_commit`; no lock
  covers them, and each assignment is a step. `FirstLoad` is
  `load_current_package`, from the platform or from `known_production.json`
  (`known`), which `Bound` writes after a run was bound.
* **Reconciliation.** `Reconcile` remembers what is named, `Compare` reads the
  pointer and reloads when it differs.

Assumed: a download, a reload or an answer may fail at any time (`Fails`), a
package always loads the code of its commit (digests are not modelled). Left out:
`/internal/reload` and `/snapshot/refreshed`, which nothing in the repository
calls. A run that is bound loads the package of its own commit
(`agent.py:265`) and does not depend on `package`.

### TargetTasks

* **Two kinds.** An isolated task (an experiment's) is written by a worker process
  that its monitor spawns; an owned task is written by its monitor, in the user's
  work. `monitor` and `worker` are their program counters; a worker belongs to the
  life of the executor that spawned it and survives it.
* **Three writers of the journal**: the worker, the monitor and a stop request.
  The verdict is `trusted`, which only the executor writes (`Verify`, that is
  `verify_result`), and "completed" is checked against `delivered`.
* **Stop** writes the stop file and then waits for the process or the monitor;
  what follows each wait is a step (`StopAfterProcess`, `StopAfterMonitor`), and
  the wait may end first (`StopTimesOut`).
* **The claim** of a work (`target-task.json`) is what an owned task and the
  conversation compete for. `chat` is the part of `generate_stream` that asks for
  it, before the preparation and again under the mutation lock.
* **The process** closes (`Close`, `CancelArrives`, `Exit`), crashes, also in the
  middle of `submit` (`CrashInSubmit`), and recovers every task without a verdict.

Packages, artifacts, evidence and the trace report are abstracted to whether the
checks pass. The two kinds share the process only; `KindsApart` therefore leaves
out the states that have tasks of both.

### Conversation

* **Event loop.** A step is a stretch between two suspensions. A cancelled
  generator learns of it where it awaits (`Unwind`), or, if it is suspended at a
  yield, when it is collected (`Close`): the two leave different records.
* **Lock of the gate.** `asyncio.Lock` is `locked`, `line`, `ahead` and `woken`:
  first come, first served, and a release wakes the first, who takes the lock in
  a step of its own. `acq` is the task that acquires the lock for a waiter, and
  `"return"` the callback that gives back what was granted too late.
* **Epoch.** A stop raises it; a waiter that entered before leaves.
* **From the preparation to the stream** there are two stretches: `Route` parks the run
  for its stage (`commit_route`), `Enter` follows the tidying of the agent's thread.
  Between them a client may leave, and the preparation may still fail (`BindFails`).
* **Runs.** `index` is what `traces/index.json` says of a run, `active` what the
  recorder has in memory, `task` whom a stop would cancel. The scanner of
  forgotten runs is a thread that reads and acts in two steps. An exception ends its scan, for
  the runs behind as well: here the next scan is simply another step. That it takes out of
  memory what it had restored (`recorder.py:1154-1156`), in the very moment in
  which a resume restores the same run, is left out.

The block by an automatic task is here a possible refusal, see `TargetTasks`.
The assistant's records and the contents of a stream are left out.

### Publication and Experiments

* **One document.** `doc` is the stored experiment; the worker works on a copy
  (`mine`), written before and after each call (`Save`), merged with a stop
  that was recorded meanwhile (`Merged`, that is `repo.put_run`). A call and what
  follows it up to the next one is a step.
* **The platform** is what `Release` shows it to implement: a register of versions.
  Promotions and restores are `orders`, decided at any time after they were sent,
  also after the service gave up on them.
* **Publication**: publish, confirm, restore, and `reconcile`, which finds out from
  the version in production what an interrupted operation did. `lock` is the run
  lock across its calls; `detail` the reader that takes no lock.
* **The worker** passes through baseline, rounds of improvement, exploration,
  regression and validation. `Packages` are the samples of a phase. A stop has
  its own program counter (`stopping`), a restart resumes by the document.

Only flow version 2. A digest goes with its commit; only the samples of the
current phase are kept; judges and the improving agent are answers. A start
that the client gave up on is handled by the executor never, or before
later calls. The worker may fail where it calls the executor (`WorkerFails` at start, poll
and stop); a platform that is out of reach when a worker recovers a publication is left
out. The worker reads the document and goes on to its first write in one step (`Pass`).
What the executor has loaded is a free answer in `Confirm`.

### Benchmark

* **The table.** `status` and `retries` of each row and `stopReason` are what the
  statements of `repo.py` read and write. Each statement takes the lock of the
  database for itself and is one step: `Claim`, `MarkRunning`, `SetTrace`,
  `SetResult`, `MarkCancelled`, `StopBatch`; `mark_failed` is two, `ReadRetries`
  and `MarkFailed`.
* **A worker** is a thread; its `at` says where it is in `_worker_loop` and
  `_execute_one`, its `row` which row it works on, `read` the retries it has read.
  The executor's generation (`Trigger`, `Answer`) and the scoring (`Score`) succeed
  or fail; the event is looked at where `_check_cancel` is called.
* **The batch thread** registers the event and starts the workers (`Start`), joins
  them and removes it (`Finish`); these and the three steps of a request
  (`LookUp`, `Notify`, `StopRows`) interleave. A row is created with the batch, so a
  request may come before the start.
* **The streak** is memory shared by the workers; the one that completes it sets
  the event (`HaltWorkers`) and then stops the batch (`HaltBatch`).
* **Crash.** Threads and event are lost and no later process resumes the batch;
  a stop request still cleans up the table.

`revived` is a history: the rows that `mark_running` found over. Whatever claims a
row first takes it by time and id; here any claimable row may be next. Errors of
the database are left out, and so are fingerprints, costs and the judges.

## Runs

| run | question | bounds |
|---|---|---|
| `billing_ledger` | can two operations and an administrator overdraw a balance, or change a settled operation? does the statement explain every charge and balance? does the ledger implement `Wallet`? | 3 users, one with an old debt, one invited with 0 or 2 credits; 2 operations with a budget of 2 on a balance of 3, 2 calls of 1/4 and 5/2 credits, one request of -2 |
| `billing_runs` | is the outcome true and decided by the disk? does a request sent twice start twice, does a stop win, may anything settle a live run? does the service implement the ledger? | a chat and a target operation, 2 copies of each request, another chat that evicts their runs, 1 finished run kept, one failure of a write, one end of the process |
| `billing_liveness` | is everything settled, does every stop end? | one chat and one target, one copy, no model calls, receipts that cannot be read, one adjustment (in runs without failures) |
| `receipt_unreadable` | see Findings | one chat and one target, one copy, with a receipt that cannot be read |
| `release` | do concurrent releases take effect in order? is a confirmed one in production? does the executor handle released commits only? | 2 requests, 2 commits, 1 pool thread and the reconciliation, 2 attempts, one restart or fallback |
| `release_liveness` | does the executor end on the commit in production? | 1 request, 1 attempt, one restart or fallback |
| `release_package` | see Findings | 2 pool threads, 1 attempt, no restart |
| `target_tasks` | one writer, one executor, sound verdicts that stay; does every stop end? | 1 isolated or 2 owned tasks, the conversation, 2 restarts |
| `conversation` | is the lock accounted for, is every running run written, does a stop reach who waits, does every waiter leave? | 2 requests, 2 messages, 1 stop or advance, 1 crash |
| `awaiting_restart` | see Findings | 1 request, 1 crash |
| `experiments` | is an outcome what production shows, is a publication made once, is no task left behind, does an experiment come to rest? | 2 samples, 2 rounds, 2 orders, versions of others up to 3, 1 fault, 1 crash |
| `benchmark` | has a row one holder, is a stop heard and final, does a streak stop only what it may, does a batch end? | 2 seeds of a case and another case, 2 workers, 2 retries, a streak of 3, 1 request, 1 crash |

Why the bounds suffice. Races for a balance need two operations that do not fit
together. Rounding needs quarters, which tell rounding half up from truncating and from
rounding every remainder up, a sum of two that rounds where one does not, and a
cost above the budget. The recovery protocol handles operations one by one
and writes four things per operation, so one operation that fails and another
that lives, with one failure and one crash anywhere, give every pair of
prefixes; a second crash repeats what the first scan met. Two deliveries are
what it takes for one to load while the other executes. `KeepFinished` is 1
(32 in the code), so that the runs of the chat and of the target evict each other,
and a third operation evicts the chat for good. Of that third operation the run looks
only at what it is there for (`OtherEvicts`): it comes in the first process, when the
others' runs are completed and a copy of the chat is loading, and is followed until its
own source would start. `SentAgainAtOnce` cuts the second copy of a target after the first
end of the process: to the next process it is a replay, or a first delivery.
`MaxFaults` and `MaxCrashes` bound failures and ends of the process; orderly ends
count as crashes do.

For releases, two requests are a race for one version; a history of up to two
versions at the start, the older of which may be in production (an import does
that), tells the version from its commit and the newest version from the one in
production. Two attempts are what it takes for a late thread and a retry to meet;
one pool thread and the reconciliation are two loaders.

A task needs two restarts: one leaves a worker behind, the next leaves
another while the first still holds the lock. Two owned tasks are a race for a work.
Two requests of a conversation are a holder and a waiter, or two waiters of which a stop
takes one; two messages tell a request from the message it carries.

In `experiments`, two samples make an order and a pair of tasks to stop; with two orders a
promotion can be followed by a restore or by a second attempt, and three versions put
somebody else's release before or after it. Two constraints
cut what does not interact: nothing asks for the version in production before the
review, so others release only from then on (`ReleasesAfterReview`), and a publication
is followed for the candidate of the first round (`FirstRoundPublished`).

In `benchmark`, three rows of two cases are what it takes to tell a streak within one case
from one across cases; with 2 retries (3 in the code) a row fails, comes back and fails
for good, and the streak of 3 (as in the code) may or may not be reached first. Two workers
are a race for a row and for the streak, and one may leave while the other's row
comes back. `BatchEnds` and `StopIsHeard` are checked over the same states.

Deadlock is checked in the two runs of `BillingRuns` that hold and in `receipt_unreadable`. Elsewhere the
system may really stop: the ledger runs out of requests and money, releases,
conversations, experiments and batches come to an end, tasks are over. Copies, threads,
requests, commits, operations and calls are symmetric where only safety is checked.

What the properties say is written above each of them. The deep ones:

* `Solvent`, `ImplementsWallet`: no mix of reservations, settlements and
  deductions makes a user owe.
* `ReceiptDecides`: while an operation is pending its receipt is never lost nor
  replaced by one that costs something else, and it is charged by that receipt.
* `StopWins`, `StatusIsEarned`, `SavedResultIsCharged`: the user reads the truth.
* `StartedOnce`, `LiveRunsStayOpen`: retransmission and recovery do not disturb
  running work. `StartedOnce` is about chat operations: a target task is
  resumed by the next process on purpose. Its premise, and that of three other properties,
  is that the run was not `forgotten`: a chat evicted with an open settlement while its
  second copy is loading is started again. The run reaches such states, and the
  property holds of all other chats, evicted ones included.
* `StopWins` is stated without failures and crashes: with them a stop whose
  receipt never reached the disk is refunded as a failure, as documented.

* `ImplementsRegister`: a release decided on an outdated view of production is never
  applied, also when its answer is lost.
* `ActivatedIsProduction`, `OnlyReleased`: what is reported as active is in
  production, and nothing unreleased is ever loaded.

* `OneWriter`, `OneExecutor`: admission, checks and restarts with awaits between
  them never let two write the same work or the same task.
* `VerdictIsSound`, `VerdictStays`: no report of a worker that outlived its parent, no
  poll, restart or stop makes a task completed that is not, or reopens it. A
  completed task may be lost to a stop that was already under way, and "stopped" and
  "failed" may replace each other when both monitor and stop verify.
* `LockIsAccountedFor`: each of the many ways out of the queue, the preparation and
  the stream gives the lock back, once.
* `RunningIsWritten`, `EndStays`: memory and index of the recorder agree with the
  generators there are, against stops, scanner, resumes and crashes.
* `DroppedIsOver`: what a stop took out of the queue is not generated when its lock
  arrives or the message is sent again.
* `OutcomeIsTrue`, `AtMostOnePromotion`, `RestoreIsOwn`: what an experiment says of its
  publication is what the platform did, whatever replies, promises and processes
  were lost in between.
* `NoTaskLeft`, `ComesToRest`: an experiment that ended has stopped its tasks, and
  every experiment ends or waits for its user.
* `OneHolder`, `StopIsFinal`: the guards of the updates suffice against late writes
  of workers, except for the one update that has no guard (see Observations).
* `AutoStopEarned`: the streak in memory agrees with the failures in the table.
* `StopIsHeard`, `BatchEnds`: every wait of a worker looks at the event, and a worker
  that finds nothing to claim and leaves strands no row that comes back later.

Type invariants of the ledger, the service, releases, tasks, conversations and batches
are proved; the runs do not check them again (that of experiments is checked and proved).

### Fairness

In `release_liveness` the threads of the executor are weakly fair, failing counts
as going on. Waking up, reading the pointer and loading by the reconciliation are
strongly fair: its loop swallows every error and tries again every 600 seconds
(`reconcile.py:42-53`), and the platform is not unreachable for ever. No fairness
for the platform, its requests or runs: notifications may all be lost.

In `target_tasks` monitors and stop requests are weakly fair (the event loop), and so are a
worker's attempt at its lock, its watcher, which looks every 0.2 seconds, and its exit; the
process is restarted; the runner of an experiment asks for its tasks until they are over
(`Poll`), and a user repeats a stop of an owned task that was only accepted. No fairness for
writing: a worker may write for ever.

In `conversation` the steps of a request are weakly fair; a model call and the number of
steps are limited in the code. The scanner comes round to every run that is old
enough: reading a run is strongly fair, acting on it weakly.

In `benchmark` the threads are weakly fair: nothing in a worker blocks for ever except
the polling, which has no time limit. `Answer` is therefore not fair, and a
worker in the polling goes on only if the event is set; `BatchEnds` takes as its premise
that generations end. Requests come or not, but one that began goes on.

In `experiments` calls get an answer or a timeout, the platform decides, tasks end and the
service comes back after a shutdown, all weakly fair. The worker and the write of a stop
are strongly fair: they need the run lock, which a publication holds again and again but
hands on.

In billing, fairness is used only by `billing_liveness`. `FinishStep` and `ScanStep` are weakly fair:
synchronous code goes on. `Start` is weakly fair: `restart: always` in
`docker-compose.yml`. `StartRun`, `CancelDelivered`, `Scan`, `Close` and `Exit`
are strongly fair, because they need the loop, which is free again and again but
not always; asyncio serves ready callbacks in turn and the scanner's timer fires
every 30 seconds. No fairness is assumed for models, sources, users or
administrators: a source may run for ever, and then its operation stays open.

## Findings

`receipt_unreadable` violates `ReceiptDecides`: `recover` counts a receipt as
pending only after it has been read (`ledger.py:381`), and skips it on `OSError`
(`ledger.py:388`). The last part of the same scan then fails the operation and
overwrites its receipt: an operation that ended as stopped or out of budget is
refunded because a file could not be read once. Taking the name of the
file as the operation before reading it would repair this.

`release_package` violates `PackageFollowsProduction`: two loads of different
commits interleave between the assignments of `_loaded_package` and
`_current_commit` (`loader.py:111-112`, `165-166`), and the older package stays under
the newer name. The reconciliation compares names, so it does not repair it. A
lock around the loader would exclude this.

`awaiting_restart` violates `AwaitingEnds`, the comment at `recorder.py:1137`: after a
restart the scanner shall end a run that awaits input for too long.
`_cancel_zombie_no_memory` restores too little of the run's state
(`recorder.py:1150`): `_duration_ms` raises `KeyError`, the scan is over, and the run stays
as it is.

### Observations

Met while modelling, part of the models, and contradicted by no checked property:

* `run_detail` (`api.py:176-180`) may write an old document over a publication that has
  finished meanwhile: the status becomes "stale" and a restore impossible.
* `advance_one` writes back an old copy after `ServiceUnavailable` (`runner.py:265-272`).
* `is_stopped` of an experiment includes the shutdown: one that comes between two
  checks ends the experiment for good, as if its user had stopped it.
* An unconfirmed publication is confirmed again only by a running worker, a
  restart, or another publish.
* A worker that fails leaves its task running at the executor.
* One sample may still be dispatched after a stop was recorded, between check and
  start; the stop pass then ends it.
* A message cleared by a stop while its request is not yet registered as a waiter
  (`agent.py:1320`; `run_gate.py:28-33`) is generated although the log says
  cancelled; `DroppedIsOver` speaks of registered waiters.
* A stop that reaches a generator suspended at a yield is recorded as interrupted;
  the mark of a stop for a run that awaits input stays for its next resume.
* The scanner may act on a reading that a resume has overtaken: the resumed run is
  ended as timed out. `EndStays` then says only that it stays ended.
* The stop mark of a run, read by an end for another reason or left for its next resume,
  may give that end a wrong reason; `EndStays` is about ends, not reasons.
* A message whose client leaves before it is registered stays "queued"; one that
  leaves in the preparation stays "running", and so does a run after a crash.
* A crash while the monitor reports traces leaves a verified owned task with the
  claim of its work.
* The platform's lock covers a notification until the platform gives up on it after 5
  seconds, not until its handler ends: the handler of an older release may load last,
  against the comment at `release.py:66-67`. The reconciliation repairs it.
* `mark_running` (`benchmark/repo.py:162-166`) overwrites any status. A row that a stop
  ended between its claim and this update is in progress again, against
  `repo.py:221-223` (late writes "不会复活 cancelled 行"). It may then end "done", or
  fail and become pending with no worker left, so that the stopped batch reads
  "running" until it is stopped again. The claim has already set the status; the
  second update does nothing else.
* A stop that comes before the batch's thread has registered its event is not heard
  by the workers; they find no row to claim and leave.
* A worker that sees the event before `stop_batch` ran marks a row cancelled that had
  failed before, which `stop_batch` would have reported as failed.
* A stop of a batch that is over still records its reason, and "done" reads
  "cancelled" from then on.
* Rows of a batch whose process died stay in progress until somebody stops the batch.
* A chat whose settlement failed and whose run was evicted while a second delivery was
  still loading is executed a second time (`runtime.py:190-192`), although a request sent
  again shall make no new task. It takes a failed write of `finish` and, in the code,
  32 newer finished runs while the copy is loading. `billing_runs` reaches these
  states; the chats concerned are those in `forgotten`.
* A stop of an owned task whose wait ends while the task is "ending" leaves it
  "stopping" until the stop is repeated.

## Proofs

`BillingProofs` begins with the laws of `Total` and of `HalfUp`: a total is a
natural number, depends only on the rows, and grows or shrinks by the amount of
a row added, removed or changed. They rest on finite sets and cardinalities;
no recursion is involved.

It then proves for `LedgerSpec`, for any users, operations, costs,
budgets, requests and codes under the assumptions named in `BillingLedger`
(finitely many operations, natural costs, positive budgets, `None` not an
outcome or a user):

| theorem | property |
|---|---|
| `TypeCorrect` | `TypeOK` |
| `NobodyOwes` | `Solvent` |
| `StatementCorrect` | `StatementAddsUp` |
| `IntentCloses` | `IntentClosesExecution` (no run checks it) |
| `FinalStaysFinal` | `FinalIsFrozen` |
| `BalancesReconcile` | `Reconciled` |
| `LedgerImplementsWallet` | `ImplementsWallet` |

The invariant behind them is

    LedgerInv == TypeOK /\ CallsFinite /\ OwnersKnown /\ Solvent

`TypeOK` alone is not inductive: that a settlement leaves a natural balance
needs `Solvent` (the budget of the operation is part of what is reserved, and
the charge is at most the budget). `Solvent` in turn needs the types, and
`OwnersKnown`, that only users with an account have operations, because
registration sets the balance of a new user. `CallsFinite` makes the sum of the
recorded costs a natural number. `StatementCorrect` compares the charge
with a rounding stated by itself: `Quotient` and `HalfUpNearest` show that `HalfUp` gives
the nearest unit, half up, `ChargeFair` that the cap by the budget is fair. `Reconciled` needs `BooksInv`: an entry is new when
it is posted, so that it counts once (for grants, `GrantsOnce`: a code that has paid was
used, and is never issued again), and who registers has no entry yet (`Newcomers`). The refinement takes the invariant: a
transaction that creates a row is a `Hold`, a first settlement a `Close`, an
adjustment or a registration a `Change`, all others stutter.

`BillingRunsProofs` proves for `Spec` of `BillingRuns`, for any number of
operations, copies of requests, failures and crashes:

| theorem | property |
|---|---|
| `ServiceImplementsLedger` | `ImplementsLedger` |
| `ServiceNobodyOwes` | `Solvent` |
| `ServiceStatement` | `StatementAddsUp` |
| `ServiceReconciles` | `Reconciled` |
| `ServiceImplementsWallet` | `ImplementsWallet` |

The first is the work, the others follow from it and the theorems of the ledger.
Most actions of the service are a transaction of the ledger by their shape. The
exceptions are those that hand on an outcome read earlier: from `fin`, from a
receipt, from a stored intent. `settle` accepts only an outcome, so it has to
be shown that one is there. That is `Control`: a scan begins when the loop is
free, and while it works on receipts or intents nothing else is inside `finish`
or `request_stop`; the receipts and intents it collected are still there when
it comes to them. Outside the scan, several operations may hold a receipt at
once, left by crashes and failures.

`BillingRunsProofs` then proves `OutcomesAreTrue`: `Spec => []StatusIsEarned`. An outcome
travels from a source or a stop through `fin`, the receipt and the intent to the
status, possibly through several processes, and its reason must hold at the end
of that way. `OutcomeInv` says so of every place it may be in: an outcome is
`Earned` in `fin` (`LoopEarned`), in the receipt, the intent and the status
(`RowsEarned`), and so are the marks on a run from which outcomes are made, the
stop mark and the exhausted mark (`RunsEarned`). `EarnedStays` is the lemma that
makes it inductive: results are never removed, requests to stop never forgotten,
and consumption never shrinks while the budget stays, the last because `consumed`
is the sum of a set of calls that only grows (`ConsumedGrows`, from
`StatementAddsUp` and the laws of `Total`). It holds only of operations with a
row (`Known`): without one, budget and consumption are both 0 and the budget
would count as used up.

`ServiceTypes` proves `Spec => []RunsTypeOK`. The types of the table come from the ledger,
those of the runs, `fin` and the scan from `OutcomeInv` and `Control`; the rest is
`Places`.

`SettlementProofs` follows an operation to its end, for any number of operations,
copies of requests, failures and crashes:

| theorem | property | hypotheses beside `Spec` |
|---|---|---|
| `StoppedRunsStayStopped` | `StopWins` | none |
| `SourceStartedOnce` | `StartedOnce` | none |
| `RunsKeepTheirOperation` | `LiveRunsStayOpen` | none |
| `ResultsArePaidFor` | `SavedResultIsCharged` | none |
| `TheReceiptDecides` | `ReceiptDecides` | receipts can be read |
| `RoomForEveryRun` | `forgotten = {}` | at most `KeepFinished` operations |

`CoreInv` is common to all: what a scan spares and what it has still to do, whom a stop
works on, which runs each mode of the process allows, that an operation is final when its
receipt is removed. `StopInv` adds the stopped runs of a process without failures: what
remains of their way allows no other outcome. The other parts speak of operations that
were not forgotten. `LiveInv` says that a copy which still loads
finds the run of its request, if there is a row, so that it shares it. `SavedInv` says
that every outcome on its way to an operation with a stored result is one that is
paid, and that no scan will take it for an orphan. `ReceiptInv` says that a
scan looks at every receipt before it looks for orphans, and that whoever is inside
`finish` brings an outcome that costs what the receipt says.

The exception for `forgotten` is needed: without it TLC violates `StartedOnce` in the
instance of `billing_runs`. A chat whose `finish` failed after the
intent is done and pending, its run is evicted by the next submit
(`runtime.py:190-192`), and its second copy, loading all the while, finds the pending row, no
run to share, and executes the source again; the second execution may end otherwise
and be settled under way, which is why three other properties except it too. Only an
eviction in this situation adds to `forgotten` (`Forget`), and `RoomForEveryRun` shows that
there is none while there is room for every run.

`TheReceiptDecides` is the other side of the finding `receipt_unreadable`: but for forgotten
runs, a receipt that cannot be read is the only way to lose it.

`ReleaseProofs` proves for `Spec` of `Release`, for any commits, requests, threads,
attempts and faults:

| theorem | property |
|---|---|
| `ReleaseTypes` | `TypeOK` |
| `AtMostOneWinner` | `OneWinner` (no run checks it) |
| `ReleasedOnly` | `OnlyReleased` |
| `ConfirmedInProduction` | `ActivatedIsProduction` |
| `ReleaseImplementsRegister` | `ImplementsRegister` |

`ReleaseInv` has a part for the ledger, the requests, the threads and the loader.
`OneWinner` needs `Winner`: an applied request expected an older version than its
own, and its own is at most the one in production, so no later request that
is applied expected the same. `OnlyReleased` needs the commits on their way: those of
notifying requests (`Notifying`) and of every thread. `ActivatedIsProduction` needs
that one request at most is in `InPromote`, that what it notifies about is in
production, and that only a notifying request waits for an answer
(`Recorded`). Every step but `Apply` changes a request as `Evolves` describes, so that
the invariant is proved once for all of them (`RequestsEvolve`).

`TargetTasksProofs` proves for `Spec` of `TargetTasks`, for any isolated and owned tasks
(no task is both) and any number of restarts:

| theorem | property |
|---|---|
| `TaskTypes` | `TypeOK` |
| `AtMostOneWriter` | `OneWriter` |
| `AtMostOneExecutor` | `OneExecutor` |
| `SoundVerdicts` | `VerdictIsSound` |
| `VerdictsStay` | `VerdictStays` |

`IInv` says for each point of a monitor, a stop request and a worker what the records
may hold meanwhile. `VerdictIsSound` is not inductive: a verdict given by a stop must not
meet a worker that begins later. `ThisLife` says why there is none: a worker of the
running process has a monitor that waits for it and no verdict, and older workers are
over before a monitor goes on. `Late` is about the monitor of a task that a stop has
verified meanwhile: it finds the stop file and a journal that ended, so that its own
verdict repeats the one there is. `OwnedInv` ties an owned task to its claim, from
which `OneWriter` follows together with the second question of the conversation (`Talk`).

`ConversationProofs` proves for `Spec` of `Conversation`, for any requests, messages, stops
and crashes:

| theorem | property |
|---|---|
| `ConversationTypes` | `TypeOK` |
| `LockAccountedFor` | `LockIsAccountedFor` |
| `RunningWritten` | `RunningIsWritten` |
| `DroppedStaysOver` | `DroppedIsOver` |
| `EndsStay` | `EndStays` |

The lock needs `GateInv`: the first of the line is woken only while the lock is free, and
who acquires it for a request does so while the request waits, or returns it after the
request left. The ends need `RunInv`: memory knows only runs that have not ended, and a
request that waits or prepares has made none. `DroppedIsOver` needs `DropInv`: whoever
still carries a dropped message entered the queue in an earlier epoch.

`BenchmarkProofs` proves for `Spec` of `Benchmark`, for any rows, cases, workers, requests
and limits:

| theorem | property |
|---|---|
| `BatchTypes` | `TypeOK` |
| `OneWorkerPerRow` | `OneHolder` |
| `StopsAreFinal` | `StopIsFinal` |
| `RowsHaveWorkers` | `NoOrphanRow` (no run checks it) |
| `FailuresEarned` | `FailureIsEarned` (no run checks it) |
| `FinalRowsStay` | `FinalStays` (no run checks it) |
| `AutoStopsEarned` | `AutoStopEarned` |

One row is claimed once because it is pending only when nobody holds it, and it becomes
pending again only by the worker that leaves it (`HeldInv`, with what that worker
read of the retries, the second half of `OneHolder`). `NoOrphanRow` needs to know how far a
row is when its worker writes (`ScoreInv`): a result written to a row that is not being
evaluated would be dropped, the worker would leave, and the row would stay in progress.
`NoOrphanRow`, `StopIsFinal` and `FinalStays` speak of rows that have not been revived;
for the others they are false. `AutoStopEarned` counts the failures the table shows as
a set (`Failures`), so that it can be reasoned about. It needs `StreakInv`: the streak and the
failures about to be counted are together at most those the table shows, because
a failure is written before it is counted and, until somebody stops the batch, the
row of a worker is in progress (`InProgress`), so that `mark_failed` does write it. For this
the rows and the workers are finite.

`ExperimentsProofs` proves for `Spec` of `Experiments`, for any samples and any number of
rounds, orders, releases of others, faults and crashes, and without the two constraints of
the run:

| theorem | property |
|---|---|
| `ExperimentTypes` | `TypeOK` |
| `TasksNeverLeft` | `NoTaskLeft` |
| `PromotedOnce` | `AtMostOnePromotion` |
| `RestoresAreOwn` | `RestoreIsOwn` |
| `ExperimentOutcomes` | `OutcomeIsTrue` |
| `ExperimentEndsStay` | `EndStays` |
| `CopyIsCurrent` | no run checks it |

The document is written back whole, by the worker from a copy it read earlier and by
requests from theirs, so everything rests on what these copies may say. `EarnedInv` says
it of the document and of the worker's copy alike: the phases of the round were passed in
order, a version it names is in the history of production, and before the review
(`Late`) nothing is published. `CopyInv` is `CopyIsCurrent`: while the worker is between two
writes (`Busy`) only a stop may have changed the document, and only its status. `LockInv`
says the same of who holds the run lock across a call. `OrdersInv` is the platform's
compare and set as an experiment sees it: an order that was applied made the
version after the one it expects, and no two made the same; since every promotion
expects the version the experiment began with, one at most is applied, and a restore
replaces the candidate itself. `TaskInv` follows each sample's task through start, poll, stop
and lost replies.

All invariants and action properties that passing runs check are proved, `ReceiptDecides`
under the hypothesis named there. Only model-checked is what is liveness under fairness, which is out of this prover's reach:
`SettledEventually`, both `StopEnds`, `NamedFollowsProduction`, `WaiterLeaves`, `ComesToRest`,
`StopIsHeard`, `BatchEnds`.

## Not modelled, and what comes next

1. `Tx`: the transaction wrapper, whose failing BEGIN and COMMIT leave lock or
   connection in a bad state; the ledger takes transactions as atomic.
2. The binding spool beside `Release`: cap, replay, and a file deleted while it is
   written again.
3. The delivery of outcomes (`outcomes.py`) and the event files of the recorder.
4. Races between the scanner's thread and the event loop inside one update of
   `traces/index.json`; an update is atomic here.
5. Runs that show the second start of an evicted chat and the revival of a cancelled row as
   violations; both are observations so far.

Left out for good: user interface, static pages, wrappers of git and sqlite, schemas with
unit tests of their own, and the v1 credits, which the v2 ledger reads once. PROJECT.json
gives the reason for each part.
