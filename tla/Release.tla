------------------------------- MODULE Release -------------------------------
(***************************************************************************)
(* Releasing a version of the writing agent: platform/app/release.py and   *)
(* platform/app/core/ledger.py decide which commit is in production and    *)
(* notify the executor, whose loader, reload endpoint and reconciliation   *)
(* (executor/app/platform/agent/) load the package.                        *)
(*                                                                         *)
(* The platform serializes promotions, their notifications included, with  *)
(* _RELEASE_LOCK: at most one request is probing or notifying.  A          *)
(* notification is handled by a thread of the executor, which goes on when *)
(* the platform stops waiting for it.  The threads share loader's          *)
(* _loaded_package and _current_commit (package and named) without a lock. *)
(***************************************************************************)
EXTENDS Integers, Sequences, SequencesExt

CONSTANTS
  Commits,
  Requests,         \* calls of promote and restore
  Threads,          \* the executor's thread pool
  Reconciler,       \* the reconciliation and the thread it waits for
  NotifyAttempts,   \* 3 in the code
  MaxFaults,        \* restarts and production look-ups without the platform
  None

ASSUME NoneAssumption == None \notin Commits \cup Requests \cup Threads \cup {Reconciler}
ASSUME ReconcilerAssumption == Reconciler \notin Threads
ASSUME BoundsAssumption == NotifyAttempts \in Nat \ {0} /\ MaxFaults \in Nat

VARIABLES
  versions,     \* table versions: the commits of versions 1, 2, ...
  production,   \* meta production_version; production_commit is its commit
  request,      \* the requests, from the client's call to the answer
  thread,       \* what the threads of the executor do
  package,      \* loader._loaded_package, by its commit
  named,        \* loader._current_commit
  known,        \* the commit in known_production.json
  faults

platformVars == <<versions, production>>
loaderVars == <<package, named, known>>
vars == <<platformVars, request, thread, loaderVars, faults>>

Workers == Threads \cup {Reconciler}

-----------------------------------------------------------------------------
ProductionCommit == IF production = 0 THEN None ELSE versions[production]

Sent(c, e, answer) ==
  [at |-> answer, commit |-> c, expect |-> e, version |-> 0, tries |-> 0, awaits |-> None]

Unsent == Sent(None, 0, "unsent")

IdleThread == [at |-> "idle", commit |-> None, notice |-> None]

(* The requests inside release.promote.                                     *)
InPromote == {r \in Requests : request[r].at \in {"probing", "notifying"}}

(* Mutant: the lock covers the pointer write only.                          *)
LockFreeBeforeNotice == \A r \in Requests : request[r].at # "probing"

LockFree == InPromote = {}

(* The check of expected_production_commit and _version.  A client takes    *)
(* both from one reading of the pointer and commits of versions do not      *)
(* change, so that the version decides.                                     *)
Expected(r) == request[r].expect \in {0, production}

(* Mutant: one more than the version in production.                         *)
NextAfterProduction == production + 1

NextVersion == Len(versions) + 1

Answer(r, answer) == request' = [request EXCEPT ![r].at = answer]

Init ==
  /\ \E c \in Commits, d \in Commits :
       versions \in {<< >>, <<c>>, <<c, d>>}
  /\ production \in IF versions = << >> THEN {0} ELSE DOMAIN versions
  /\ request = [r \in Requests |-> Unsent]
  /\ thread = [t \in Workers |-> IdleThread]
  /\ package = None /\ named = None /\ known = None
  /\ faults = 0

-----------------------------------------------------------------------------
(* Platform.                                                                *)

(* A request is sent with the version its client saw in production, or with *)
(* none, and then waits, for the network or for the lock.                   *)
Send(r, c, e, answer) ==
  /\ request[r].at = "unsent"
  /\ request' = [request EXCEPT ![r] = Sent(c, e, answer)]
  /\ UNCHANGED <<platformVars, thread, loaderVars, faults>>

Promote(r, c, e) == Send(r, c, e, "waiting")

(* Only a commit that was released can be restored.                         *)
Restore(r, c, e) == Send(r, c, e, IF c \in ToSet(versions) THEN "waiting" ELSE "rejected")

Begin(r) ==
  /\ request[r].at = "waiting"
  /\ LockFree
  /\ Answer(r, IF Expected(r) THEN "probing" ELSE "changed")
  /\ UNCHANGED <<platformVars, thread, loaderVars, faults>>

(* The probe rejects the commit or the package cannot be built.             *)
Reject(r) ==
  /\ request[r].at = "probing"
  /\ Answer(r, "rejected")
  /\ UNCHANGED <<platformVars, thread, loaderVars, faults>>

(* apply_promotion, one transaction.                                        *)
Apply(r) ==
  /\ request[r].at = "probing"
  /\ \/ /\ Expected(r)
        /\ versions' = Append(versions, request[r].commit)
        /\ production' = NextVersion
        /\ request' = [request EXCEPT ![r].at = "notifying", ![r].version = NextVersion]
     \/ /\ ~ Expected(r)
        /\ Answer(r, "changed")
        /\ UNCHANGED platformVars
  /\ UNCHANGED <<thread, loaderVars, faults>>

(* Mutant: the executor is notified while the promotion is prepared.        *)
CanNotifyEarly(r) ==
  /\ r \in InPromote
  /\ request[r].awaits = None /\ request[r].tries < NotifyAttempts

(* notify_reload may make another attempt.                                  *)
CanNotify(r) ==
  /\ request[r].at = "notifying"
  /\ request[r].awaits = None /\ request[r].tries < NotifyAttempts

Notify(r, t) ==
  /\ CanNotify(r)
  /\ thread[t] = IdleThread
  /\ request' = [request EXCEPT ![r].tries = @ + 1, ![r].awaits = t]
  /\ thread' = [thread EXCEPT ![t] = [at |-> "ensure", commit |-> request[r].commit, notice |-> r]]
  /\ UNCHANGED <<platformVars, loaderVars, faults>>

NotifyFails(r) ==
  /\ CanNotify(r)
  /\ request' = [request EXCEPT ![r].tries = @ + 1]
  /\ UNCHANGED <<platformVars, thread, loaderVars, faults>>

(* The platform waits no longer for the answer; the thread does not know.   *)
Timeout(r) ==
  /\ request[r].awaits # None
  /\ request' = [request EXCEPT ![r].awaits = None]
  /\ UNCHANGED <<platformVars, thread, loaderVars, faults>>

GiveUp(r) ==
  /\ request[r].at = "notifying"
  /\ request[r].awaits = None /\ request[r].tries = NotifyAttempts
  /\ Answer(r, "unconfirmed")
  /\ UNCHANGED <<platformVars, thread, loaderVars, faults>>

Fault == faults < MaxFaults /\ faults' = faults + 1

PlatformRestart ==
  /\ Fault
  /\ request' = [r \in Requests |->
       IF request[r].at \in {"waiting", "probing", "notifying"}
       THEN [request[r] EXCEPT !.at = "gone", !.awaits = None] ELSE request[r]]
  /\ UNCHANGED <<platformVars, thread, loaderVars>>

-----------------------------------------------------------------------------
(* Executor: reload.                                                        *)

(* The thread ends; the platform, if it still waits, sees an error.         *)
NoAnswer(t) ==
  request' = [r \in Requests |->
    IF request[r].awaits = t THEN [request[r] EXCEPT !.awaits = None] ELSE request[r]]

Step(t, from, to) == thread[t].at = from /\ thread' = [thread EXCEPT ![t].at = to]

(* A download fails, a digest differs, the platform cannot be reached, or   *)
(* the answer cannot be built.                                              *)
Fails(t) ==
  /\ thread[t].at \in {"ensure", "query", "load", "report"}
  /\ thread' = [thread EXCEPT ![t] = IdleThread]
  /\ NoAnswer(t)
  /\ UNCHANGED <<platformVars, loaderVars, faults>>

(* platform_reload downloads the package before it calls reload_current.    *)
Ensure(t) ==
  /\ Step(t, "ensure", "clear")
  /\ UNCHANGED <<platformVars, request, loaderVars, faults>>

(* reload_current: the package is dropped, found in the cache, loaded and   *)
(* named.                                                                   *)
Clear(t) ==
  /\ Step(t, "clear", "load")
  /\ package' = None
  /\ UNCHANGED <<platformVars, request, named, known, faults>>

Load(t) ==
  /\ Step(t, "load", "name")
  /\ package' = thread[t].commit
  /\ UNCHANGED <<platformVars, request, named, known, faults>>

Name(t) ==
  /\ thread[t].at = "name"
  /\ named' = thread[t].commit
  /\ thread' = [thread EXCEPT ![t] =
                  IF @.notice = None THEN IdleThread ELSE [@ EXCEPT !.at = "report"]]
  /\ UNCHANGED <<platformVars, request, package, known, faults>>

(* platform_reload answers with production_commit(), read now; notify_reload *)
(* accepts the commit it asked for.                                          *)
Report(t) ==
  /\ thread[t].at = "report"
  /\ thread' = [thread EXCEPT ![t] = IdleThread]
  /\ \/ /\ request[thread[t].notice].awaits = t
        /\ named = request[thread[t].notice].commit
        /\ request' = [request EXCEPT ![thread[t].notice].at = "activated",
                                      ![thread[t].notice].awaits = None]
     \/ /\ request[thread[t].notice].awaits # t \/ named # request[thread[t].notice].commit
        /\ NoAnswer(t)
  /\ UNCHANGED <<platformVars, loaderVars, faults>>

-----------------------------------------------------------------------------
(* Executor: load_current_package, called by a run that needs the package,  *)
(* and reconcile_production_once.                                           *)

Occupy(t, at, commit) ==
  thread' = [thread EXCEPT ![t] = [at |-> at, commit |-> commit, notice |-> None]]

FirstLoad(t) ==
  /\ thread[t] = IdleThread
  /\ package = None
  /\ \/ /\ production # 0
        /\ Occupy(t, "load", ProductionCommit)
        /\ UNCHANGED faults
     \/ /\ Fault        \* the platform cannot be reached
        /\ known # None
        /\ Occupy(t, "load", known)
  /\ UNCHANGED <<platformVars, request, loaderVars>>

(* The loop wakes up and remembers what is loaded.                          *)
Reconcile ==
  /\ thread[Reconciler] = IdleThread
  /\ named # None
  /\ Occupy(Reconciler, "query", named)
  /\ UNCHANGED <<platformVars, request, loaderVars, faults>>

(* Mutant: what was loaded is loaded again.                                 *)
ToReloadStale == thread[Reconciler].commit

(* What the reconciliation loads when production differs from what it saw.  *)
ToReload == ProductionCommit

Compare ==
  /\ thread[Reconciler].at = "query"
  /\ production # 0
  /\ IF ProductionCommit = thread[Reconciler].commit
     THEN thread' = [thread EXCEPT ![Reconciler] = IdleThread]
     ELSE Occupy(Reconciler, "clear", ToReload)
  /\ UNCHANGED <<platformVars, request, loaderVars, faults>>

-----------------------------------------------------------------------------
(* Executor: the binding of a run, and a restart.                           *)

(* _resolve_binding_commit takes the commit of the loaded package.          *)
Bind(t) ==
  /\ thread[t] = IdleThread
  /\ named # None
  /\ Occupy(t, "bind", named)
  /\ UNCHANGED <<platformVars, request, loaderVars, faults>>

(* The platform records the binding, and then its commit is remembered; a   *)
(* binding that fails is spooled.                                           *)
Bound(t) ==
  /\ thread[t].at = "bind"
  /\ thread' = [thread EXCEPT ![t] = IdleThread]
  /\ known' \in {thread[t].commit, known}
  /\ UNCHANGED <<platformVars, request, package, named, faults>>

ExecutorRestart ==
  /\ Fault
  /\ package' = None /\ named' = None
  /\ thread' = [t \in Workers |-> IdleThread]
  /\ request' = [r \in Requests |-> [request[r] EXCEPT !.awaits = None]]
  /\ UNCHANGED <<platformVars, known>>

-----------------------------------------------------------------------------
PlatformStep(r) ==
  \/ \E c \in Commits, e \in {0, production} : Promote(r, c, e) \/ Restore(r, c, e)
  \/ Begin(r) \/ Reject(r) \/ Apply(r)
  \/ \E t \in Threads : Notify(r, t)
  \/ NotifyFails(r) \/ Timeout(r) \/ GiveUp(r)

(* What a thread does next on its own.                                      *)
Proceed(t) ==
  Fails(t) \/ Ensure(t) \/ Clear(t) \/ Load(t) \/ Name(t) \/ Report(t) \/ Bound(t)

ExecutorStep ==
  \/ \E t \in Workers : Proceed(t)
  \/ \E t \in Threads : FirstLoad(t) \/ Bind(t)
  \/ Reconcile \/ Compare

Next ==
  \/ \E r \in Requests : PlatformStep(r)
  \/ ExecutorStep
  \/ PlatformRestart \/ ExecutorRestart

Spec == Init /\ [][Next]_vars

(* Threads go on, the reconciliation wakes up again and again, and not all  *)
(* its requests fail.                                                       *)
Fairness ==
  /\ \A t \in Workers : WF_vars(Proceed(t))
  /\ SF_vars(Reconcile) /\ SF_vars(Compare) /\ SF_vars(Load(Reconciler))

FairSpec == Spec /\ Fairness

-----------------------------------------------------------------------------
RequestStates == {"unsent", "waiting", "probing", "notifying", "activated",
                  "unconfirmed", "changed", "rejected", "gone"}

TypeOK ==
  /\ versions \in Seq(Commits)
  /\ production \in 0..Len(versions)
  /\ request \in [Requests ->
       [at : RequestStates, commit : Commits \cup {None}, expect : 0..Len(versions),
        version : 0..Len(versions), tries : 0..NotifyAttempts, awaits : Threads \cup {None}]]
  /\ thread \in [Workers ->
       [at : {"idle", "ensure", "query", "clear", "load", "name", "report", "bind"},
        commit : Commits \cup {None}, notice : Requests \cup {None}]]
  /\ {package, named, known} \subseteq Commits \cup {None}
  /\ faults \in 0..MaxFaults

(* Of the requests that expected the same version in production at most one  *)
(* was applied, also when it cannot tell (apply_promotion compares and sets, *)
(* release.py:promote).                                                      *)
OneWinner ==
  \A p, q \in Requests :
    /\ p # q
    /\ request[p].version # 0 /\ request[q].version # 0
    => request[p].expect = 0 \/ request[p].expect # request[q].expect

(* The executor loads, names, binds runs to and falls back on nothing but    *)
(* commits that were in production at some time, whatever its threads,       *)
(* restarts and old files do (release.py: the notice follows the             *)
(* transaction; loader.py, reconcile.py, binding_client.py).                 *)
OnlyReleased ==
  {package, named, known} \subseteq ToSet(versions) \cup {None}

(* An answer "activated" is given while the version of the request is in     *)
(* production: nothing was promoted between the pointer and the confirmation *)
(* (release.py:_RELEASE_LOCK covers both).                                   *)
ActivatedIsProduction ==
  [][\A r \in Requests :
       request[r].at # "activated" /\ request'[r].at = "activated"
       => production = request[r].version]_vars

(* When restarts and promotions stop, the executor names the commit in       *)
(* production, or none until a run loads it: lost and late notifications are  *)
(* repaired (reconcile.py:reconcile_production_once).                        *)
NamedFollowsProduction == <>[](named \in {ProductionCommit, None})

(* The package itself ends up being the one in production: what the head of  *)
(* reconcile.py says of the reconciliation.                                  *)
PackageFollowsProduction == <>[](package \in {ProductionCommit, None})

(* The platform implements the register of versions.                         *)
Result(r) ==
  LET at == request[r].at IN
  IF request[r].version # 0 THEN "applied"
  ELSE IF at = "unsent" THEN "none"
  ELSE IF at \in {"waiting", "probing"} THEN "open"
  ELSE IF at = "changed" THEN "refused" ELSE "failed"

Register == INSTANCE VersionRegister WITH
  order <- [r \in Requests |-> [commit |-> request[r].commit, expect |-> request[r].expect]],
  result <- [r \in Requests |-> Result(r)]

(* Requests take effect once and one after another, under any interleaving  *)
(* with notifications, timeouts and restarts (release.py, core/ledger.py).   *)
ImplementsRegister == Register!Spec

=============================================================================
