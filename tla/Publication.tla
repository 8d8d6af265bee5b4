----------------------------- MODULE Publication -----------------------------
(***************************************************************************)
(* The document of an experiment and its way into production               *)
(* (evolution/app/experiments/release.py, repo.py, api.py): a candidate    *)
(* that passed its review is promoted, confirmed by the executor, restored *)
(* on request, and what an interrupted operation did is found out from     *)
(* the version in production.                                              *)
(*                                                                         *)
(* The platform is here what Release shows it to be, a register of         *)
(* versions of which the newest is in production, counted from the one in  *)
(* production when the experiment was made; the executor may have loaded   *)
(* any of them.  A promotion the service no longer waits for may still be  *)
(* decided.                                                                *)
(***************************************************************************)
EXTENDS Integers, Sequences, FiniteSets

CONSTANTS
  Packages,      \* the samples of one phase
  MaxRounds,     \* rounds of improvement
  MaxVersions,   \* others release only up to this version
  MaxOrders,     \* promotions and restores sent to the platform
  MaxFaults      \* calls without an answer, failed evaluations, interruptions

ASSUME PublicationAssumption ==
  /\ MaxRounds \in Nat \ {0} /\ MaxVersions \in Nat \ {0}
  /\ MaxOrders \in Nat /\ MaxFaults \in Nat

VARIABLES
  doc,        \* the experiment as stored
  versions,   \* the commits of the platform's versions
  orders,     \* the promotions and restores that were sent
  lock,       \* who has the run lock across calls, and where it is
  detail,     \* a reader of the experiment who looked at production
  faults

platform == <<versions, orders>>
pubVars == <<doc, platform, lock, detail, faults>>

Commits == {"base", "cand", "other"}
Phases == {"baseline", "evolving", "exploration", "regression", "validation",
           "review", "publish"}
Active == {"pending", "running", "recovering", "stopping"}
Ended == {"stopped", "exhausted", "validation_failed", "failed"}
Statuses == Active \cup Ended \cup {"awaiting_review", "publishing", "publish_failed",
                                    "activated", "restored", "stale"}
SampleStatuses == {"pending", "running", "interrupted", "scoring", "evaluation_error",
                   "completed", "failed", "stopped"}

Free == [by |-> "nobody", at |-> "none", version |-> 0, restoring |-> FALSE]

-----------------------------------------------------------------------------
(* The platform.                                                            *)
Original == 1
Current == Len(versions)
InProduction == versions[Current]

Sent == Len(orders)

(* A promotion names the version the experiment began with.                 *)
Expected == Original

Order(what, expect) ==
  [what |-> what, expect |-> expect, state |-> "open", version |-> 0]

(* Mutant of Passes: the commits are compared, not the versions.            *)
PassesCommit(o) == versions[o.expect] = InProduction

(* Mutant of Passes: a restore is not compared with production.             *)
PassesRestore(o) == o.what = "restore" \/ o.expect = Current

(* The compare-and-set of the register.                                     *)
Passes(o) == o.expect = Current

Decide(i) ==
  /\ orders[i].state = "open"
  /\ \/ /\ Passes(orders[i])
        /\ versions' = Append(versions, IF orders[i].what = "promote" THEN "cand" ELSE "base")
        /\ orders' = [orders EXCEPT ![i].state = "applied", ![i].version = Current + 1]
     \/ /\ ~Passes(orders[i])
        /\ orders' = [orders EXCEPT ![i].state = "refused"] /\ UNCHANGED versions
     \/ /\ orders' = [orders EXCEPT ![i].state = "failed"] /\ UNCHANGED versions
  /\ UNCHANGED <<doc, lock, detail, faults>>

(* Somebody else releases a commit, perhaps this candidate.                 *)
Rival ==
  /\ Current < MaxVersions
  /\ \E c \in Commits : versions' = Append(versions, c)
  /\ UNCHANGED <<doc, orders, lock, detail, faults>>

(* A call that gets no answer, or fails for a passing reason.               *)
Fault == faults < MaxFaults /\ faults' = faults + 1

-----------------------------------------------------------------------------
(* repo.put_run.                                                            *)

(* Mutant of Merged: the document is written as the writer has it.          *)
MergedNot(d) == d

(* A stop that was recorded is kept against whoever did not know of it.     *)
Merged(d) ==
  IF doc.status \in {"stopping", "stopped"} /\ d.status \notin {"stopping", "stopped"}
    THEN [d EXCEPT !.status = doc.status, !.phase = doc.phase] ELSE d

Put(d) == doc' = Merged(d)

Take(by, at, version, restoring) ==
  lock' = [by |-> by, at |-> at, version |-> version, restoring |-> restoring]

(* Mutant of Done: the lock is not given back.                              *)
DoneKept == UNCHANGED lock

Done == lock' = Free

Same == UNCHANGED <<versions, orders, detail, faults>>

-----------------------------------------------------------------------------
(* _recover_locked, and what follows it.                                    *)
NeedsRecovery(d) ==
  \/ d.status = "publishing"
  \/ d.rollback = "restoring"
  \/ d.status = "publish_failed" /\ d.pub = "unconfirmed" /\ d.published # 0

Restoring(d) == d.rollback \in {"restoring", "failed"} \/ d.restored # 0
Authorized(d) == d.passed /\ d.best # 0 /\ d.approved

NotPromoted(d) == [d EXCEPT !.status = "publish_failed", !.pub = "failed"]
NotRestored(d) == [d EXCEPT !.rollback = "failed"]
Overtaken(d) == [d EXCEPT !.status = "stale", !.pub = "failed"]

(* Mutant of Claimed: any new version is taken for the candidate.           *)
ClaimedAny == Current # Original

(* The candidate is in production, by a promotion nobody saw the end of.    *)
Claimed == InProduction = "cand" /\ Current # Original

Recover(by) ==
  \/ /\ Restoring(doc) /\ doc.asked /\ doc.restored = Current
     /\ Take(by, "confirm", Current, TRUE) /\ UNCHANGED doc
  \/ /\ Restoring(doc) /\ doc.asked /\ doc.restored # Current
     /\ InProduction = "base" /\ Current > doc.published
     /\ Put([doc EXCEPT !.restored = Current]) /\ Take(by, "confirm", Current, TRUE)
  \/ /\ ~Restoring(doc) /\ Authorized(doc) /\ doc.published = Current
     /\ Take(by, "confirm", Current, FALSE) /\ UNCHANGED doc
  \/ /\ ~Restoring(doc) /\ Authorized(doc) /\ doc.published # Current /\ Claimed
     /\ Put([doc EXCEPT !.published = Current]) /\ Take(by, "confirm", Current, FALSE)

(* Nothing of the operation is in production.                               *)
NotFound ==
  IF Restoring(doc)
    THEN ~(/\ doc.asked
           /\ doc.restored = Current \/ (InProduction = "base" /\ Current > doc.published))
    ELSE ~(Authorized(doc) /\ (doc.published = Current \/ Claimed))

(* Then the document says so.                                               *)
Given(d) ==
  IF Restoring(d) THEN NotRestored(d)
  ELSE IF ~Authorized(d) \/ Current = Original THEN NotPromoted(d)
  ELSE Overtaken(d)

-----------------------------------------------------------------------------
(* publish_run.                                                             *)
Publishable ==
  /\ lock = Free
  /\ doc.status \in {"awaiting_review", "publish_failed", "publishing"}
  /\ doc.passed /\ doc.best # 0

(* Something was sent before, and its end is not known.                     *)
Interrupted ==
  /\ doc.published = 0
  /\ doc.status = "publishing" \/ (doc.status = "publish_failed" /\ doc.approved)

Promote(d) ==
  /\ Sent < MaxOrders
  /\ Put([d EXCEPT !.status = "publishing", !.phase = "publish", !.pub = "publishing",
                   !.approved = TRUE])
  /\ orders' = Append(orders, Order("promote", Expected))
  /\ Take("api", "promote", 0, FALSE)
  /\ UNCHANGED <<versions, detail, faults>>

PublishFirst ==
  /\ Publishable /\ ~Interrupted /\ doc.published = 0
  /\ \/ Current = Original /\ Promote(doc)
     \/ Current # Original /\ Put([doc EXCEPT !.status = "stale"]) /\ UNCHANGED lock /\ Same

PublishAgain ==
  /\ Publishable /\ Interrupted
  /\ \/ Recover("api") /\ Same
     \/ NotFound /\ Given(doc).status = "publish_failed" /\ Promote(Given(doc))
     \/ /\ NotFound /\ Given(doc).status # "publish_failed"
        /\ Put(Given(doc)) /\ UNCHANGED lock /\ Same

PublishRecorded ==
  /\ Publishable /\ doc.published # 0
  /\ \/ doc.published = Current /\ Take("api", "confirm", Current, FALSE) /\ UNCHANGED doc
     \/ doc.published # Current /\ Put([doc EXCEPT !.status = "stale"]) /\ UNCHANGED lock
  /\ Same

(* What was sent last, by the request that has the lock.                    *)
Answer == orders[Sent]

Promoted ==
  /\ lock.at = "promote" /\ Answer.state = "applied"
  /\ Put([doc EXCEPT !.published = Answer.version])
  /\ Take("api", "confirm", Answer.version, FALSE) /\ Same

(* The call raises: refused, failed, or no answer came.                     *)
PromoteRaises ==
  /\ lock.at = "promote"
  /\ \/ Answer.state \in {"refused", "failed"} /\ UNCHANGED faults
     \/ Fault
  /\ Take("api", "ask", 0, FALSE)
  /\ UNCHANGED <<doc, platform, detail>>

Ask ==
  /\ lock.at = "ask" /\ Done
  /\ \/ /\ Put(IF Claimed THEN NotPromoted([doc EXCEPT !.published = Current])
               ELSE IF Current # Original THEN Overtaken(doc) ELSE NotPromoted(doc))
        /\ UNCHANGED faults
     \/ Fault /\ Put(NotPromoted(doc))
  /\ UNCHANGED <<platform, detail>>

(* _confirm: the executor is asked what it has loaded; that is the version,  *)
(* another one, or there is no answer.                                      *)
Confirm ==
  /\ lock.at = "confirm" /\ Done
  /\ LET sure == [doc EXCEPT
           !.status = IF lock.restoring THEN "restored" ELSE "activated",
           !.pub = IF lock.restoring THEN "restored" ELSE "activated",
           !.rollback = IF lock.restoring THEN "restored" ELSE @]
         unsure == [doc EXCEPT !.status = "publish_failed", !.pub = "unconfirmed",
           !.rollback = IF lock.restoring THEN "failed" ELSE @]
     IN Put(sure) \/ Put(unsure)
  /\ Same

-----------------------------------------------------------------------------
(* restore_run.                                                             *)
Restorable(d) == d.status \in {"publish_failed", "activated"} /\ d.published # 0

Restore(d) ==
  /\ Restorable(d) /\ Sent < MaxOrders
  /\ Put([d EXCEPT !.rollback = "restoring", !.asked = TRUE])
  /\ orders' = Append(orders, Order("restore", d.published))
  /\ Take("api", "restore", 0, TRUE)
  /\ UNCHANGED <<versions, detail, faults>>

RestoreFirst == lock = Free /\ ~Restoring(doc) /\ Restore(doc)

RestoreAgain ==
  /\ lock = Free /\ Restoring(doc) /\ doc.rollback # "restored"
  /\ \/ Recover("api") /\ Same
     \/ NotFound /\ doc.restored = 0 /\ Restore(Given(doc))
     \/ /\ NotFound /\ (doc.restored # 0 \/ ~Restorable(doc))
        /\ Put(Given(doc)) /\ UNCHANGED lock /\ Same

Restored ==
  /\ lock.at = "restore" /\ Answer.state = "applied"
  /\ Put([doc EXCEPT !.restored = Answer.version])
  /\ Take("api", "confirm", Answer.version, TRUE) /\ Same

RestoreRaises ==
  /\ lock.at = "restore" /\ Done
  /\ \/ Answer.state \in {"refused", "failed"} /\ UNCHANGED faults
     \/ Fault
  /\ Put(NotRestored(doc))
  /\ UNCHANGED <<platform, detail>>

-----------------------------------------------------------------------------
(* run_detail reads the experiment without the lock, asks for the version   *)
(* in production, and writes what it read as stale.                         *)
DetailRead ==
  /\ detail = "none" /\ doc.status = "awaiting_review" /\ detail' = "read"
  /\ UNCHANGED <<doc, platform, lock, faults>>

DetailAsk ==
  /\ detail = "read"
  /\ detail' = IF Current = Original THEN "none" ELSE "stale"
  /\ UNCHANGED <<doc, platform, lock, faults>>

AsReviewed(d) ==
  [d EXCEPT !.phase = "review", !.pub = "not_started", !.approved = FALSE,
            !.published = 0, !.restored = 0, !.rollback = "none", !.asked = FALSE]

DetailWrite ==
  /\ detail = "stale" /\ lock = Free /\ detail' = "none"
  /\ Put([AsReviewed(doc) EXCEPT !.status = "stale"])
  /\ UNCHANGED <<platform, lock, faults>>

PlatformStep == Rival \/ \E i \in 1..Sent : Decide(i)

Request == PublishFirst \/ PublishAgain \/ PublishRecorded \/ RestoreFirst \/ RestoreAgain

CallStep == Promoted \/ PromoteRaises \/ Ask \/ Confirm \/ Restored \/ RestoreRaises

DetailStep == DetailRead \/ DetailAsk \/ DetailWrite

(* The process ends in the middle: the platform goes on.                    *)
PublicationLost == lock' = Free /\ detail' = "none" /\ UNCHANGED <<platform, faults>>

=============================================================================
