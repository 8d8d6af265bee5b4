---------------------------- MODULE ReleaseProofs ----------------------------
(***************************************************************************)
(* Theorems about releases, for any commits, requests, threads, attempts   *)
(* and restarts.                                                           *)
(*                                                                         *)
(* The invariant has one part for each of the four places the state is in: *)
(* the ledger, the requests, the threads and the loader.  A step that      *)
(* changes requests changes each of them in a way Evolves describes, except*)
(* for Apply, the only step that moves the pointer.                        *)
(***************************************************************************)
EXTENDS Release, TLAPS

Released == ToSet(versions)

RequestType(n) ==
  [at : RequestStates, commit : Commits \cup {None}, expect : 0..n,
   version : 0..n, tries : 0..NotifyAttempts, awaits : Threads \cup {None}]

ThreadType ==
  [at : {"idle", "ensure", "query", "clear", "load", "name", "report", "bind"},
   commit : Commits \cup {None}, notice : Requests \cup {None}]

(* The state of a request tells whether it was applied, and only a request  *)
(* that notifies waits for an answer.                                       *)
Recorded(q) ==
  /\ q.at = "unsent" => q = Unsent
  /\ q.at # "unsent" => q.commit \in Commits
  /\ q.at \in {"waiting", "probing", "changed", "rejected"} => q.version = 0
  /\ q.at \in {"notifying", "activated", "unconfirmed"} => q.version # 0
  /\ q.awaits # None => q.at = "notifying"

(* An applied request expected an older version than its own.               *)
Winner(q) == q.version # 0 => q.version <= production /\ q.expect < q.version

(* The holder of the lock notifies about what is in production.             *)
Notifying(q) ==
  q.at = "notifying" => production = q.version /\ q.commit \in Released

LedgerOK ==
  /\ versions \in Seq(Commits)
  /\ production \in 0..Len(versions)
  /\ faults \in 0..MaxFaults

RequestsOK ==
  /\ request \in [Requests -> RequestType(Len(versions))]
  /\ \A r \in Requests : Recorded(request[r]) /\ Winner(request[r]) /\ Notifying(request[r])
  /\ OneWinner
  /\ \A p, q \in InPromote : p = q

ThreadsOK ==
  /\ thread \in [Workers -> ThreadType]
  /\ \A t \in Workers :
       /\ thread[t].commit \in Released \cup {None}
       /\ thread[t].at = "report" => thread[t].notice \in Requests

ReleaseInv == LedgerOK /\ RequestsOK /\ ThreadsOK /\ OnlyReleased

-----------------------------------------------------------------------------
LEMMA ReleasedCommits == ASSUME LedgerOK PROVE Released \subseteq Commits
  BY DEF LedgerOK, Released, ToSet

LEMMA InvTypeOK == ReleaseInv => TypeOK
  BY ReleasedCommits DEF ReleaseInv, LedgerOK, RequestsOK, ThreadsOK, OnlyReleased, TypeOK,
     RequestType, ThreadType, Released

LEMMA InitInv == Init => ReleaseInv
<1> SUFFICES ASSUME Init PROVE ReleaseInv
  OBVIOUS
<1>1. PICK c \in Commits, d \in Commits : versions \in {<< >>, <<c>>, <<c, d>>}
  BY DEF Init
<1>2. versions \in Seq(Commits)
  <2>1. << >> \in Seq(Commits) /\ <<c>> \in Seq(Commits) /\ <<c, d>> \in Seq(Commits)
    OBVIOUS
  <2> QED BY ONLY <1>1, <2>1
<1>3. production \in 0..Len(versions)
  <2>1. CASE versions = << >>
    BY <2>1 DEF Init
  <2>2. CASE versions # << >>
    BY <1>2, <2>2 DEF Init
  <2> QED BY <2>1, <2>2
<1>4. LedgerOK
  BY <1>2, <1>3, BoundsAssumption DEF Init, LedgerOK
<1>5. request = [r \in Requests |-> Unsent] /\ thread = [t \in Workers |-> IdleThread]
  BY DEF Init
<1>6. Unsent \in RequestType(Len(versions))
  BY <1>2, BoundsAssumption DEF Unsent, Sent, RequestType, RequestStates
<1>7. IdleThread \in ThreadType
  BY DEF IdleThread, ThreadType
<1>8. RequestsOK
  BY <1>5, <1>6 DEF RequestsOK, Recorded, Winner, Notifying, OneWinner, InPromote, Unsent, Sent
<1>9. ThreadsOK
  BY <1>5, <1>7 DEF ThreadsOK, IdleThread
<1>10. OnlyReleased
  BY DEF Init, OnlyReleased
<1> QED BY <1>4, <1>8, <1>9, <1>10 DEF ReleaseInv

-----------------------------------------------------------------------------
(* How a step other than Apply may change a request.                        *)
Evolves(old, new) ==
  /\ new \in RequestType(Len(versions))
  /\ new.version = old.version
  /\ old.at # "unsent" => new.commit = old.commit /\ new.expect = old.expect
  /\ new.at = "notifying" => old.at = "notifying"
  /\ Recorded(new)

(* Who holds the lock keeps it, or it was free.                             *)
LockKept ==
  \/ InPromote' \subseteq InPromote
  \/ InPromote = {} /\ \E r \in Requests : InPromote' = {r}

LEMMA RequestsEvolve ==
  ASSUME LedgerOK, RequestsOK, UNCHANGED platformVars,
         request' = [r \in Requests |-> request'[r]],
         \A r \in Requests : Evolves(request[r], request'[r]),
         LockKept
  PROVE  RequestsOK'
<1> USE DEF RequestsOK
<1>1. versions' = versions /\ production' = production /\ Released' = Released
  BY DEF platformVars, Released
<1>2. (request \in [Requests -> RequestType(Len(versions))])'
  BY <1>1 DEF Evolves, RequestType
<1>3. \A r \in Requests : Recorded(request'[r])
  BY DEF Evolves
<1>4. ASSUME NEW r \in Requests
      PROVE  Winner(request[r])' /\ Notifying(request[r])'
  <2>1. request[r].at = "unsent" => request[r].version = 0
    BY DEF Recorded, Unsent, Sent
  <2>2. Evolves(request[r], request'[r]) /\ Recorded(request[r])
        /\ Winner(request[r]) /\ Notifying(request[r])
    OBVIOUS
  <2>3. Winner(request[r])'
    BY <1>1, <2>1, <2>2 DEF Evolves, Winner
  <2>4. Notifying(request[r])'
    BY <1>1, <2>2 DEF Evolves, Notifying
  <2> QED BY <2>3, <2>4
<1>5. OneWinner'
  <2>1. \A r \in Requests : request'[r].version # 0 =>
          request[r].version = request'[r].version /\ request[r].expect = request'[r].expect
    BY DEF Evolves, Recorded, Unsent, Sent
  <2> QED BY <2>1 DEF OneWinner
<1>6. \A p, q \in InPromote' : p = q
  BY DEF LockKept
<1>7. \A r \in Requests : Recorded(request[r])'
  BY <1>3 DEF Recorded
<1> QED BY <1>2, <1>4, <1>5, <1>6, <1>7

(* One request changes.                                                     *)
LEMMA RequestEvolves ==
  ASSUME LedgerOK, RequestsOK, UNCHANGED platformVars,
         NEW r \in Requests, NEW new,
         request' = [request EXCEPT ![r] = new],
         Evolves(request[r], new),
         new.at \in {"probing", "notifying"} =>
           InPromote = {} \/ request[r].at \in {"probing", "notifying"}
  PROVE  RequestsOK'
<1>1. request' = [p \in Requests |-> IF p = r THEN new ELSE request[p]]
  BY DEF RequestsOK
<1>2. \A p \in Requests : Evolves(request[p], request'[p])
  BY <1>1 DEF RequestsOK, Evolves, Notifying
<1>3. LockKept
  BY <1>1 DEF LockKept, InPromote
<1> QED BY <1>1, <1>2, <1>3, RequestsEvolve

(* Nothing changes but one request.                                         *)
LEMMA OnlyRequest ==
  ASSUME ReleaseInv, UNCHANGED <<platformVars, thread, loaderVars, faults>>, RequestsOK'
  PROVE  ReleaseInv'
  BY DEF ReleaseInv, LedgerOK, ThreadsOK, OnlyReleased, Released, platformVars, loaderVars

-----------------------------------------------------------------------------
LEMMA AskStep ==
  ASSUME ReleaseInv, NEW r \in Requests, NEW c \in Commits, NEW e \in {0, production},
         Promote(r, c, e) \/ Restore(r, c, e)
  PROVE  ReleaseInv'
<1> USE DEF ReleaseInv
<1>1. PICK answer \in {"waiting", "rejected"} : Send(r, c, e, answer)
  BY DEF Promote, Restore
<1> DEFINE new == Sent(c, e, answer)
<1>2. new = [at |-> answer, commit |-> c, expect |-> e, version |-> 0, tries |-> 0,
             awaits |-> None]
  BY DEF Sent
<1>3. request[r].version = 0 /\ request[r].at = "unsent"
  BY <1>1 DEF Send, RequestsOK, Recorded, Unsent, Sent
<1>4. new \in RequestType(Len(versions))
  <2>1. e \in 0..Len(versions) /\ 0 \in 0..Len(versions) /\ 0 \in 0..NotifyAttempts
    BY BoundsAssumption DEF LedgerOK
  <2>2. answer \in RequestStates
    BY DEF RequestStates
  <2> QED BY <1>2, <2>1, <2>2 DEF RequestType
<1>5. Recorded(new)
  BY <1>2 DEF Recorded
<1>6. Evolves(request[r], new)
  BY <1>2, <1>3, <1>4, <1>5 DEF Evolves
<1>7. request' = [request EXCEPT ![r] = new] /\ UNCHANGED <<platformVars, thread, loaderVars, faults>>
  BY <1>1 DEF Send
<1>8. new.at \notin {"probing", "notifying"}
  BY <1>2
<1> HIDE DEF new
<1>9. RequestsOK'
  BY <1>6, <1>7, <1>8, RequestEvolves
<1> QED BY <1>7, <1>9, OnlyRequest

(* The steps that change the state of a request and nothing else.           *)
LEMMA AnswerStep ==
  ASSUME ReleaseInv, NEW r \in Requests,
         Begin(r) \/ Reject(r) \/ GiveUp(r) \/ (Apply(r) /\ ~ Expected(r))
  PROVE  ReleaseInv'
<1> USE DEF ReleaseInv
<1>1. PICK answer \in {"probing", "changed", "rejected", "unconfirmed"} :
        /\ Answer(r, answer)
        /\ answer = "probing" => InPromote = {}
        /\ answer # "unconfirmed" => request[r].at \in {"waiting", "probing"}
        /\ answer = "unconfirmed" => request[r].at = "notifying"
        /\ request[r].awaits = None
  <2>1. Recorded(request[r])
    BY DEF RequestsOK
  <2> QED BY <2>1 DEF Begin, Reject, GiveUp, Apply, LockFree, Recorded
<1>2. UNCHANGED <<platformVars, thread, loaderVars, faults>>
  BY DEF Begin, Reject, GiveUp, Apply
<1> DEFINE new == [request[r] EXCEPT !.at = answer]
<1>3. request[r] \in RequestType(Len(versions)) /\ Recorded(request[r])
  BY DEF RequestsOK
<1>4. new = [at |-> answer, commit |-> request[r].commit, expect |-> request[r].expect,
             version |-> request[r].version, tries |-> request[r].tries,
             awaits |-> request[r].awaits]
  BY <1>3 DEF RequestType
<1>5. new \in RequestType(Len(versions))
  BY <1>3, <1>4 DEF RequestType, RequestStates
<1>6. Recorded(new)
  BY <1>1, <1>3, <1>4 DEF Recorded
<1>7. Evolves(request[r], new)
  BY <1>1, <1>4, <1>5, <1>6 DEF Evolves
<1>8. request' = [request EXCEPT ![r] = new]
  BY <1>1 DEF Answer
<1>9. new.at \in {"probing", "notifying"} => InPromote = {}
  BY <1>1, <1>4
<1> HIDE DEF new
<1>10. RequestsOK'
  BY <1>2, <1>7, <1>8, <1>9, RequestEvolves
<1> QED BY <1>2, <1>10, OnlyRequest

(* The steps that change how often was tried, and who waits for what.       *)
LEMMA AttemptStep ==
  ASSUME ReleaseInv, NEW r \in Requests, NEW n \in 0..NotifyAttempts, NEW w \in Threads \cup {None},
         request' = [request EXCEPT ![r].tries = n, ![r].awaits = w],
         request[r].at = "notifying",
         UNCHANGED platformVars
  PROVE  RequestsOK'
<1> USE DEF ReleaseInv
<1>1. request[r] \in RequestType(Len(versions)) /\ Recorded(request[r])
  BY DEF RequestsOK
<1> DEFINE old == request[r]
           new == [at |-> old.at, commit |-> old.commit, expect |-> old.expect,
                   version |-> old.version, tries |-> n, awaits |-> w]
           some == [request EXCEPT ![r].tries = n]
<1>2. some[r] = [at |-> old.at, commit |-> old.commit, expect |-> old.expect,
                 version |-> old.version, tries |-> n, awaits |-> old.awaits]
  BY <1>1 DEF RequestsOK, RequestType
<1>3. some = [request EXCEPT ![r] = some[r]]
  BY DEF RequestsOK
<1>4. [some EXCEPT ![r].awaits = w] = [request EXCEPT ![r] = new]
  <2>1. [some[r] EXCEPT !.awaits = w] = new
    BY <1>2
  <2> HIDE DEF new
  <2> QED BY <2>1 DEF RequestsOK
<1>5. request' = [request EXCEPT ![r] = new]
  BY <1>4
<1>6. new \in RequestType(Len(versions))
  BY <1>1 DEF RequestType
<1>7. Recorded(new)
  BY <1>1 DEF Recorded
<1>8. Evolves(request[r], new)
  BY <1>6, <1>7 DEF Evolves
<1> HIDE DEF new
<1> QED BY <1>5, <1>8, RequestEvolves

(* Some requests stop waiting for an answer.                                *)
LEMMA DropStep ==
  ASSUME ReleaseInv, UNCHANGED platformVars, NEW S \in SUBSET Requests,
         request' = [p \in Requests |->
           IF p \in S THEN [request[p] EXCEPT !.awaits = None] ELSE request[p]]
  PROVE  RequestsOK'
<1> USE DEF ReleaseInv
<1>1. request' = [p \in Requests |-> request'[p]]
  OBVIOUS
<1>2. ASSUME NEW p \in Requests
      PROVE  Evolves(request[p], request'[p]) /\ request'[p].at = request[p].at
  <2> DEFINE old == request[p]
             new == [old EXCEPT !.awaits = None]
  <2>1. old \in RequestType(Len(versions)) /\ Recorded(old)
    BY DEF RequestsOK
  <2>2. new = [at |-> old.at, commit |-> old.commit, expect |-> old.expect,
               version |-> old.version, tries |-> old.tries, awaits |-> None]
    BY <2>1 DEF RequestType
  <2>3. new \in RequestType(Len(versions))
    BY <2>1, <2>2 DEF RequestType
  <2>4. Recorded(new)
    BY <2>1, <2>2 DEF Recorded, Unsent, Sent
  <2>5. Evolves(old, new)
    BY <2>2, <2>3, <2>4 DEF Evolves
  <2>6. Evolves(old, old)
    BY <2>1 DEF Evolves
  <2> QED BY <2>2, <2>5, <2>6
<1>3. InPromote' = InPromote
  BY <1>2 DEF InPromote
<1> QED BY <1>1, <1>2, <1>3, RequestsEvolve DEF LockKept

(* One thread changes.                                                      *)
LEMMA ThreadChanges ==
  ASSUME ThreadsOK, UNCHANGED platformVars, NEW t \in Workers, NEW new \in ThreadType,
         thread' = [thread EXCEPT ![t] = new],
         new.commit \in Released \cup {None},
         new.at = "report" => new.notice \in Requests
  PROVE  ThreadsOK'
  BY DEF ThreadsOK, Released, platformVars

LEMMA IdleIsFine ==
  IdleThread \in ThreadType /\ IdleThread.commit = None /\ IdleThread.at = "idle"
  BY DEF IdleThread, ThreadType

LEMMA ProductionReleased ==
  ASSUME LedgerOK PROVE production # 0 => ProductionCommit \in Released
  BY DEF LedgerOK, ProductionCommit, Released, ToSet

-----------------------------------------------------------------------------
LEMMA ApplyStep ==
  ASSUME ReleaseInv, NEW r \in Requests, Apply(r), Expected(r)
  PROVE  ReleaseInv'
<1> USE DEF ReleaseInv
<1> DEFINE n == Len(versions) + 1
<1>1. /\ request[r].at = "probing"
      /\ versions' = Append(versions, request[r].commit)
      /\ production' = n
      /\ request' = [request EXCEPT ![r].at = "notifying", ![r].version = n]
      /\ UNCHANGED <<thread, loaderVars, faults>>
  BY DEF Apply, NextVersion
<1>2. request[r] \in RequestType(Len(versions)) /\ Recorded(request[r])
  BY DEF RequestsOK
<1>3. request[r].commit \in Commits /\ request[r].version = 0 /\ request[r].awaits = None
  BY <1>1, <1>2 DEF Recorded
<1>4. /\ versions' \in Seq(Commits) /\ Len(versions') = n
      /\ \A i \in 1..Len(versions) : versions'[i] = versions[i]
      /\ versions'[n] = request[r].commit
      /\ Len(versions) \in Nat
  BY <1>1, <1>3 DEF LedgerOK
<1>5. LedgerOK'
  BY <1>1, <1>4 DEF LedgerOK
<1>6. Released \subseteq Released' /\ request[r].commit \in Released'
  BY <1>4 DEF Released, ToSet, LedgerOK
<1>7. ThreadsOK' /\ OnlyReleased'
  BY <1>1, <1>6 DEF ThreadsOK, OnlyReleased, loaderVars, Released
<1> DEFINE old == request[r]
           new == [at |-> "notifying", commit |-> old.commit, expect |-> old.expect,
                   version |-> n, tries |-> old.tries, awaits |-> None]
           some == [request EXCEPT ![r].at = "notifying"]
<1>8. some[r] = [at |-> "notifying", commit |-> old.commit, expect |-> old.expect,
                 version |-> old.version, tries |-> old.tries, awaits |-> old.awaits]
  BY <1>2 DEF RequestsOK, RequestType
<1>9. request' = [request EXCEPT ![r] = new]
  <2>1. [some[r] EXCEPT !.version = n] = new
    BY <1>3, <1>8
  <2> HIDE DEF new, n
  <2> QED BY <1>1, <2>1 DEF RequestsOK
<1>10. new \in RequestType(n)
  BY <1>2, <1>4 DEF RequestType, RequestStates
<1>11. Recorded(new)
  BY <1>3, <1>4 DEF Recorded
<1>12. \A p \in Requests \ {r} : request'[p] = request[p]
  BY <1>9 DEF RequestsOK
<1>13. request'[r] = new
  BY <1>9 DEF RequestsOK
<1>14. /\ new.at = "notifying" /\ new.version = n /\ new.expect = old.expect
       /\ new.commit = old.commit
  OBVIOUS
<1>15. RequestType(Len(versions)) \subseteq RequestType(n)
  BY <1>4 DEF RequestType
<1> HIDE DEF new
<1>16. (request \in [Requests -> RequestType(Len(versions))])'
  <2>1. request' \in [Requests -> RequestType(n)]
    BY <1>9, <1>10, <1>15 DEF RequestsOK
  <2> QED BY <1>4, <2>1 DEF RequestType
<1>17. \A p \in InPromote : p = r
  BY <1>1 DEF RequestsOK, InPromote
<1>18. \A p \in InPromote' : p = r
  BY <1>12, <1>17 DEF InPromote
<1>19. \A p \in Requests : Recorded(request[p])'
  BY <1>11, <1>12, <1>13 DEF RequestsOK, Recorded
<1>20. old.expect < n /\ old.expect \in {0, production}
  BY <1>2, <1>4 DEF RequestType, Expected
<1>21. \A p \in Requests : Winner(request[p])'
  <2>1. Winner(request[r])'
    BY <1>1, <1>4, <1>13, <1>14, <1>20 DEF Winner
  <2>2. ASSUME NEW p \in Requests \ {r} PROVE Winner(request[p])'
    <3>1. Winner(request[p]) /\ request[p] \in RequestType(Len(versions))
      BY DEF RequestsOK
    <3>2. request[p].version \in Nat /\ production \in Nat /\ production <= Len(versions)
      BY <1>4, <3>1 DEF RequestType, LedgerOK
    <3>3. request'[p] = request[p] /\ production' = Len(versions) + 1
      BY <1>1, <1>12
    <3> QED BY <1>4, <3>1, <3>2, <3>3 DEF Winner
  <2> QED BY <2>1, <2>2
<1>22. \A p \in Requests : Notifying(request[p])'
  BY <1>1, <1>6, <1>13, <1>14, <1>18 DEF Notifying, InPromote
<1>23. OneWinner'
  <2>1. ASSUME NEW p \in Requests \ {r}, request[p].version # 0
        PROVE  old.expect = 0 \/ old.expect # request[p].expect
    <3>1. Winner(request[p]) /\ request[p] \in RequestType(Len(versions))
      BY DEF RequestsOK
    <3> QED BY <1>20, <2>1, <3>1 DEF Winner, RequestType, LedgerOK
  <2>2. ASSUME NEW p \in Requests \ {r}, NEW q \in Requests \ {r}, p # q,
               request'[p].version # 0, request'[q].version # 0
        PROVE  request'[p].expect = 0 \/ request'[p].expect # request'[q].expect
    BY <1>12, <2>2 DEF RequestsOK, OneWinner
  <2> QED BY <1>12, <1>13, <1>14, <2>1, <2>2 DEF OneWinner
<1> QED BY <1>5, <1>7, <1>16, <1>18, <1>19, <1>21, <1>22, <1>23 DEF RequestsOK

-----------------------------------------------------------------------------
(* The notification and the answer to it.                                   *)
LEMMA NotifyStep ==
  ASSUME ReleaseInv, NEW r \in Requests, NEW t \in Threads, Notify(r, t)
  PROVE  ReleaseInv'
<1> USE DEF ReleaseInv
<1> DEFINE new == [at |-> "ensure", commit |-> request[r].commit, notice |-> r]
           n == request[r].tries + 1
<1>1. /\ request' = [request EXCEPT ![r].tries = n, ![r].awaits = t]
      /\ thread' = [thread EXCEPT ![t] = new]
      /\ request[r].at = "notifying"
      /\ request[r].tries < NotifyAttempts
      /\ UNCHANGED <<platformVars, loaderVars, faults>>
  BY DEF Notify, CanNotify
<1>2. request[r] \in RequestType(Len(versions)) /\ Recorded(request[r]) /\ Notifying(request[r])
  BY DEF RequestsOK
<1>3. n \in 0..NotifyAttempts
  BY <1>1, <1>2, BoundsAssumption DEF RequestType
<1>4. new \in ThreadType /\ new.commit \in Released
  BY <1>1, <1>2 DEF ThreadType, RequestType, Notifying
<1>5. new.at # "report"
  OBVIOUS
<1> HIDE DEF new, n
<1>6. RequestsOK'
  BY <1>1, <1>3, AttemptStep
<1>7. ThreadsOK'
  BY <1>1, <1>4, <1>5, ThreadChanges DEF Workers
<1> QED BY <1>1, <1>6, <1>7 DEF LedgerOK, OnlyReleased, Released, platformVars, loaderVars

LEMMA NotifyFailsStep ==
  ASSUME ReleaseInv, NEW r \in Requests, NotifyFails(r)
  PROVE  ReleaseInv'
<1> USE DEF ReleaseInv
<1> DEFINE n == request[r].tries + 1
<1>1. /\ request' = [request EXCEPT ![r].tries = n]
      /\ request[r].at = "notifying" /\ request[r].awaits = None
      /\ request[r].tries < NotifyAttempts
      /\ UNCHANGED <<platformVars, thread, loaderVars, faults>>
  BY DEF NotifyFails, CanNotify
<1>2. request[r] \in RequestType(Len(versions)) /\ Recorded(request[r])
  BY DEF RequestsOK
<1>3. n \in 0..NotifyAttempts
  BY <1>1, <1>2, BoundsAssumption DEF RequestType
<1>4. request' = [request EXCEPT ![r].tries = n, ![r].awaits = None]
  <2>1. request' \in [Requests -> RequestType(Len(versions))] /\ request'[r].awaits = None
    BY <1>1, <1>2, <1>3 DEF RequestsOK, RequestType
  <2>2. [request'[r] EXCEPT !.awaits = None] = request'[r]
    BY <2>1 DEF RequestType
  <2> QED BY <1>1, <2>1, <2>2
<1> HIDE DEF n
<1>5. RequestsOK'
  BY <1>1, <1>3, <1>4, AttemptStep
<1> QED BY <1>1, <1>5, OnlyRequest

LEMMA TimeoutStep ==
  ASSUME ReleaseInv, NEW r \in Requests, Timeout(r)
  PROVE  ReleaseInv'
<1> USE DEF ReleaseInv
<1>1. request' = [p \in Requests |->
        IF p \in {r} THEN [request[p] EXCEPT !.awaits = None] ELSE request[p]]
  BY DEF Timeout, RequestsOK
<1>2. UNCHANGED <<platformVars, thread, loaderVars, faults>>
  BY DEF Timeout
<1>3. RequestsOK'
  BY <1>1, <1>2, DropStep
<1> QED BY <1>2, <1>3, OnlyRequest

LEMMA NoAnswerStep ==
  ASSUME ReleaseInv, UNCHANGED platformVars, NEW t \in Workers, NoAnswer(t)
  PROVE  RequestsOK'
<1> DEFINE S == {r \in Requests : request[r].awaits = t}
<1>1. request' = [p \in Requests |->
        IF p \in S THEN [request[p] EXCEPT !.awaits = None] ELSE request[p]]
  BY DEF NoAnswer
<1> QED BY <1>1, DropStep

(* The answer that confirms a release is given to the holder of the lock.   *)
LEMMA ConfirmStep ==
  ASSUME ReleaseInv, UNCHANGED platformVars, NEW r \in Requests,
         request[r].awaits # None,
         request' = [request EXCEPT ![r].at = "activated", ![r].awaits = None]
  PROVE  RequestsOK'
<1> USE DEF ReleaseInv
<1>1. request[r] \in RequestType(Len(versions)) /\ Recorded(request[r])
  BY DEF RequestsOK
<1> DEFINE old == request[r]
           new == [at |-> "activated", commit |-> old.commit, expect |-> old.expect,
                   version |-> old.version, tries |-> old.tries, awaits |-> None]
           some == [request EXCEPT ![r].at = "activated"]
<1>2. some[r] = [at |-> "activated", commit |-> old.commit, expect |-> old.expect,
                 version |-> old.version, tries |-> old.tries, awaits |-> old.awaits]
  BY <1>1 DEF RequestsOK, RequestType
<1>3. request' = [request EXCEPT ![r] = new]
  <2>1. [some[r] EXCEPT !.awaits = None] = new
    BY <1>2
  <2> HIDE DEF new
  <2> QED BY <2>1 DEF RequestsOK
<1>4. new \in RequestType(Len(versions))
  BY <1>1 DEF RequestType, RequestStates
<1>5. Recorded(new) /\ old.at = "notifying"
  BY <1>1 DEF Recorded
<1>6. Evolves(request[r], new)
  BY <1>4, <1>5 DEF Evolves
<1>7. new.at = "activated"
  OBVIOUS
<1> HIDE DEF new
<1> QED BY <1>3, <1>6, <1>7, RequestEvolves

-----------------------------------------------------------------------------
LEMMA FaultType == ASSUME LedgerOK, Fault PROVE faults' \in 0..MaxFaults
  BY BoundsAssumption DEF LedgerOK, Fault

(* A restart of the platform: every request inside it is lost.              *)
LEMMA PlatformRestartStep ==
  ASSUME ReleaseInv, PlatformRestart
  PROVE  ReleaseInv'
<1> USE DEF ReleaseInv
<1> DEFINE lost(p) == request[p].at \in {"waiting", "probing", "notifying"}
<1>1. request' = [p \in Requests |->
        IF lost(p) THEN [request[p] EXCEPT !.at = "gone", !.awaits = None] ELSE request[p]]
  BY DEF PlatformRestart
<1>2. UNCHANGED <<platformVars, thread, loaderVars>> /\ faults' \in 0..MaxFaults
  BY FaultType DEF PlatformRestart
<1>3. ASSUME NEW p \in Requests
      PROVE  /\ Evolves(request[p], request'[p])
             /\ request'[p].at \notin {"probing", "notifying"}
  <2> DEFINE old == request[p]
             some == [old EXCEPT !.at = "gone"]
             new == [old EXCEPT !.at = "gone", !.awaits = None]
  <2>1. old \in RequestType(Len(versions)) /\ Recorded(old)
    BY DEF RequestsOK
  <2>2. some = [at |-> "gone", commit |-> old.commit, expect |-> old.expect,
                version |-> old.version, tries |-> old.tries, awaits |-> old.awaits]
    BY <2>1 DEF RequestType
  <2>3. new = [at |-> "gone", commit |-> old.commit, expect |-> old.expect,
               version |-> old.version, tries |-> old.tries, awaits |-> None]
    <3>1. [some EXCEPT !.awaits = None] = new
      BY ONLY DEF some, new
    <3> HIDE DEF some, new
    <3> QED BY <2>2, <3>1
  <2>4. new \in RequestType(Len(versions))
    BY <2>1, <2>3 DEF RequestType, RequestStates
  <2>5. lost(p) => Recorded(new)
    BY <2>1, <2>3 DEF Recorded
  <2>6. lost(p) => Evolves(old, new)
    BY <2>3, <2>4, <2>5 DEF Evolves
  <2>7. ~ lost(p) => Evolves(old, old)
    BY <2>1 DEF Evolves
  <2>8. request'[p] = IF lost(p) THEN new ELSE old
    BY <1>1
  <2> QED BY <2>3, <2>6, <2>7, <2>8
<1>4. InPromote' = {}
  BY <1>3 DEF InPromote
<1>5. request' = [p \in Requests |-> request'[p]]
  BY <1>1
<1>6. RequestsOK'
  BY <1>2, <1>3, <1>4, <1>5, RequestsEvolve DEF LockKept
<1> QED BY <1>2, <1>6 DEF LedgerOK, ThreadsOK, OnlyReleased, Released, platformVars, loaderVars

LEMMA ExecutorRestartStep ==
  ASSUME ReleaseInv, ExecutorRestart
  PROVE  ReleaseInv'
<1> USE DEF ReleaseInv
<1>1. request' = [p \in Requests |->
        IF p \in Requests THEN [request[p] EXCEPT !.awaits = None] ELSE request[p]]
  BY DEF ExecutorRestart
<1>2. /\ UNCHANGED <<platformVars, known>> /\ faults' \in 0..MaxFaults
      /\ package' = None /\ named' = None
      /\ thread' = [t \in Workers |-> IdleThread]
  BY FaultType DEF ExecutorRestart
<1>3. RequestsOK'
  BY <1>1, <1>2, DropStep
<1>4. ThreadsOK'
  BY <1>2, IdleIsFine DEF ThreadsOK
<1>5. LedgerOK' /\ OnlyReleased'
  BY <1>2 DEF LedgerOK, OnlyReleased, platformVars
<1> QED BY <1>3, <1>4, <1>5

-----------------------------------------------------------------------------
(* A thread goes on or ends.                                                *)
LEMMA ThreadMoves ==
  ASSUME ThreadsOK, UNCHANGED platformVars, NEW t \in Workers,
         NEW to \in {"clear", "load", "name"},
         thread' = [thread EXCEPT ![t].at = to]
  PROVE  ThreadsOK'
<1> DEFINE new == [thread[t] EXCEPT !.at = to]
<1>1. thread[t] \in ThreadType /\ thread[t].commit \in Released \cup {None}
  BY DEF ThreadsOK
<1>2. new = [at |-> to, commit |-> thread[t].commit, notice |-> thread[t].notice]
  BY <1>1 DEF ThreadType
<1>3. new \in ThreadType
  BY <1>1, <1>2 DEF ThreadType
<1>4. thread' = [thread EXCEPT ![t] = new]
  OBVIOUS
<1>5. new.at # "report" /\ new.commit = thread[t].commit
  BY <1>2
<1> HIDE DEF new
<1> QED BY <1>1, <1>3, <1>4, <1>5, ThreadChanges

LEMMA ThreadEnds ==
  ASSUME ThreadsOK, UNCHANGED platformVars, NEW t \in Workers,
         thread' = [thread EXCEPT ![t] = IdleThread]
  PROVE  ThreadsOK'
  BY IdleIsFine, ThreadChanges

(* A thread starts something that is no notice.                             *)
LEMMA ThreadStarts ==
  ASSUME ThreadsOK, LedgerOK, UNCHANGED platformVars, NEW t \in Workers,
         NEW at \in {"load", "query", "clear", "bind"}, NEW c \in Released \cup {None},
         Occupy(t, at, c)
  PROVE  ThreadsOK'
<1> DEFINE new == [at |-> at, commit |-> c, notice |-> None]
<1>1. new \in ThreadType
  BY ReleasedCommits DEF ThreadType
<1>2. thread' = [thread EXCEPT ![t] = new] /\ new.commit = c /\ new.at # "report"
  BY DEF Occupy
<1> HIDE DEF new
<1> QED BY <1>1, <1>2, ThreadChanges

LEMMA ProceedStep ==
  ASSUME ReleaseInv, NEW t \in Workers, Proceed(t)
  PROVE  ReleaseInv'
<1> USE DEF ReleaseInv
<1>1. UNCHANGED platformVars /\ LedgerOK' /\ Released' = Released
  BY DEF Proceed, Fails, Ensure, Clear, Load, Name, Report, Bound, LedgerOK, platformVars, Released
<1>2. thread[t] \in ThreadType /\ thread[t].commit \in Released \cup {None}
  BY DEF ThreadsOK
<1>3. UNCHANGED request => RequestsOK'
  BY <1>1 DEF RequestsOK, platformVars, RequestType, Recorded, Winner, Notifying, OneWinner,
     InPromote, Released
<1>4. CASE Fails(t)
  <2>1. RequestsOK' /\ ThreadsOK'
    BY <1>1, <1>4, NoAnswerStep, ThreadEnds DEF Fails
  <2> QED BY <1>1, <1>4, <2>1 DEF Fails, OnlyReleased, loaderVars, Released
<1>5. CASE Ensure(t) \/ Clear(t) \/ Load(t)
  <2>1. ThreadsOK' /\ UNCHANGED request
    BY <1>1, <1>5, ThreadMoves DEF Ensure, Clear, Load, Step
  <2>2. OnlyReleased'
    BY <1>1, <1>2, <1>5 DEF Ensure, Clear, Load, OnlyReleased, loaderVars, Released
  <2> QED BY <1>1, <1>3, <2>1, <2>2
<1>6. CASE Name(t)
  <2>1. OnlyReleased' /\ UNCHANGED request
    BY <1>1, <1>2, <1>6 DEF Name, OnlyReleased, Released
  <2>2. CASE thread[t].notice = None
    BY <1>1, <1>3, <1>6, <2>1, <2>2, ThreadEnds DEF Name
  <2>3. CASE thread[t].notice # None
    <3> DEFINE new == [thread[t] EXCEPT !.at = "report"]
    <3>1. new = [at |-> "report", commit |-> thread[t].commit, notice |-> thread[t].notice]
      BY <1>2 DEF ThreadType
    <3>2. new \in ThreadType /\ new.notice \in Requests /\ new.commit = thread[t].commit
      BY <1>2, <2>3, <3>1 DEF ThreadType
    <3>3. thread' = [thread EXCEPT ![t] = new]
      BY <1>6, <2>3 DEF Name
    <3> HIDE DEF new
    <3>4. ThreadsOK'
      BY <1>1, <1>2, <3>2, <3>3, ThreadChanges
    <3> QED BY <1>1, <1>3, <2>1, <3>4
  <2> QED BY <2>2, <2>3
<1>7. CASE Report(t)
  <2>1. thread[t].notice \in Requests
    BY <1>7 DEF ThreadsOK, Report
  <2>2. t # None
    BY NoneAssumption DEF Workers
  <2>3. RequestsOK'
    BY <1>1, <1>7, <2>1, <2>2, NoAnswerStep, ConfirmStep DEF Report
  <2>4. ThreadsOK'
    BY <1>1, <1>7, ThreadEnds DEF Report
  <2> QED BY <1>1, <1>7, <2>3, <2>4 DEF Report, OnlyReleased, loaderVars, Released
<1>8. CASE Bound(t)
  <2>1. ThreadsOK' /\ UNCHANGED request
    BY <1>1, <1>8, ThreadEnds DEF Bound
  <2>2. OnlyReleased'
    BY <1>1, <1>2, <1>8 DEF Bound, OnlyReleased, Released
  <2> QED BY <1>1, <1>3, <2>1, <2>2
<1> QED BY <1>4, <1>5, <1>6, <1>7, <1>8 DEF Proceed

LEMMA StartStep ==
  ASSUME ReleaseInv,
         \/ \E t \in Threads : FirstLoad(t) \/ Bind(t)
         \/ Reconcile \/ Compare
  PROVE  ReleaseInv'
<1> USE DEF ReleaseInv
<1>1. UNCHANGED <<platformVars, request, loaderVars>>
  BY DEF FirstLoad, Bind, Reconcile, Compare
<1>8. LedgerOK'
  <2>1. faults' \in 0..MaxFaults
    BY FaultType DEF FirstLoad, Bind, Reconcile, Compare, LedgerOK
  <2> QED BY <1>1, <2>1 DEF LedgerOK, platformVars
<1>2. RequestsOK'
  BY <1>1 DEF RequestsOK, platformVars, RequestType, Recorded, Winner, Notifying, OneWinner,
     InPromote, Released
<1>3. OnlyReleased'
  BY <1>1 DEF OnlyReleased, platformVars, loaderVars
<1>4. {named, known} \subseteq Released \cup {None} /\ Reconciler \in Workers
  BY DEF OnlyReleased, Released, Workers
<1>5. ASSUME NEW t \in Threads, FirstLoad(t) \/ Bind(t) PROVE ThreadsOK'
  BY <1>1, <1>4, <1>5, ThreadStarts, ProductionReleased DEF FirstLoad, Bind, Workers
<1>6. ASSUME Reconcile PROVE ThreadsOK'
  BY <1>1, <1>4, <1>6, ThreadStarts DEF Reconcile
<1>7. ASSUME Compare PROVE ThreadsOK'
  BY <1>1, <1>4, <1>7, ThreadStarts, ThreadEnds, ProductionReleased DEF Compare, ToReload
<1> QED BY <1>2, <1>3, <1>5, <1>6, <1>7, <1>8

-----------------------------------------------------------------------------
LEMMA InvStep ==
  ASSUME ReleaseInv, [Next]_vars
  PROVE  ReleaseInv'
<1>1. CASE UNCHANGED vars
  BY <1>1 DEF vars, platformVars, loaderVars, ReleaseInv, LedgerOK, RequestsOK, ThreadsOK,
     OnlyReleased, RequestType, Recorded, Winner, Notifying, OneWinner, InPromote, Released
<1>2. ASSUME NEW r \in Requests, PlatformStep(r) PROVE ReleaseInv'
  <2>1. CASE \E c \in Commits, e \in {0, production} : Promote(r, c, e) \/ Restore(r, c, e)
    BY <2>1, AskStep
  <2>2. CASE Begin(r) \/ Reject(r) \/ GiveUp(r) \/ (Apply(r) /\ ~ Expected(r))
    BY <2>2, AnswerStep
  <2>3. CASE Apply(r) /\ Expected(r)
    BY <2>3, ApplyStep
  <2>4. CASE \E t \in Threads : Notify(r, t)
    BY <2>4, NotifyStep
  <2>5. CASE NotifyFails(r)
    BY <2>5, NotifyFailsStep
  <2>6. CASE Timeout(r)
    BY <2>6, TimeoutStep
  <2> QED BY <1>2, <2>1, <2>2, <2>3, <2>4, <2>5, <2>6 DEF PlatformStep
<1>3. CASE ExecutorStep
  <2>1. ASSUME NEW t \in Workers, Proceed(t) PROVE ReleaseInv'
    BY <2>1, ProceedStep
  <2>2. CASE \/ \E t \in Threads : FirstLoad(t) \/ Bind(t)
             \/ Reconcile \/ Compare
    BY <2>2, StartStep
  <2> QED BY <1>3, <2>1, <2>2 DEF ExecutorStep
<1>4. CASE PlatformRestart
  BY <1>4, PlatformRestartStep
<1>5. CASE ExecutorRestart
  BY <1>5, ExecutorRestartStep
<1> QED BY <1>1, <1>2, <1>3, <1>4, <1>5 DEF Next

THEOREM InvHolds == Spec => []ReleaseInv
  BY InitInv, InvStep, PTL DEF Spec

-----------------------------------------------------------------------------
(* TypeOK holds always.                                                     *)
THEOREM ReleaseTypes == Spec => []TypeOK
  BY InvHolds, InvTypeOK, PTL

(* Of the requests that expected the same version in production at most one *)
(* was applied (compare and set in apply_promotion).                        *)
THEOREM AtMostOneWinner == Spec => []OneWinner
<1>1. ReleaseInv => OneWinner
  BY DEF ReleaseInv, RequestsOK
<1> QED BY <1>1, InvHolds, PTL

(* The executor loads, names, binds runs to and falls back on released       *)
(* commits only (loader.py, reconcile.py, binding_client.py).                *)
THEOREM ReleasedOnly == Spec => []OnlyReleased
<1>1. ReleaseInv => OnlyReleased
  BY DEF ReleaseInv
<1> QED BY <1>1, InvHolds, PTL

(* Only the answer of the executor that the platform waits for confirms.    *)
LEMMA OnlyReportActivates ==
  ASSUME ReleaseInv, [Next]_vars, NEW r \in Requests,
         request[r].at # "activated", request'[r].at = "activated"
  PROVE  \E t \in Workers : Report(t) /\ thread[t].notice = r /\ request[r].awaits = t
<1>1. /\ request \in [Requests -> RequestType(Len(versions))]
      /\ request[r] \in RequestType(Len(versions))
  BY DEF ReleaseInv, RequestsOK
<1>2. ~ UNCHANGED request
  OBVIOUS
<1>3. ASSUME NEW p \in Requests, PlatformStep(p) PROVE FALSE
  <2>1. ASSUME NEW c \in Commits, NEW e \in {0, production},
               Promote(p, c, e) \/ Restore(p, c, e)
        PROVE  FALSE
    BY <1>1, <2>1 DEF Promote, Restore, Send, Sent
  <2>2. CASE Begin(p) \/ Reject(p) \/ GiveUp(p) \/ (Apply(p) /\ ~ Expected(p))
    <3>1. PICK answer \in {"probing", "changed", "rejected", "unconfirmed"} : Answer(p, answer)
      BY <2>2 DEF Begin, Reject, GiveUp, Apply
    <3> QED BY <1>1, <3>1 DEF Answer, RequestType
  <2>3. CASE Apply(p) /\ Expected(p)
    <3>1. request' = [request EXCEPT ![p].at = "notifying", ![p].version = NextVersion]
      BY <2>3 DEF Apply
    <3> HIDE DEF NextVersion
    <3> QED BY <1>1, <3>1 DEF RequestType
  <2>4. CASE \E t \in Threads : Notify(p, t)
    BY <1>1, <2>4 DEF Notify, RequestType
  <2>5. CASE NotifyFails(p)
    <3> DEFINE n == request[p].tries + 1
    <3>1. request' = [request EXCEPT ![p].tries = n]
      BY <2>5 DEF NotifyFails
    <3> HIDE DEF n
    <3> QED BY <1>1, <3>1 DEF RequestType
  <2>6. CASE Timeout(p)
    BY <1>1, <2>6 DEF Timeout, RequestType
  <2> QED BY <1>3, <2>1, <2>2, <2>3, <2>4, <2>5, <2>6 DEF PlatformStep
<1>4. ASSUME NEW t \in Workers, NoAnswer(t) PROVE FALSE
  BY <1>1, <1>4 DEF NoAnswer, RequestType
<1>5. ASSUME NEW t \in Workers, Proceed(t)
      PROVE  Report(t) /\ thread[t].notice = r /\ request[r].awaits = t
  <2>1. Report(t)
    BY <1>2, <1>4, <1>5 DEF Proceed, Fails, Ensure, Clear, Load, Name, Bound
  <2>2. PICK q \in Requests :
          /\ q = thread[t].notice /\ request[q].awaits = t
          /\ request' = [request EXCEPT ![q].at = "activated", ![q].awaits = None]
    BY <1>4, <2>1 DEF Report, ReleaseInv, ThreadsOK
  <2>3. q = r
    BY <1>1, <2>2
  <2> QED BY <2>1, <2>2, <2>3
<1>6. ~ (\/ \E t \in Threads : FirstLoad(t) \/ Bind(t)
         \/ Reconcile \/ Compare)
  BY <1>2 DEF FirstLoad, Bind, Reconcile, Compare
<1>7. ~ PlatformRestart /\ ~ ExecutorRestart
  <2>1. ASSUME PlatformRestart PROVE FALSE
    BY <1>1, <2>1 DEF PlatformRestart, RequestType
  <2>2. ASSUME ExecutorRestart PROVE FALSE
    BY <1>1, <2>2 DEF ExecutorRestart, RequestType
  <2> QED BY <2>1, <2>2
<1>8. ~ UNCHANGED vars
  BY <1>2 DEF vars
<1> QED BY <1>3, <1>5, <1>6, <1>7, <1>8 DEF Next, ExecutorStep

(* A release is confirmed while it is in production (_RELEASE_LOCK covers   *)
(* the notification).                                                       *)
THEOREM ConfirmedInProduction == Spec => ActivatedIsProduction
<1>1. ASSUME ReleaseInv, [Next]_vars
      PROVE  [\A r \in Requests :
                request[r].at # "activated" /\ request'[r].at = "activated"
                => production = request[r].version]_vars
  <2> SUFFICES ASSUME NEW r \in Requests, request[r].at # "activated",
                      request'[r].at = "activated"
               PROVE  production = request[r].version
    OBVIOUS
  <2>1. Recorded(request[r]) /\ Notifying(request[r]) /\ request[r] \in RequestType(Len(versions))
    BY <1>1 DEF ReleaseInv, RequestsOK
  <2>2. PICK t \in Workers : Report(t) /\ thread[t].notice = r /\ request[r].awaits = t
    BY <1>1, OnlyReportActivates
  <2>3. t # None
    BY NoneAssumption DEF Workers
  <2> QED BY <2>1, <2>2, <2>3 DEF Recorded, Notifying
<1> QED BY <1>1, InvHolds, PTL DEF Spec, ActivatedIsProduction

-----------------------------------------------------------------------------
(* The register of versions.                                                *)
Order(q) == [commit |-> q.commit, expect |-> q.expect]

(* A step that leaves the ledger alone does to the register what it does to *)
(* the results.                                                             *)
LEMMA SameResults ==
  ASSUME UNCHANGED platformVars,
         \A r \in Requests : Order(request'[r]) = Order(request[r]) /\ Result(r)' = Result(r)
  PROVE  UNCHANGED Register!vars
<1> DEFINE order == [r \in Requests |-> [commit |-> request[r].commit, expect |-> request[r].expect]]
           result == [r \in Requests |-> Result(r)]
<1>1. order' = order
  BY DEF Order
<1>2. result' = result
  OBVIOUS
<1> QED BY <1>1, <1>2 DEF Register!vars, platformVars

LEMMA RegisterInit == Init => Register!Init
<1> SUFFICES ASSUME Init PROVE Register!Init
  OBVIOUS
<1>1. LedgerOK
  BY InitInv DEF ReleaseInv
<1>2. request = [r \in Requests |-> Unsent]
  BY DEF Init
<1>3. \A r \in Requests : Result(r) = "none"
  BY <1>2 DEF Result, Unsent, Sent
<1>4. \A r \in Requests : [commit |-> request[r].commit, expect |-> request[r].expect]
                            = Register!NoOrder
  BY <1>2 DEF Register!NoOrder, Unsent, Sent
<1> QED BY <1>1, <1>3, <1>4 DEF Register!Init, LedgerOK

LEMMA RegisterStep ==
  ASSUME ReleaseInv, [Next]_vars
  PROVE  [Register!Next]_(Register!vars)
<1> DEFINE order == [r \in Requests |-> [commit |-> request[r].commit, expect |-> request[r].expect]]
           result == [r \in Requests |-> Result(r)]
<1>1. /\ request \in [Requests -> RequestType(Len(versions))]
      /\ \A r \in Requests : request[r] \in RequestType(Len(versions)) /\ Recorded(request[r])
  BY DEF ReleaseInv, RequestsOK
<1>2. ASSUME NEW r \in Requests, NEW c \in Commits, NEW e \in {0, production},
             Promote(r, c, e) \/ Restore(r, c, e)
      PROVE  Register!Next
  <2>1. PICK answer \in {"waiting", "rejected"} : Send(r, c, e, answer)
    BY <1>2 DEF Promote, Restore
  <2>2. request' = [request EXCEPT ![r] = Sent(c, e, answer)] /\ request[r].at = "unsent"
        /\ UNCHANGED platformVars
    BY <2>1 DEF Send
  <2>3. Result(r) = "none"
    BY <1>1, <2>2 DEF Result, Recorded, Unsent, Sent
  <2> DEFINE decision == IF answer = "waiting" THEN "open" ELSE "failed"
  <2>4. request'[r] = Sent(c, e, answer) /\ \A p \in Requests \ {r} : request'[p] = request[p]
    BY <1>1, <2>2
  <2>5. Result(r)' = decision /\ \A p \in Requests \ {r} : Result(p)' = Result(p)
    BY <2>4 DEF Result, Sent
  <2>6. order'[r] = [commit |-> c, expect |-> e]
    BY <2>4 DEF Sent
  <2>7. order' = [order EXCEPT ![r] = order'[r]] /\ order'[r] \in Register!Orders
    <3>1. \A p \in Requests \ {r} : order'[p] = order[p]
      BY <2>4
    <3>2. e \in Nat
      BY DEF ReleaseInv, LedgerOK
    <3> QED BY <2>6, <3>1, <3>2 DEF Register!Orders
  <2>8. result' = [result EXCEPT ![r] = decision]
    BY <2>5
  <2>9. Register!Ask(r, decision)
    BY <2>2, <2>3, <2>7, <2>8 DEF Register!Ask, platformVars
  <2> QED BY <2>9 DEF Register!Next
(* A change of the state of a request only.                                 *)
<1>3. ASSUME NEW r \in Requests, NEW answer, Answer(r, answer)
      PROVE  /\ request'[r].at = answer /\ request'[r].version = request[r].version
             /\ \A p \in Requests : Order(request'[p]) = Order(request[p])
             /\ \A p \in Requests \ {r} : Result(p)' = Result(p)
             /\ order' = order
  <2>1. /\ request'[r].at = answer /\ request'[r].version = request[r].version
        /\ Order(request'[r]) = Order(request[r])
    BY <1>1, <1>3 DEF Answer, Order, RequestType
  <2>2. \A p \in Requests \ {r} : request'[p] = request[p]
    BY <1>1, <1>3 DEF Answer
  <2> QED BY <2>1, <2>2 DEF Order, Result
<1>4. ASSUME NEW r \in Requests, request[r].at \in {"waiting", "probing"}, ~ Expected(r),
             Answer(r, "changed"), UNCHANGED platformVars
      PROVE  Register!Next
  <2>1. request[r].version = 0 /\ Result(r) = "open"
    BY <1>1, <1>4 DEF Recorded, Result
  <2>2. Result(r)' = "refused"
    BY <1>3, <1>4, <2>1 DEF Result
  <2>3. result' = [result EXCEPT ![r] = "refused"] /\ order' = order
    BY <1>3, <1>4, <2>2
  <2>4. Register!Refuse(r)
    BY <1>4, <2>1, <2>3 DEF Register!Refuse, Expected, platformVars
  <2> QED BY <2>4 DEF Register!Next
<1>5. ASSUME NEW r \in Requests, Reject(r) PROVE Register!Next
  <2>1. Answer(r, "rejected") /\ UNCHANGED platformVars
    BY <1>5 DEF Reject
  <2>2. request[r].version = 0 /\ Result(r) = "open"
    BY <1>1, <1>5 DEF Recorded, Result, Reject
  <2>3. Result(r)' = "failed"
    BY <1>3, <2>1, <2>2 DEF Result
  <2>4. result' = [p \in Requests |-> IF p \in {r} THEN "failed" ELSE result[p]] /\ order' = order
    BY <1>3, <2>1, <2>3
  <2>5. Register!Fail({r})
    BY <2>1, <2>2, <2>4 DEF Register!Fail, platformVars
  <2> QED BY <2>5 DEF Register!Next
<1>6. ASSUME NEW r \in Requests, Begin(r) PROVE [Register!Next]_(Register!vars)
  <2>1. request[r].at = "waiting" /\ UNCHANGED platformVars
    BY <1>6 DEF Begin
  <2>2. CASE Expected(r)
    <3>1. Answer(r, "probing")
      BY <1>6, <2>2 DEF Begin
    <3>2. Result(r)' = Result(r)
      BY <1>1, <1>3, <2>1, <3>1 DEF Result, Recorded
    <3> QED BY <1>3, <2>1, <3>1, <3>2, SameResults
  <2>3. CASE ~ Expected(r)
    BY <1>4, <1>6, <2>1, <2>3 DEF Begin
  <2> QED BY <2>2, <2>3
<1>7. ASSUME NEW r \in Requests, GiveUp(r) PROVE UNCHANGED Register!vars
  <2>1. Answer(r, "unconfirmed") /\ UNCHANGED platformVars
    BY <1>7 DEF GiveUp
  <2>2. Result(r)' = Result(r)
    BY <1>1, <1>3, <1>7, <2>1 DEF Result, Recorded, GiveUp
  <2> QED BY <1>3, <2>1, <2>2, SameResults
<1>8. ASSUME NEW r \in Requests, Apply(r), Expected(r) PROVE Register!Next
  <2> DEFINE n == Len(versions) + 1
  <2>1. /\ request[r].at = "probing"
        /\ versions' = Append(versions, request[r].commit) /\ production' = n
        /\ request' = [request EXCEPT ![r].at = "notifying", ![r].version = n]
    BY <1>8 DEF Apply, NextVersion
  <2>2. n # 0
    BY DEF ReleaseInv, LedgerOK
  <2>3. Result(r) = "open"
    BY <1>1, <2>1 DEF Recorded, Result
  <2>4. /\ request'[r].version = n /\ Order(request'[r]) = Order(request[r])
        /\ \A p \in Requests \ {r} : request'[p] = request[p]
    <3> HIDE DEF n
    <3> QED BY <1>1, <2>1 DEF Order, RequestType
  <2>5. Result(r)' = "applied" /\ \A p \in Requests \ {r} : Result(p)' = Result(p)
    BY <2>2, <2>4 DEF Result
  <2>6. result' = [result EXCEPT ![r] = "applied"] /\ order' = order
    BY <2>4, <2>5 DEF Order
  <2>7. Register!Apply(r)
    BY <1>8, <2>1, <2>3, <2>6 DEF Register!Apply, Expected
  <2> QED BY <2>7 DEF Register!Next
(* Steps that change nothing but attempts and who waits.                    *)
<1>9. ASSUME \A r \in Requests : /\ request'[r].at = request[r].at
                                 /\ request'[r].version = request[r].version
                                 /\ Order(request'[r]) = Order(request[r]),
             UNCHANGED platformVars
      PROVE  UNCHANGED Register!vars
  <2>1. \A r \in Requests : Result(r)' = Result(r)
    BY <1>9 DEF Result
  <2> QED BY <1>9, <2>1, SameResults
<1>10. ASSUME NEW r \in Requests, (\E t \in Threads : Notify(r, t)) \/ NotifyFails(r) \/ Timeout(r)
       PROVE  UNCHANGED Register!vars
  <2>1. UNCHANGED platformVars
    BY <1>10 DEF Notify, NotifyFails, Timeout
  <2>2. ASSUME NEW t \in Threads, Notify(r, t)
        PROVE  \A p \in Requests : /\ request'[p].at = request[p].at
                                   /\ request'[p].version = request[p].version
                                   /\ Order(request'[p]) = Order(request[p])
    BY <1>1, <2>2 DEF Notify, Order, RequestType
  <2>3. ASSUME NotifyFails(r)
        PROVE  \A p \in Requests : /\ request'[p].at = request[p].at
                                   /\ request'[p].version = request[p].version
                                   /\ Order(request'[p]) = Order(request[p])
    <3> DEFINE n == request[r].tries + 1
    <3>1. request' = [request EXCEPT ![r].tries = n]
      BY <2>3 DEF NotifyFails
    <3> HIDE DEF n
    <3> QED BY <1>1, <3>1 DEF Order, RequestType
  <2>4. ASSUME Timeout(r)
        PROVE  \A p \in Requests : /\ request'[p].at = request[p].at
                                   /\ request'[p].version = request[p].version
                                   /\ Order(request'[p]) = Order(request[p])
    BY <1>1, <2>4 DEF Timeout, Order, RequestType
  <2> QED BY <1>9, <1>10, <2>1, <2>2, <2>3, <2>4
<1>11. ASSUME NEW S \in SUBSET Requests, UNCHANGED platformVars,
              request' = [p \in Requests |->
                IF p \in S THEN [request[p] EXCEPT !.awaits = None] ELSE request[p]]
       PROVE  UNCHANGED Register!vars
  BY <1>1, <1>9, <1>11 DEF Order, RequestType
<1>12. ASSUME NEW t \in Workers, Proceed(t) PROVE UNCHANGED Register!vars
  <2>1. UNCHANGED platformVars
    BY <1>12 DEF Proceed, Fails, Ensure, Clear, Load, Name, Report, Bound
  <2>2. CASE UNCHANGED request
    BY <1>9, <2>1, <2>2
  <2>3. CASE NoAnswer(t)
    <3> DEFINE S == {r \in Requests : request[r].awaits = t}
    <3>1. request' = [p \in Requests |->
            IF p \in S THEN [request[p] EXCEPT !.awaits = None] ELSE request[p]]
      BY <2>3 DEF NoAnswer
    <3> QED BY <1>11, <2>1, <3>1
  <2>4. ASSUME NEW r \in Requests, request[r].awaits = t,
               request' = [request EXCEPT ![r].at = "activated", ![r].awaits = None]
        PROVE  UNCHANGED Register!vars
    <3>1. t # None
      BY NoneAssumption DEF Workers
    <3>2. request[r].version # 0
      BY <1>1, <2>4, <3>1 DEF Recorded
    <3>3. /\ request'[r].version = request[r].version
          /\ \A p \in Requests : Order(request'[p]) = Order(request[p])
          /\ \A p \in Requests \ {r} : request'[p] = request[p]
      BY <1>1, <2>4 DEF Order, RequestType
    <3>4. \A p \in Requests : Result(p)' = Result(p)
      BY <3>2, <3>3 DEF Result
    <3> QED BY <2>1, <3>3, <3>4, SameResults
  <2>5. Report(t) => thread[t].notice \in Requests
    BY DEF Report, ReleaseInv, ThreadsOK
  <2> QED BY <1>12, <2>2, <2>3, <2>4, <2>5
          DEF Proceed, Fails, Ensure, Clear, Load, Name, Report, Bound
<1>13. ASSUME UNCHANGED <<platformVars, request>> PROVE UNCHANGED Register!vars
  BY <1>9, <1>13
<1>14. ASSUME PlatformRestart PROVE Register!Next
  <2> DEFINE lost(p) == request[p].at \in {"waiting", "probing", "notifying"}
             failed == {p \in Requests : request[p].at \in {"waiting", "probing"}}
  <2>1. /\ UNCHANGED platformVars
        /\ request' = [p \in Requests |->
             IF lost(p) THEN [request[p] EXCEPT !.at = "gone", !.awaits = None] ELSE request[p]]
    BY <1>14 DEF PlatformRestart
  <2>2. ASSUME NEW p \in Requests
        PROVE  /\ Order(request'[p]) = Order(request[p])
               /\ request'[p].version = request[p].version
               /\ request'[p].at = IF lost(p) THEN "gone" ELSE request[p].at
    <3> DEFINE gone == [request[p] EXCEPT !.at = "gone", !.awaits = None]
    <3>1. gone.at = "gone" /\ gone.version = request[p].version /\ Order(gone) = Order(request[p])
      BY <1>1 DEF Order, RequestType
    <3>2. request'[p] = IF lost(p) THEN gone ELSE request[p]
      BY <2>1
    <3> QED BY <3>1, <3>2
  <2>3. \A p \in failed : Result(p) = "open" /\ Result(p)' = "failed"
    BY <1>1, <2>2 DEF Result, Recorded
  <2>4. \A p \in Requests \ failed : Result(p)' = Result(p)
    BY <1>1, <2>2 DEF Result, Recorded
  <2>5. result' = [p \in Requests |-> IF p \in failed THEN "failed" ELSE result[p]]
    BY <2>3, <2>4
  <2>6. order' = order
    BY <2>2 DEF Order
  <2>7. Register!Fail(failed)
    BY <2>1, <2>3, <2>5, <2>6 DEF Register!Fail, platformVars
  <2> QED BY <2>7 DEF Register!Next
<1>15. ASSUME ExecutorRestart PROVE UNCHANGED Register!vars
  <2>1. request' = [p \in Requests |->
          IF p \in Requests THEN [request[p] EXCEPT !.awaits = None] ELSE request[p]]
        /\ UNCHANGED platformVars
    BY <1>15 DEF ExecutorRestart
  <2> QED BY <1>11, <2>1
<1>16. ASSUME NEW r \in Requests, PlatformStep(r)
       PROVE  [Register!Next]_(Register!vars)
  <2>1. Apply(r) /\ ~ Expected(r) => Answer(r, "changed") /\ UNCHANGED platformVars
                                     /\ request[r].at = "probing"
    BY DEF Apply
  <2> QED BY <1>2, <1>4, <1>5, <1>6, <1>7, <1>8, <1>10, <1>16, <2>1 DEF PlatformStep
<1>17. ASSUME \/ \E t \in Threads : FirstLoad(t) \/ Bind(t)
              \/ Reconcile \/ Compare
       PROVE  UNCHANGED Register!vars
  BY <1>13, <1>17 DEF FirstLoad, Bind, Reconcile, Compare
<1>18. CASE UNCHANGED vars
  BY <1>13, <1>18 DEF vars
<1> QED BY <1>12, <1>14, <1>15, <1>16, <1>17, <1>18 DEF Next, ExecutorStep

(* Requests take effect once and one after another (release.py and           *)
(* core/ledger.py implement VersionRegister).                                *)
THEOREM ReleaseImplementsRegister == Spec => ImplementsRegister
<1>1. Spec => Register!Init
  BY RegisterInit DEF Spec
<1> QED BY <1>1, InvHolds, RegisterStep, PTL DEF Spec, ImplementsRegister, Register!Spec

=============================================================================
