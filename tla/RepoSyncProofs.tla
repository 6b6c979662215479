--------------------------- MODULE RepoSyncProofs ---------------------------
(***************************************************************************)
(* Proofs about RepoSync for every set of refs, jobs and sync workers.     *)
(* That a job which goes on finds a finished clone needs the mutual        *)
(* exclusion of the lock (LockInv) and where in a sync the directory is    *)
(* known to be complete (CloneInv): without the first a failing clone may  *)
(* remove the directory under a sync that has just announced it.           *)
(***************************************************************************)
EXTENDS RepoSync, TLAPS

\* Within the lock's TTL the worker inside the try block owns the lock.
LockInv ==
  ~lockExpired => \A s \in Syncers : spc[s] \in LockedPCs => lock = s

\* Where the directory is being made and where it is complete; the key and the
\* events only ever announce a complete one.
CloneInv ==
  ~lockExpired =>
    /\ \A s \in Syncers :
         /\ spc[s] = "clone" => dir = "partial"
         /\ spc[s] \in {"fetch_new", "set_complete", "publish"} => dir = "ok"
    /\ complete # {} => dir = "ok"
    /\ \A j \in Jobs :
         /\ pc[j] = "synced" => dir = "ok"
         /\ \A i \in DOMAIN mail[j] : mail[j][i].status = "complete" => dir = "ok"

\* A job counting on its request, subscribed or about to be, has it queued, in
\* work or answered, or it was lost in one of the two ways the code has.
Answerable(j) ==
  \/ Queued(RefOf[j])
  \/ \E s \in Syncers : Working(s, RefOf[j])
  \/ \E i \in DOMAIN mail[j] : mail[j][i].ref = RefOf[j]
  \/ j \in missed
  \/ j \in dropped

AnswerInv ==
  \A j \in Jobs :
    /\ pc[j] \in {"new", "get", "exists", "request"} => j \notin requested
    /\ pc[j] \in {"subscribe", "listen"} /\ j \in requested => Answerable(j)

-----------------------------------------------------------------------------

\* Sequences of elements of a set: what Append and Tail keep.
LEMMA AppendType ==
  ASSUME NEW S, NEW q \in Seq(S), NEW e \in S
  PROVE  Append(q, e) \in Seq(S)
OBVIOUS

LEMMA TailType ==
  ASSUME NEW S, NEW q \in Seq(S), q # <<>>
  PROVE  Tail(q) \in Seq(S) /\ Head(q) \in S
OBVIOUS

\* Every step of the jobs and the sync workers keeps the types.
LEMMA TypeStep ==
  TypeOK /\ [Next]_vars => TypeOK'
<1> SUFFICES ASSUME TypeOK, [Next]_vars PROVE TypeOK'
  OBVIOUS
<1> USE RepoSyncAssumption
<1> USE DEF TypeOK, SyncPCs, LockedPCs, GitPCs, JobPCs, Settled, clone,
            syncers, jobs, history, bounds
<1>1. ASSUME NEW r \in Refs, Push(r) PROVE TypeOK'
  <2>1. queue' \in Seq(Refs)
    <3>1. (\E name \in Refs : queue' = Append(queue, name)) \/ queue' = queue
      BY <1>1 DEF Push
    <3>2. \A name \in Refs : Append(queue, name) \in Seq(Refs)
      BY AppendType
    <3> QED
      BY <3>1, <3>2
  <2>2. pushes' \in 0..MaxPushes
    BY <1>1 DEF Push
  <2>3. upstream' \in [Refs -> Nat]
    BY <1>1 DEF Push
  <2> QED
    BY <1>1, <2>1, <2>2, <2>3 DEF Push
<1>2. ASSUME NEW r \in Refs, CompleteExpires(r) PROVE TypeOK'
  BY <1>2 DEF CompleteExpires
<1>3. ASSUME NEW j \in Jobs, TriggerSync(j) PROVE TypeOK'
  <2>1. queue' \in Seq(Refs)
    BY <1>3, AppendType DEF TriggerSync
  <2>2. wanted' \in [Jobs -> Nat] /\ pc' \in [Jobs -> JobPCs]
    BY <1>3 DEF TriggerSync
  <2> QED
    BY <1>3, <2>1, <2>2 DEF TriggerSync
<1>4. ASSUME NEW j \in Jobs, GetComplete(j) PROVE TypeOK'
  <2>1. /\ \/ pc' = [pc EXCEPT ![j] = "synced"]
           \/ pc' = [pc EXCEPT ![j] = "exists"]
        /\ got' = got \/ got' = [got EXCEPT ![j] = cache[RefOf[j]]]
    BY <1>4 DEF GetComplete, Proceed
  <2>2. pc' \in [Jobs -> JobPCs]
    BY <2>1
  <2>3. got' \in [Jobs -> Nat]
    <3>1. cache[RefOf[j]] \in Nat
      OBVIOUS
    <3> QED
      BY <2>1, <3>1
  <2> QED
    BY <1>4, <2>2, <2>3 DEF GetComplete
<1>5. ASSUME NEW j \in Jobs, LockExists(j) PROVE TypeOK'
  BY <1>5 DEF LockExists
<1>6. ASSUME NEW j \in Jobs, RequestSync(j) PROVE TypeOK'
  <2>1. queue' \in Seq(Refs)
    BY <1>6, AppendType DEF RequestSync
  <2> QED
    BY <1>6, <2>1 DEF RequestSync
<1>7. ASSUME NEW j \in Jobs, Subscribe(j) PROVE TypeOK'
  BY <1>7 DEF Subscribe
<1>8. ASSUME NEW j \in Jobs, Receive(j) PROVE TypeOK'
  <2>1. mail' \in [Jobs -> Seq(Events)]
    <3>1. Tail(mail[j]) \in Seq(Events) /\ mail' = [mail EXCEPT ![j] = Tail(mail[j])]
      BY <1>8, TailType DEF Receive
    <3> QED
      BY <3>1
  <2>2. /\ \/ pc' = pc \/ pc' = [pc EXCEPT ![j] = "timeout"]
           \/ pc' = [pc EXCEPT ![j] = "synced"]
           \/ pc' = [pc EXCEPT ![j] = "sync_error"]
        /\ got' = got \/ got' = [got EXCEPT ![j] = cache[RefOf[j]]]
    BY <1>8 DEF Receive, Proceed
  <2>3. pc' \in [Jobs -> JobPCs]
    BY <2>2
  <2>4. got' \in [Jobs -> Nat]
    <3>1. cache[RefOf[j]] \in Nat
      OBVIOUS
    <3> QED
      BY <2>2, <3>1
  <2> QED
    BY <1>8, <2>1, <2>3, <2>4 DEF Receive
<1>9. ASSUME NEW j \in Jobs, TimeoutElapses(j) PROVE TypeOK'
  BY <1>9 DEF TimeoutElapses
<1>10. ASSUME NEW j \in Jobs, ReadTimeout(j) PROVE TypeOK'
  BY <1>10 DEF ReadTimeout
<1>11. ASSUME NEW s \in Syncers, TakeRequest(s) PROVE TypeOK'
  <2>1. queue' \in Seq(Refs) /\ Head(queue) \in Refs
    BY <1>11 DEF TakeRequest, Working
  <2> QED
    BY <1>11, <2>1 DEF TakeRequest
<1>12. ASSUME NEW s \in Syncers, AcquireLock(s) PROVE TypeOK'
  BY <1>12 DEF AcquireLock, SyncStep
<1>13. ASSUME NEW s \in Syncers, LockBusy(s) PROVE TypeOK'
  BY <1>13 DEF LockBusy, SyncStep, DropRequest
<1>14. ASSUME NEW s \in Syncers, CheckDir(s) PROVE TypeOK'
  BY <1>14 DEF CheckDir, SyncStep
<1>15. ASSUME NEW s \in Syncers, Clone(s) PROVE TypeOK'
  BY <1>15 DEF Clone, SyncStep
<1>16. ASSUME NEW s \in Syncers, FetchNew(s) PROVE TypeOK'
  BY <1>16 DEF FetchNew, SyncStep, Fetched
<1>17. ASSUME NEW s \in Syncers, Fetch(s) PROVE TypeOK'
  BY <1>17 DEF Fetch, SyncStep, Fetched
<1>18. ASSUME NEW s \in Syncers, SetComplete(s) PROVE TypeOK'
  BY <1>18 DEF SetComplete, SyncStep
<1>19. ASSUME NEW s \in Syncers, Publish(s) PROVE TypeOK'
  <2>1. sref[s] \in Refs
    BY <1>19 DEF Publish, SyncStep
  <2>2. mail' \in [Jobs -> Seq(Events)]
    <3>1. [ref |-> sref[s], status |-> "complete"] \in Events
      BY <2>1 DEF Events
    <3>2. ASSUME NEW e \in Events, NEW j \in Jobs
          PROVE  Append(mail[j], e) \in Seq(Events)
      BY <3>2, AppendType
    <3>3. mail' = [j \in Jobs |->
                     IF pc[j] = "listen"
                     THEN Append(mail[j], [ref |-> sref[s], status |-> "complete"])
                     ELSE mail[j]]
      BY <1>19 DEF Publish, Publishes
    <3> QED
      BY <3>1, <3>2, <3>3
  <2>3. missed' \subseteq Jobs
    BY <1>19 DEF Publish, Publishes
  <2> QED
    BY <1>19, <2>2, <2>3 DEF Publish, SyncStep, Publishes
<1>20. ASSUME NEW s \in Syncers, PublishError(s) PROVE TypeOK'
  <2>1. sref[s] \in Refs
    BY <1>20 DEF PublishError, SyncStep
  <2>2. mail' \in [Jobs -> Seq(Events)]
    <3>1. [ref |-> sref[s], status |-> "error"] \in Events
      BY <2>1 DEF Events
    <3>2. ASSUME NEW e \in Events, NEW j \in Jobs
          PROVE  Append(mail[j], e) \in Seq(Events)
      BY <3>2, AppendType
    <3>3. mail' = [j \in Jobs |->
                     IF pc[j] = "listen"
                     THEN Append(mail[j], [ref |-> sref[s], status |-> "error"])
                     ELSE mail[j]]
      BY <1>20 DEF PublishError, Publishes
    <3> QED
      BY <3>1, <3>2, <3>3
  <2>3. missed' \subseteq Jobs
    BY <1>20 DEF PublishError, Publishes
  <2> QED
    BY <1>20, <2>2, <2>3 DEF PublishError, SyncStep, Publishes
<1>21. ASSUME NEW s \in Syncers, Unlock(s) PROVE TypeOK'
  BY <1>21 DEF Unlock, SyncStep
<1>22. ASSUME NEW s \in Syncers, SyncRaises(s) PROVE TypeOK'
  <2>1. fails' \in 0..MaxFails
    BY <1>22 DEF SyncRaises
  <2> QED
    BY <1>22, <2>1 DEF SyncRaises
<1>23. ASSUME NEW s \in Syncers, PublishErrorFails(s) PROVE TypeOK'
  <2>1. fails' \in 0..MaxFails
    BY <1>23 DEF PublishErrorFails
  <2>2. dropped' \subseteq Jobs
    BY <1>23 DEF PublishErrorFails, DropRequest
  <2> QED
    BY <1>23, <2>1, <2>2 DEF PublishErrorFails
<1>24. ASSUME NEW s \in Syncers, Crash(s) PROVE TypeOK'
  <2>1. fails' \in 0..MaxFails
    BY <1>24 DEF Crash
  <2>2. dropped' \subseteq Jobs
    BY <1>24 DEF Crash, DropRequest
  <2> QED
    BY <1>24, <2>1, <2>2 DEF Crash
<1>25. ASSUME LockExpires PROVE TypeOK'
  BY <1>25 DEF LockExpires
<1>26. CASE UNCHANGED vars
  BY <1>26 DEF vars, syncers, bounds, jobs, history, clone
<1> QED
  BY <1>1, <1>2, <1>3, <1>4, <1>5, <1>6, <1>7, <1>8, <1>9, <1>10, <1>11,
     <1>12, <1>13, <1>14, <1>15, <1>16, <1>17, <1>18, <1>19, <1>20, <1>21,
     <1>22, <1>23, <1>24, <1>25, <1>26
     DEF Next, WaiterStep, ProcessSyncRequest

\* Only the owner of the lock is ever inside the try block.
LEMMA LockStep ==
  TypeOK /\ LockInv /\ [Next]_vars => LockInv'
<1> SUFFICES ASSUME TypeOK, LockInv, [Next]_vars PROVE LockInv'
  OBVIOUS
<1> USE RepoSyncAssumption
<1> USE DEF TypeOK, LockInv, SyncPCs, LockedPCs, GitPCs, JobPCs, Settled,
            clone, syncers, jobs, history, bounds
<1>1. ASSUME NEW r \in Refs, Push(r) PROVE LockInv'
  BY <1>1 DEF Push
<1>2. ASSUME NEW r \in Refs, CompleteExpires(r) PROVE LockInv'
  BY <1>2 DEF CompleteExpires
<1>3. ASSUME NEW j \in Jobs, TriggerSync(j) PROVE LockInv'
  BY <1>3 DEF TriggerSync
<1>4. ASSUME NEW j \in Jobs, GetComplete(j) PROVE LockInv'
  BY <1>4 DEF GetComplete, Proceed
<1>5. ASSUME NEW j \in Jobs, LockExists(j) PROVE LockInv'
  BY <1>5 DEF LockExists
<1>6. ASSUME NEW j \in Jobs, RequestSync(j) PROVE LockInv'
  BY <1>6 DEF RequestSync
<1>7. ASSUME NEW j \in Jobs, Subscribe(j) PROVE LockInv'
  BY <1>7 DEF Subscribe
<1>8. ASSUME NEW j \in Jobs, Receive(j) PROVE LockInv'
  BY <1>8 DEF Receive, Proceed
<1>9. ASSUME NEW j \in Jobs, TimeoutElapses(j) PROVE LockInv'
  BY <1>9 DEF TimeoutElapses
<1>10. ASSUME NEW j \in Jobs, ReadTimeout(j) PROVE LockInv'
  BY <1>10 DEF ReadTimeout
<1>11. ASSUME NEW s \in Syncers, TakeRequest(s) PROVE LockInv'
  BY <1>11 DEF TakeRequest
<1>12. ASSUME NEW s \in Syncers, AcquireLock(s) PROVE LockInv'
  BY <1>12 DEF AcquireLock, SyncStep
<1>13. ASSUME NEW s \in Syncers, LockBusy(s) PROVE LockInv'
  BY <1>13 DEF LockBusy, SyncStep, DropRequest
<1>14. ASSUME NEW s \in Syncers, CheckDir(s) PROVE LockInv'
  BY <1>14 DEF CheckDir, SyncStep
<1>15. ASSUME NEW s \in Syncers, Clone(s) PROVE LockInv'
  BY <1>15 DEF Clone, SyncStep
<1>16. ASSUME NEW s \in Syncers, FetchNew(s) PROVE LockInv'
  BY <1>16 DEF FetchNew, SyncStep, Fetched
<1>17. ASSUME NEW s \in Syncers, Fetch(s) PROVE LockInv'
  BY <1>17 DEF Fetch, SyncStep, Fetched
<1>18. ASSUME NEW s \in Syncers, SetComplete(s) PROVE LockInv'
  BY <1>18 DEF SetComplete, SyncStep
<1>19. ASSUME NEW s \in Syncers, Publish(s) PROVE LockInv'
  BY <1>19 DEF Publish, SyncStep, Publishes
<1>20. ASSUME NEW s \in Syncers, PublishError(s) PROVE LockInv'
  BY <1>20 DEF PublishError, SyncStep, Publishes
<1>21. ASSUME NEW s \in Syncers, Unlock(s) PROVE LockInv'
  BY <1>21 DEF Unlock, SyncStep
<1>22. ASSUME NEW s \in Syncers, SyncRaises(s) PROVE LockInv'
  BY <1>22 DEF SyncRaises
<1>23. ASSUME NEW s \in Syncers, PublishErrorFails(s) PROVE LockInv'
  BY <1>23 DEF PublishErrorFails, DropRequest
<1>24. ASSUME NEW s \in Syncers, Crash(s) PROVE LockInv'
  BY <1>24 DEF Crash, DropRequest, Working
<1>25. ASSUME LockExpires PROVE LockInv'
  BY <1>25 DEF LockExpires
<1>26. CASE UNCHANGED vars
  BY <1>26 DEF vars, syncers, bounds, jobs, history, clone
<1> QED
  BY <1>1, <1>2, <1>3, <1>4, <1>5, <1>6, <1>7, <1>8, <1>9, <1>10, <1>11,
     <1>12, <1>13, <1>14, <1>15, <1>16, <1>17, <1>18, <1>19, <1>20, <1>21,
     <1>22, <1>23, <1>24, <1>25, <1>26
     DEF Next, WaiterStep, ProcessSyncRequest

\* A complete directory stays complete while syncs run one at a time.
LEMMA CloneStep ==
  TypeOK /\ LockInv /\ CloneInv /\ [Next]_vars => CloneInv'
<1> SUFFICES ASSUME TypeOK, LockInv, CloneInv, [Next]_vars PROVE CloneInv'
  OBVIOUS
<1> USE RepoSyncAssumption
<1> USE DEF TypeOK, LockInv, CloneInv, SyncPCs, LockedPCs, GitPCs, JobPCs,
            Settled, clone, syncers, jobs, history, bounds
<1>1. ASSUME NEW r \in Refs, Push(r) PROVE CloneInv'
  BY <1>1 DEF Push
<1>2. ASSUME NEW r \in Refs, CompleteExpires(r) PROVE CloneInv'
  BY <1>2 DEF CompleteExpires
<1>3. ASSUME NEW j \in Jobs, TriggerSync(j) PROVE CloneInv'
  BY <1>3 DEF TriggerSync
<1>4. ASSUME NEW j \in Jobs, GetComplete(j) PROVE CloneInv'
  BY <1>4 DEF GetComplete, Proceed
<1>5. ASSUME NEW j \in Jobs, LockExists(j) PROVE CloneInv'
  BY <1>5 DEF LockExists
<1>6. ASSUME NEW j \in Jobs, RequestSync(j) PROVE CloneInv'
  BY <1>6 DEF RequestSync
<1>7. ASSUME NEW j \in Jobs, Subscribe(j) PROVE CloneInv'
  BY <1>7 DEF Subscribe
<1>8. ASSUME NEW j \in Jobs, Receive(j) PROVE CloneInv'
  <2>1. /\ UNCHANGED <<lockExpired, spc, dir, complete>>
        /\ Head(mail[j]) = mail[j][1] /\ 1 \in DOMAIN mail[j]
    BY <1>8 DEF Receive
  <2>2. ~lockExpired /\ pc'[j] = "synced" => dir = "ok"
    BY <1>8, <2>1 DEF Receive, Proceed
  <2>3. \A k \in Jobs \ {j} : pc'[k] = pc[k] /\ mail'[k] = mail[k]
    BY <1>8 DEF Receive, Proceed
  <2>4. \A i \in DOMAIN mail'[j] :
          i + 1 \in DOMAIN mail[j] /\ mail'[j][i] = mail[j][i + 1]
    BY <1>8 DEF Receive
  <2>5. ASSUME ~lockExpired, NEW i \in DOMAIN mail'[j],
               mail'[j][i].status = "complete"
        PROVE  dir = "ok"
    BY <2>4, <2>5
  <2> QED
    BY <2>1, <2>2, <2>3, <2>5
<1>9. ASSUME NEW j \in Jobs, TimeoutElapses(j) PROVE CloneInv'
  BY <1>9 DEF TimeoutElapses
<1>10. ASSUME NEW j \in Jobs, ReadTimeout(j) PROVE CloneInv'
  BY <1>10 DEF ReadTimeout
<1>11. ASSUME NEW s \in Syncers, TakeRequest(s) PROVE CloneInv'
  BY <1>11 DEF TakeRequest
<1>12. ASSUME NEW s \in Syncers, AcquireLock(s) PROVE CloneInv'
  BY <1>12 DEF AcquireLock, SyncStep
<1>13. ASSUME NEW s \in Syncers, LockBusy(s) PROVE CloneInv'
  BY <1>13 DEF LockBusy, SyncStep, DropRequest
<1>14. ASSUME NEW s \in Syncers, CheckDir(s) PROVE CloneInv'
  BY <1>14 DEF CheckDir, SyncStep
<1>15. ASSUME NEW s \in Syncers, Clone(s) PROVE CloneInv'
  BY <1>15 DEF Clone, SyncStep
<1>16. ASSUME NEW s \in Syncers, FetchNew(s) PROVE CloneInv'
  BY <1>16 DEF FetchNew, SyncStep, Fetched
<1>17. ASSUME NEW s \in Syncers, Fetch(s) PROVE CloneInv'
  BY <1>17 DEF Fetch, SyncStep, Fetched
<1>18. ASSUME NEW s \in Syncers, SetComplete(s) PROVE CloneInv'
  BY <1>18 DEF SetComplete, SyncStep
<1>19. ASSUME NEW s \in Syncers, Publish(s) PROVE CloneInv'
  BY <1>19 DEF Publish, SyncStep, Publishes
<1>20. ASSUME NEW s \in Syncers, PublishError(s) PROVE CloneInv'
  BY <1>20 DEF PublishError, SyncStep, Publishes
<1>21. ASSUME NEW s \in Syncers, Unlock(s) PROVE CloneInv'
  BY <1>21 DEF Unlock, SyncStep
<1>22. ASSUME NEW s \in Syncers, SyncRaises(s) PROVE CloneInv'
  BY <1>22 DEF SyncRaises
<1>23. ASSUME NEW s \in Syncers, PublishErrorFails(s) PROVE CloneInv'
  BY <1>23 DEF PublishErrorFails, DropRequest
<1>24. ASSUME NEW s \in Syncers, Crash(s) PROVE CloneInv'
  BY <1>24 DEF Crash, DropRequest, Working
<1>25. ASSUME LockExpires PROVE CloneInv'
  BY <1>25 DEF LockExpires
<1>26. CASE UNCHANGED vars
  BY <1>26 DEF vars, syncers, bounds, jobs, history, clone
<1> QED
  BY <1>1, <1>2, <1>3, <1>4, <1>5, <1>6, <1>7, <1>8, <1>9, <1>10, <1>11,
     <1>12, <1>13, <1>14, <1>15, <1>16, <1>17, <1>18, <1>19, <1>20, <1>21,
     <1>22, <1>23, <1>24, <1>25, <1>26
     DEF Next, WaiterStep, ProcessSyncRequest

\* An element appended to the list of requests, or already on it, is queued.
LEMMA QueueAppend ==
  ASSUME TypeOK, NEW r \in Refs, queue' = Append(queue, r), NEW q \in Refs,
         Queued(q) \/ q = r
  PROVE  Queued(q)'
<1>1. CASE q = r
  <2>1. Len(queue) + 1 \in DOMAIN queue' /\ queue'[Len(queue) + 1] = q
    BY <1>1 DEF TypeOK
  <2> QED
    BY <2>1 DEF Queued
<1>2. CASE Queued(q)
  <2>1. PICK i \in DOMAIN queue : queue[i] = q
    BY <1>2 DEF Queued
  <2>2. i \in DOMAIN queue' /\ queue'[i] = q
    BY <2>1 DEF TypeOK
  <2> QED
    BY <2>2 DEF Queued
<1> QED
  BY <1>1, <1>2

\* A request that is not the one a worker pops stays on the list.
LEMMA QueueTail ==
  ASSUME TypeOK, queue # <<>>, queue' = Tail(queue), NEW q \in Refs, Queued(q),
         q # Head(queue)
  PROVE  Queued(q)'
<1>1. queue \in Seq(Refs)
  BY DEF TypeOK
<1>2. PICK i \in DOMAIN queue : queue[i] = q
  BY DEF Queued
<1>3. i \in 2..Len(queue)
  BY <1>1, <1>2
<1>4. queue' \in Seq(Refs) /\ Len(queue') = Len(queue) - 1
  BY <1>1
<1>5. i - 1 \in DOMAIN queue'
  BY <1>1, <1>3, <1>4
<1>6. queue'[i - 1] = queue[i]
  BY <1>1, <1>3
<1> QED
  BY <1>2, <1>5, <1>6 DEF Queued

\* A step that leaves the requests and the answers alone, and forgets no
\* request in work, keeps every job's answer coming.
LEMMA AnswerKept ==
  ASSUME AnswerInv, UNCHANGED <<queue, pc, mail, requested, missed>>,
         RepoSyncAssumption, dropped \subseteq dropped',
         \A t \in Syncers, q \in Refs : Working(t, q) => Working(t, q)'
  PROVE  AnswerInv'
<1> SUFFICES ASSUME NEW j \in Jobs, pc[j] \in {"subscribe", "listen"},
                    j \in requested
             PROVE  Answerable(j)'
  BY DEF AnswerInv
<1>1. Answerable(j) /\ RefOf[j] \in Refs
  BY DEF AnswerInv, RepoSyncAssumption
<1>2. Queued(RefOf[j]) => Queued(RefOf[j])'
  BY DEF Queued
<1> QED
  BY <1>1, <1>2 DEF Answerable

\* A request is answered, missed or dropped, and never just forgotten.
LEMMA AnswerStep ==
  TypeOK /\ AnswerInv /\ [Next]_vars => AnswerInv'
<1> SUFFICES ASSUME TypeOK, AnswerInv, [Next]_vars PROVE AnswerInv'
  OBVIOUS
<1> USE RepoSyncAssumption
<1> USE DEF TypeOK, AnswerInv, Answerable, SyncPCs, LockedPCs, GitPCs, JobPCs,
            Settled, clone, syncers, jobs, history, bounds
<1>1. ASSUME NEW r \in Refs, Push(r) PROVE AnswerInv'
  <2>1. \A q \in Refs : Queued(q) => Queued(q)'
    <3>1. CASE \E name \in Refs : queue' = Append(queue, name)
      BY <3>1, QueueAppend
    <3>2. CASE queue' = queue
      BY <3>2 DEF Queued
    <3> QED
      BY <1>1, <3>1, <3>2 DEF Push
  <2>2. \A t \in Syncers, q \in Refs : Working(t, q) => Working(t, q)'
    BY <1>1 DEF Push, Working
  <2>3. /\ UNCHANGED <<mail, missed, dropped>>
        /\ requested' = requested
        /\ pc' = pc
    BY <1>1 DEF Push
  <2> QED
    BY <2>1, <2>2, <2>3
<1>2. ASSUME NEW r \in Refs, CompleteExpires(r) PROVE AnswerInv'
  BY <1>2 DEF CompleteExpires, Queued, Working
<1>3. ASSUME NEW j \in Jobs, TriggerSync(j) PROVE AnswerInv'
  <2>1. \A q \in Refs : Queued(q) => Queued(q)'
    BY <1>3, QueueAppend DEF TriggerSync
  <2>2. \A t \in Syncers, q \in Refs : Working(t, q) => Working(t, q)'
    BY <1>3 DEF TriggerSync, Working
  <2>3. /\ UNCHANGED <<mail, missed, dropped>>
        /\ requested' = requested
        /\ \A k \in Jobs : pc'[k] # pc[k] => k = j /\ pc[k] = "new" /\ pc'[k] = "get"
    BY <1>3 DEF TriggerSync
  <2> QED
    BY <2>1, <2>2, <2>3
<1>4. ASSUME NEW j \in Jobs, GetComplete(j) PROVE AnswerInv'
  BY <1>4 DEF GetComplete, Proceed, Queued, Working
<1>5. ASSUME NEW j \in Jobs, LockExists(j) PROVE AnswerInv'
  <2>1. pc[j] = "exists" /\ UNCHANGED <<queue, spc, sref, mail, requested, missed, dropped>>
    BY <1>5 DEF LockExists
  <2>2. j \notin requested
    BY <2>1
  <2>3. \A k \in Jobs \ {j} : pc'[k] = pc[k]
    BY <1>5 DEF LockExists
  <2>4. \A q \in Refs : /\ Queued(q)' <=> Queued(q)
                      /\ \A t \in Syncers : Working(t, q)' <=> Working(t, q)
    BY <2>1 DEF Queued, Working
  <2> QED
    BY <2>1, <2>2, <2>3, <2>4
<1>6. ASSUME NEW j \in Jobs, RequestSync(j) PROVE AnswerInv'
  <2>1. \A q \in Refs : Queued(q) \/ q = RefOf[j] => Queued(q)'
    BY <1>6, QueueAppend DEF RequestSync
  <2>2. \A t \in Syncers, q \in Refs : Working(t, q) => Working(t, q)'
    BY <1>6 DEF RequestSync, Working
  <2>3. /\ UNCHANGED <<mail, missed, dropped>>
        /\ requested' = requested \cup {j}
        /\ pc'[j] = "subscribe" /\ \A k \in Jobs \ {j} : pc'[k] = pc[k]
    BY <1>6 DEF RequestSync
  <2>4. Answerable(j)'
    BY <2>1
  <2>5. ASSUME NEW k \in Jobs \ {j}, Answerable(k) PROVE Answerable(k)'
    BY <2>1, <2>2, <2>3, <2>5
  <2> QED
    BY <2>3, <2>4, <2>5
<1>7. ASSUME NEW j \in Jobs, Subscribe(j) PROVE AnswerInv'
  BY <1>7 DEF Subscribe, Queued, Working
<1>8. ASSUME NEW j \in Jobs, Receive(j) PROVE AnswerInv'
  <2>1. /\ UNCHANGED <<queue, spc, sref, requested, missed, dropped>>
        /\ mail[j] # <<>> /\ pc[j] = "listen" /\ mail[j] \in Seq(Events)
    BY <1>8 DEF Receive
  <2>2. \A k \in Jobs \ {j} : pc'[k] = pc[k] /\ mail'[k] = mail[k]
    BY <1>8 DEF Receive, Proceed
  <2>3. pc'[j] = "listen" => Head(mail[j]).ref # RefOf[j]
    BY <1>8 DEF Receive, Proceed
  <2>4. ASSUME NEW i \in DOMAIN mail[j], mail[j][i].ref = RefOf[j], pc'[j] = "listen"
        PROVE  \E n \in DOMAIN mail'[j] : mail'[j][n].ref = RefOf[j]
    <3>1. i # 1
      BY <2>1, <2>3, <2>4
    <3>2. mail'[j] = Tail(mail[j])
      BY <1>8 DEF Receive
    <3>3. i - 1 \in DOMAIN mail'[j] /\ mail'[j][i - 1] = mail[j][i]
      BY <2>1, <3>1, <3>2
    <3> QED
      BY <2>4, <3>3
  <2>5. \A q \in Refs : /\ Queued(q)' <=> Queued(q)
                      /\ \A t \in Syncers : Working(t, q)' <=> Working(t, q)
    BY <2>1 DEF Queued, Working
  <2>6. pc'[j] \in {"listen"} \cup Settled
    BY <1>8 DEF Receive, Proceed
  <2> QED
    BY <2>1, <2>2, <2>4, <2>5, <2>6
<1>9. ASSUME NEW j \in Jobs, TimeoutElapses(j) PROVE AnswerInv'
  BY <1>9 DEF TimeoutElapses, Queued, Working
<1>10. ASSUME NEW j \in Jobs, ReadTimeout(j) PROVE AnswerInv'
  BY <1>10 DEF ReadTimeout, Queued, Working
<1>11. ASSUME NEW s \in Syncers, TakeRequest(s) PROVE AnswerInv'
  <2>1. /\ UNCHANGED <<pc, mail, requested, missed, dropped>>
        /\ queue # <<>> /\ queue' = Tail(queue) /\ spc[s] = "idle"
        /\ spc'[s] = "lock" /\ sref'[s] = Head(queue) /\ Head(queue) \in Refs
    BY <1>11, TailType DEF TakeRequest, Working
  <2>2. \A q \in Refs : Queued(q) => Queued(q)' \/ Working(s, q)'
    BY <2>1, QueueTail DEF Working
  <2>3. \A t \in Syncers, q \in Refs : Working(t, q) => Working(t, q)'
    BY <1>11 DEF TakeRequest, Working
  <2> QED
    BY <2>1, <2>2, <2>3
<1>12. ASSUME NEW s \in Syncers, AcquireLock(s) PROVE AnswerInv'
  <2>1. UNCHANGED <<queue, pc, mail, requested, missed, dropped>>
    BY <1>12 DEF AcquireLock, SyncStep
  <2>2. \A t \in Syncers, q \in Refs : Working(t, q) => Working(t, q)'
    BY <1>12 DEF AcquireLock, SyncStep, Working
  <2> QED
    BY <2>1, <2>2, AnswerKept
<1>13. ASSUME NEW s \in Syncers, LockBusy(s) PROVE AnswerInv'
  BY <1>13 DEF LockBusy, SyncStep, DropRequest, Queued, Working
<1>14. ASSUME NEW s \in Syncers, CheckDir(s) PROVE AnswerInv'
  <2>1. UNCHANGED <<queue, pc, mail, requested, missed, dropped>>
    BY <1>14 DEF CheckDir, SyncStep
  <2>2. \A t \in Syncers, q \in Refs : Working(t, q) => Working(t, q)'
    BY <1>14 DEF CheckDir, SyncStep, Working
  <2> QED
    BY <2>1, <2>2, AnswerKept
<1>15. ASSUME NEW s \in Syncers, Clone(s) PROVE AnswerInv'
  <2>1. UNCHANGED <<queue, pc, mail, requested, missed, dropped>>
    BY <1>15 DEF Clone, SyncStep
  <2>2. \A t \in Syncers, q \in Refs : Working(t, q) => Working(t, q)'
    BY <1>15 DEF Clone, SyncStep, Working
  <2> QED
    BY <2>1, <2>2, AnswerKept
<1>16. ASSUME NEW s \in Syncers, FetchNew(s) PROVE AnswerInv'
  <2>1. UNCHANGED <<queue, pc, mail, requested, missed, dropped>>
    BY <1>16 DEF FetchNew, SyncStep, Fetched
  <2>2. \A t \in Syncers, q \in Refs : Working(t, q) => Working(t, q)'
    BY <1>16 DEF FetchNew, SyncStep, Fetched, Working
  <2> QED
    BY <2>1, <2>2, AnswerKept
<1>17. ASSUME NEW s \in Syncers, Fetch(s) PROVE AnswerInv'
  <2>1. UNCHANGED <<queue, pc, mail, requested, missed, dropped>>
    BY <1>17 DEF Fetch, SyncStep, Fetched
  <2>2. \A t \in Syncers, q \in Refs : Working(t, q) => Working(t, q)'
    BY <1>17 DEF Fetch, SyncStep, Fetched, Working
  <2> QED
    BY <2>1, <2>2, AnswerKept
<1>18. ASSUME NEW s \in Syncers, SetComplete(s) PROVE AnswerInv'
  <2>1. UNCHANGED <<queue, pc, mail, requested, missed, dropped>>
    BY <1>18 DEF SetComplete, SyncStep
  <2>2. \A t \in Syncers, q \in Refs : Working(t, q) => Working(t, q)'
    BY <1>18 DEF SetComplete, SyncStep, Working
  <2> QED
    BY <2>1, <2>2, AnswerKept
<1>19. ASSUME NEW s \in Syncers, Publish(s) PROVE AnswerInv'
  <2>1. /\ UNCHANGED <<queue, pc, requested, dropped>> /\ sref[s] \in Refs
        /\ missed \subseteq missed'
        /\ \A t \in Syncers \ {s} : spc'[t] = spc[t] /\ sref'[t] = sref[t]
    BY <1>19 DEF Publish, SyncStep, Publishes
  <2>2. ASSUME NEW k \in Jobs, NEW i \in DOMAIN mail[k]
        PROVE  i \in DOMAIN mail'[k] /\ mail'[k][i] = mail[k][i]
    BY <1>19 DEF Publish, Publishes
  <2>3. ASSUME NEW k \in Jobs, RefOf[k] = sref[s], pc[k] = "listen"
        PROVE  \E i \in DOMAIN mail'[k] : mail'[k][i].ref = RefOf[k]
    <3>1. mail'[k] = Append(mail[k], [ref |-> sref[s], status |-> "complete"])
      BY <1>19, <2>3 DEF Publish, Publishes
    <3>2. /\ Len(mail[k]) + 1 \in DOMAIN mail'[k]
          /\ mail'[k][Len(mail[k]) + 1] = [ref |-> sref[s], status |-> "complete"]
      BY <3>1
    <3> QED
      BY <2>3, <3>2
  <2>4. ASSUME NEW k \in Jobs, RefOf[k] = sref[s], pc[k] = "subscribe"
        PROVE  k \in missed'
    BY <1>19, <2>4 DEF Publish, Publishes
  <2>5. \A q \in Refs : Queued(q)' <=> Queued(q)
    BY <2>1 DEF Queued
  <2>6. \A t \in Syncers, q \in Refs : Working(t, q) =>
          Working(t, q)' \/ q = sref[s]
    BY <2>1 DEF Working
  <2>7. ASSUME NEW k \in Jobs, pc[k] \in {"subscribe", "listen"}, Answerable(k)
        PROVE  Answerable(k)'
    <3>1. CASE RefOf[k] = sref[s]
      BY <2>3, <2>4, <2>7, <3>1
    <3>2. CASE RefOf[k] # sref[s]
      BY <2>1, <2>2, <2>5, <2>6, <2>7, <3>2
    <3> QED
      BY <3>1, <3>2
  <2> QED
    BY <2>1, <2>7
<1>20. ASSUME NEW s \in Syncers, PublishError(s) PROVE AnswerInv'
  <2>1. /\ UNCHANGED <<queue, pc, requested, dropped>> /\ sref[s] \in Refs
        /\ missed \subseteq missed'
        /\ \A t \in Syncers \ {s} : spc'[t] = spc[t] /\ sref'[t] = sref[t]
    BY <1>20 DEF PublishError, SyncStep, Publishes
  <2>2. ASSUME NEW k \in Jobs, NEW i \in DOMAIN mail[k]
        PROVE  i \in DOMAIN mail'[k] /\ mail'[k][i] = mail[k][i]
    BY <1>20 DEF PublishError, Publishes
  <2>3. ASSUME NEW k \in Jobs, RefOf[k] = sref[s], pc[k] = "listen"
        PROVE  \E i \in DOMAIN mail'[k] : mail'[k][i].ref = RefOf[k]
    <3>1. mail'[k] = Append(mail[k], [ref |-> sref[s], status |-> "error"])
      BY <1>20, <2>3 DEF PublishError, Publishes
    <3>2. /\ Len(mail[k]) + 1 \in DOMAIN mail'[k]
          /\ mail'[k][Len(mail[k]) + 1] = [ref |-> sref[s], status |-> "error"]
      BY <3>1
    <3> QED
      BY <2>3, <3>2
  <2>4. ASSUME NEW k \in Jobs, RefOf[k] = sref[s], pc[k] = "subscribe"
        PROVE  k \in missed'
    BY <1>20, <2>4 DEF PublishError, Publishes
  <2>5. \A q \in Refs : Queued(q)' <=> Queued(q)
    BY <2>1 DEF Queued
  <2>6. \A t \in Syncers, q \in Refs : Working(t, q) =>
          Working(t, q)' \/ q = sref[s]
    BY <2>1 DEF Working
  <2>7. ASSUME NEW k \in Jobs, pc[k] \in {"subscribe", "listen"}, Answerable(k)
        PROVE  Answerable(k)'
    <3>1. CASE RefOf[k] = sref[s]
      BY <2>3, <2>4, <2>7, <3>1
    <3>2. CASE RefOf[k] # sref[s]
      BY <2>1, <2>2, <2>5, <2>6, <2>7, <3>2
    <3> QED
      BY <3>1, <3>2
  <2> QED
    BY <2>1, <2>7
<1>21. ASSUME NEW s \in Syncers, Unlock(s) PROVE AnswerInv'
  <2>1. UNCHANGED <<queue, pc, mail, requested, missed, dropped>>
    BY <1>21 DEF Unlock, SyncStep
  <2>2. \A t \in Syncers, q \in Refs : Working(t, q) => Working(t, q)'
    BY <1>21 DEF Unlock, SyncStep, Working
  <2> QED
    BY <2>1, <2>2, AnswerKept
<1>22. ASSUME NEW s \in Syncers, SyncRaises(s) PROVE AnswerInv'
  <2>1. UNCHANGED <<queue, pc, mail, requested, missed, dropped>>
    BY <1>22 DEF SyncRaises
  <2>2. \A t \in Syncers, q \in Refs : Working(t, q) => Working(t, q)'
    BY <1>22 DEF SyncRaises, Working
  <2> QED
    BY <2>1, <2>2, AnswerKept
<1>23. ASSUME NEW s \in Syncers, PublishErrorFails(s) PROVE AnswerInv'
  BY <1>23 DEF PublishErrorFails, DropRequest, Queued, Working
<1>24. ASSUME NEW s \in Syncers, Crash(s) PROVE AnswerInv'
  <2>1. UNCHANGED <<queue, jobs, requested, missed>>
    BY <1>24 DEF Crash
  <2>2. dropped \subseteq dropped'
    BY <1>24 DEF Crash, DropRequest
  <2>3. \A t \in Syncers \ {s}, r \in Refs : Working(t, r) => Working(t, r)'
    BY <1>24 DEF Crash, Working
  <2>4. ASSUME NEW j \in Jobs, pc[j] \in {"subscribe", "listen"},
               Working(s, RefOf[j])
        PROVE  j \in dropped'
    BY <1>24, <2>4 DEF Crash, DropRequest, Working
  <2>5. \A r \in Refs : Queued(r) => Queued(r)'
    BY <2>1 DEF Queued
  <2> QED
    BY <2>1, <2>2, <2>3, <2>4, <2>5
<1>25. ASSUME LockExpires PROVE AnswerInv'
  BY <1>25 DEF LockExpires, Queued, Working
<1>26. CASE UNCHANGED vars
  BY <1>26 DEF vars, syncers, bounds, jobs, history, clone, Queued, Working
<1> QED
  BY <1>1, <1>2, <1>3, <1>4, <1>5, <1>6, <1>7, <1>8, <1>9, <1>10, <1>11,
     <1>12, <1>13, <1>14, <1>15, <1>16, <1>17, <1>18, <1>19, <1>20, <1>21,
     <1>22, <1>23, <1>24, <1>25, <1>26
     DEF Next, WaiterStep, ProcessSyncRequest

-----------------------------------------------------------------------------

\* Type correctness of the clone, the sync workers and the waiting jobs.
THEOREM TypeCorrect == Spec => []TypeOK
<1>1. Init => TypeOK
  <2> SUFFICES ASSUME Init PROVE TypeOK
    OBVIOUS
  <2> USE RepoSyncAssumption DEF Init
  <2>1. /\ cache \in [Refs -> Nat] /\ upstream \in [Refs -> Nat]
        /\ dir \in {"absent", "partial", "ok"}
    OBVIOUS
  <2>2. queue \in Seq(Refs) /\ mail \in [Jobs -> Seq(Events)]
    OBVIOUS
  <2>3. /\ spc \in [Syncers -> SyncPCs] /\ sref \in [Syncers -> Refs \cup {None}]
        /\ \A s \in Syncers : spc[s] # "idle" => sref[s] \in Refs
    BY DEF SyncPCs
  <2>4. /\ pc \in [Jobs -> JobPCs] /\ late \subseteq Jobs
        /\ wanted \in [Jobs -> Nat] /\ got \in [Jobs -> Nat]
    BY DEF JobPCs
  <2>5. pushes \in 0..MaxPushes /\ fails \in 0..MaxFails
    OBVIOUS
  <2> QED
    BY <2>1, <2>2, <2>3, <2>4, <2>5 DEF TypeOK
<1> QED
  BY <1>1, TypeStep, PTL DEF Spec

\* The lock's owner is the worker inside the try block, in every reachable state
\* within the TTL.
THEOREM LockInvariant == Spec => []LockInv
<1>1. Init => LockInv
  BY DEF Init, LockInv, LockedPCs, GitPCs
<1> QED
  BY <1>1, LockStep, TypeCorrect, PTL DEF Spec

\* Two sync workers never run git in the bare clone at once within the TTL.
THEOREM OneSync == Spec => []OneSyncWithinTTL
<1>1. LockInv => OneSyncWithinTTL
  BY DEF LockInv, OneSyncWithinTTL
<1> QED
  BY <1>1, LockInvariant, PTL

\* A job that goes on finds a finished clone.
THEOREM CloneReady == Spec => []SyncedHasClone
<1>1. Init => CloneInv
  BY DEF Init, CloneInv
<1>2. CloneInv => SyncedHasClone
  BY DEF CloneInv, SyncedHasClone
<1> QED
  BY <1>1, <1>2, CloneStep, LockInvariant, TypeCorrect, PTL DEF Spec

\* A job's own request is never forgotten: its answer is coming, or was published
\* before the job subscribed, or the request was dropped.
THEOREM Answers == Spec => []AnswerComes
<1>1. Init => AnswerInv
  BY DEF Init, AnswerInv
<1>2. AnswerInv => AnswerComes
  BY DEF AnswerInv, AnswerComes, Answerable
<1> QED
  BY <1>1, <1>2, AnswerStep, TypeCorrect, PTL DEF Spec

=============================================================================
