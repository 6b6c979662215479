--------------------------- MODULE JobQueueProofs ---------------------------
(***************************************************************************)
(* Proofs about JobQueue for every set of jobs and workers and every bound *)
(* on failures.  TypeOK is inductive by itself.  The safety properties are *)
(* not: each of them speaks about jobs whose data key has not expired yet, *)
(* and holds because reclaim_stale_jobs only ever touches jobs whose data  *)
(* key is gone (WorkerKnows), which for a queued job means an expired one  *)
(* (DataWithinTTL).  QueueInv makes that inductive; StatusInv adds what    *)
(* the status key says at each position of a worker, and LifeInv what the  *)
(* refinement of JobLife needs beside them.                                *)
(***************************************************************************)
EXTENDS JobQueue, TLAPS

\* Whatever the queue's structures name was queued by create_job.
OnlyQueued ==
  /\ \A i \in DOMAIN pending : creation[pending[i]] = "queued"
  /\ \A w \in Workers : job[w] \in Jobs => creation[job[w]] = "queued"
  /\ \A w \in Workers : \A j \in todo[w] : creation[j] = "queued"
  /\ \A j \in processing \cup deadLetter \cup started : creation[j] = "queued"

\* A data key is there from its creation to its expiry.
DataWithinTTL ==
  \A j \in Jobs \ expired : creation[j] # "new" => j \in data

\* What a worker's position implies about its job.
WorkerKnows ==
  \A w \in Workers :
    /\ pc[w] \in ReclaimPCs \cup {"dead_letter"} => job[w] \in expired
    /\ pc[w] \in {"run"} \cup CompletePCs => job[w] \in started
    /\ pc[w] \in {"store_status", "unmark", "delete_backup"}
         => job[w] \in results
    /\ pc[w] \in {"mark_status", "store_backup"} /\ job[w] \notin expired
         => job[w] \in processing

\* A started job does not come back before its data key expires.
StartedStaysOut ==
  /\ results \subseteq started
  /\ \A j \in started \ expired :
       /\ ~InPending(j)
       /\ \A w \in Workers : job[w] = j => pc[w] \notin PullPCs

QueueInv ==
  /\ OnlyQueued
  /\ DataWithinTTL
  /\ WorkerKnows
  /\ StartedStaysOut
  /\ SingleCopyWithinTTL
  /\ RunIsRecoverableWithinTTL
  /\ DeadLetterOnlyExpired

\* What the status key of a job within its TTL says at each position of the
\* worker holding it.
StatusAt(w, j) ==
  /\ pc[w] \in {"get_data", "mark", "mark_status"} => status[j] = "pending"
  /\ pc[w] \in {"store_backup", "run"}
       => status[j] = "processing" /\ j \in processing
  /\ pc[w] = "store_result" /\ j \notin results => status[j] = "processing"
  /\ pc[w] \in {"store_result", "store_status"} /\ j \notin processing
       => status[j] \in FinalStatus
  /\ pc[w] \in {"unmark", "delete_backup"} => status[j] \in FinalStatus

StatusInv ==
  /\ StatusIsTruthfulWithinTTL
  /\ \A j \in Jobs \ expired :
       /\ creation[j] = "status" => status[j] = "pending"
       /\ \A w \in Workers : Holds(w, j) => StatusAt(w, j)

\* As long as nothing fails a job never depends on the processing set to be
\* accounted for.
NoLossInv ==
  fails = 0 =>
    \A j \in Jobs : creation[j] = "queued" =>
      \/ InPending(j)
      \/ \E w \in Workers : Holds(w, j)
      \/ j \in deadLetter \cup results

-----------------------------------------------------------------------------

\* Every command of create_job, reclaim_stale_jobs, get_next_job and complete_job,
\* every failure and every expiry keeps the types.
LEMMA TypeOKStep == TypeOK /\ [Next]_vars => TypeOK'
<1> SUFFICES ASSUME TypeOK, [Next]_vars PROVE TypeOK'
  OBVIOUS
<1> USE JobQueueAssumption
<1> USE DEF TypeOK, PCs, ReclaimPCs, HoldPCs, PullPCs, CompletePCs, FinalStatus
<1>1. ASSUME NEW j \in Jobs, CreateData(j) PROVE TypeOK'
  BY <1>1 DEF CreateData, redis, workers, history
<1>2. ASSUME NEW j \in Jobs, CreateStatus(j) PROVE TypeOK'
  BY <1>2 DEF CreateStatus, redis, workers, history
<1>3. ASSUME NEW j \in Jobs, CreatePush(j) PROVE TypeOK'
  BY <1>3 DEF CreatePush, redis, workers, history
<1>4. ASSUME NEW j \in Jobs, CreateFails(j) PROVE TypeOK'
  BY <1>4 DEF CreateFails, redis, workers, history
<1>5. ASSUME NEW j \in Jobs, ExpireData(j) PROVE TypeOK'
  BY <1>5 DEF ExpireData, redis, workers, history
<1>6. ASSUME NEW j \in Jobs, ExpireStatus(j) PROVE TypeOK'
  BY <1>6 DEF ExpireStatus, redis, workers, history
<1>7. ASSUME NEW j \in Jobs, ExpireBackup(j) PROVE TypeOK'
  BY <1>7 DEF ExpireBackup, redis, workers, history
<1>8. ASSUME NEW w \in Workers, ReclaimSnapshot(w) PROVE TypeOK'
  BY <1>8 DEF ReclaimSnapshot, Step, redis, locals, history
<1>9. ASSUME NEW w \in Workers, ReclaimCheck(w) PROVE TypeOK'
  BY <1>9 DEF ReclaimCheck, redis, locals, history
<1>10. ASSUME NEW w \in Workers, ReclaimDone(w) PROVE TypeOK'
  BY <1>10 DEF ReclaimDone, Step, redis, locals, history
<1>11. ASSUME NEW w \in Workers, ReclaimGetBackup(w) PROVE TypeOK'
  BY <1>11 DEF ReclaimGetBackup, Step, redis, locals, history
<1>12. ASSUME NEW w \in Workers, ReclaimRestoreData(w) PROVE TypeOK'
  BY <1>12 DEF ReclaimRestoreData, Step, redis, locals, history
<1>13. ASSUME NEW w \in Workers, ReclaimRestoreStatus(w) PROVE TypeOK'
  BY <1>13 DEF ReclaimRestoreStatus, Step, redis, locals, history
<1>14. ASSUME NEW w \in Workers, ReclaimRequeue(w) PROVE TypeOK'
  BY <1>14 DEF ReclaimRequeue, Step, redis, locals, history
<1>15. ASSUME NEW w \in Workers, ReclaimUnmark(w) PROVE TypeOK'
  BY <1>15 DEF ReclaimUnmark, Step, redis, locals, history
<1>16. ASSUME NEW w \in Workers, ReclaimDeleteBackup(w) PROVE TypeOK'
  BY <1>16 DEF ReclaimDeleteBackup, Step, redis, locals, history
<1>17. ASSUME NEW w \in Workers, ReclaimDrop(w) PROVE TypeOK'
  BY <1>17 DEF ReclaimDrop, Step, redis, locals, history
<1>18. ASSUME NEW w \in Workers, Pop(w) PROVE TypeOK'
  BY <1>18 DEF Pop, Step, redis, locals, history
<1>19. ASSUME NEW w \in Workers, PopTimeout(w) PROVE TypeOK'
  BY <1>19 DEF PopTimeout, Step, redis, locals, history
<1>20. ASSUME NEW w \in Workers, GetData(w) PROVE TypeOK'
  BY <1>20 DEF GetData, Step, redis, locals, history
<1>21. ASSUME NEW w \in Workers, DeadLetter(w) PROVE TypeOK'
  BY <1>21 DEF DeadLetter, Step, redis, locals, history
<1>22. ASSUME NEW w \in Workers, MarkProcessing(w) PROVE TypeOK'
  BY <1>22 DEF MarkProcessing, Step, redis, locals, history
<1>23. ASSUME NEW w \in Workers, MarkStatus(w) PROVE TypeOK'
  BY <1>23 DEF MarkStatus, Step, redis, locals, history
<1>24. ASSUME NEW w \in Workers, StoreBackup(w) PROVE TypeOK'
  BY <1>24 DEF StoreBackup, Step, redis, locals, history
<1>25. ASSUME NEW w \in Workers, RunEnds(w) PROVE TypeOK'
  BY <1>25 DEF RunEnds, Step, redis, locals, history
<1>26. ASSUME NEW w \in Workers, StoreResult(w) PROVE TypeOK'
  BY <1>26 DEF StoreResult, Step, redis, locals, history
<1>27. ASSUME NEW w \in Workers, StoreStatus(w) PROVE TypeOK'
  BY <1>27 DEF StoreStatus, Step, redis, locals, history
<1>28. ASSUME NEW w \in Workers, UnmarkProcessing(w) PROVE TypeOK'
  BY <1>28 DEF UnmarkProcessing, Step, redis, locals, history
<1>29. ASSUME NEW w \in Workers, DeleteBackup(w) PROVE TypeOK'
  BY <1>29 DEF DeleteBackup, Step, ForgetJob, redis, locals, history
<1>30. ASSUME NEW w \in Workers, Abandon(w) PROVE TypeOK'
  BY <1>30 DEF Abandon, ForgetJob, redis, locals, history
<1>31. ASSUME NEW w \in Workers, ReclaimFails(w) PROVE TypeOK'
  BY <1>31 DEF ReclaimFails, redis, locals, history
<1>32. ASSUME NEW w \in Workers, CompleteFails(w) PROVE TypeOK'
  BY <1>32 DEF CompleteFails, redis, locals, history
<1>33. ASSUME NEW w \in Workers, SnapshotFails(w) PROVE TypeOK'
  BY <1>33 DEF SnapshotFails, redis, locals, history
<1>34. ASSUME UNCHANGED vars PROVE TypeOK'
  BY <1>34 DEF vars, redis, workers, history
<1> QED
  BY <1>1, <1>2, <1>3, <1>4, <1>5, <1>6, <1>7, <1>8, <1>9,
     <1>10, <1>11, <1>12, <1>13, <1>14, <1>15, <1>16, <1>17, <1>18,
     <1>19, <1>20, <1>21, <1>22, <1>23, <1>24, <1>25, <1>26, <1>27,
     <1>28, <1>29, <1>30, <1>31, <1>32, <1>33, <1>34
  DEF Next, Create, Expire, WorkerStep, Reclaim, GetNextJob, CompleteJob, Fault

\* Every variable of the queue and of its workers keeps its type: whatever
\* crashes, a worker that is past its BLPOP or inside a reclaim holds a job id.
THEOREM TypeCorrect == Spec => []TypeOK
<1>1. Init => TypeOK
  BY JobQueueAssumption DEF Init, TypeOK, PCs, FinalStatus, ReclaimPCs, HoldPCs,
     PullPCs, CompletePCs
<1> QED
  BY <1>1, TypeOKStep, PTL DEF Spec

-----------------------------------------------------------------------------

\* The same for the inductive invariant: one step per command of the code.
LEMMA QueueInvStep == TypeOK /\ QueueInv /\ [Next]_vars => QueueInv'
<1> SUFFICES ASSUME TypeOK, QueueInv, [Next]_vars PROVE QueueInv'
  OBVIOUS
<1> USE JobQueueAssumption
<1> USE DEF TypeOK, PCs, ReclaimPCs, HoldPCs, PullPCs, CompletePCs, FinalStatus,
            InPending, Holds, QueueInv, OnlyQueued, DataWithinTTL, WorkerKnows,
            StartedStaysOut, SingleCopyWithinTTL, RunIsRecoverableWithinTTL,
            DeadLetterOnlyExpired
<1>1. ASSUME NEW j \in Jobs, CreateData(j) PROVE QueueInv'
  BY <1>1 DEF CreateData, redis, workers, history
<1>2. ASSUME NEW j \in Jobs, CreateStatus(j) PROVE QueueInv'
  BY <1>2 DEF CreateStatus, redis, workers, history
<1>3. ASSUME NEW j \in Jobs, CreatePush(j) PROVE QueueInv'
  BY <1>3 DEF CreatePush, redis, workers, history
<1>4. ASSUME NEW j \in Jobs, CreateFails(j) PROVE QueueInv'
  BY <1>4 DEF CreateFails, redis, workers, history
<1>5. ASSUME NEW j \in Jobs, ExpireData(j) PROVE QueueInv'
  BY <1>5 DEF ExpireData, redis, workers, history
<1>6. ASSUME NEW j \in Jobs, ExpireStatus(j) PROVE QueueInv'
  BY <1>6 DEF ExpireStatus, redis, workers, history
<1>7. ASSUME NEW j \in Jobs, ExpireBackup(j) PROVE QueueInv'
  BY <1>7 DEF ExpireBackup, redis, workers, history
<1>8. ASSUME NEW w \in Workers, ReclaimSnapshot(w) PROVE QueueInv'
  BY <1>8 DEF ReclaimSnapshot, Step, redis, locals, history
<1>9. ASSUME NEW w \in Workers, ReclaimCheck(w) PROVE QueueInv'
  BY <1>9 DEF ReclaimCheck, redis, locals, history
<1>10. ASSUME NEW w \in Workers, ReclaimDone(w) PROVE QueueInv'
  BY <1>10 DEF ReclaimDone, Step, redis, locals, history
<1>11. ASSUME NEW w \in Workers, ReclaimGetBackup(w) PROVE QueueInv'
  BY <1>11 DEF ReclaimGetBackup, Step, redis, locals, history
<1>12. ASSUME NEW w \in Workers, ReclaimRestoreData(w) PROVE QueueInv'
  BY <1>12 DEF ReclaimRestoreData, Step, redis, locals, history
<1>13. ASSUME NEW w \in Workers, ReclaimRestoreStatus(w) PROVE QueueInv'
  BY <1>13 DEF ReclaimRestoreStatus, Step, redis, locals, history
<1>14. ASSUME NEW w \in Workers, ReclaimRequeue(w) PROVE QueueInv'
  BY <1>14 DEF ReclaimRequeue, Step, redis, locals, history
<1>15. ASSUME NEW w \in Workers, ReclaimUnmark(w) PROVE QueueInv'
  BY <1>15 DEF ReclaimUnmark, Step, redis, locals, history
<1>16. ASSUME NEW w \in Workers, ReclaimDeleteBackup(w) PROVE QueueInv'
  BY <1>16 DEF ReclaimDeleteBackup, Step, redis, locals, history
<1>17. ASSUME NEW w \in Workers, ReclaimDrop(w) PROVE QueueInv'
  BY <1>17 DEF ReclaimDrop, Step, redis, locals, history
<1>18. ASSUME NEW w \in Workers, Pop(w) PROVE QueueInv'
  BY <1>18 DEF Pop, Step, redis, locals, history
<1>19. ASSUME NEW w \in Workers, PopTimeout(w) PROVE QueueInv'
  BY <1>19 DEF PopTimeout, Step, redis, locals, history
<1>20. ASSUME NEW w \in Workers, GetData(w) PROVE QueueInv'
  BY <1>20 DEF GetData, Step, redis, locals, history
<1>21. ASSUME NEW w \in Workers, DeadLetter(w) PROVE QueueInv'
  BY <1>21 DEF DeadLetter, Step, redis, locals, history
<1>22. ASSUME NEW w \in Workers, MarkProcessing(w) PROVE QueueInv'
  BY <1>22 DEF MarkProcessing, Step, redis, locals, history
<1>23. ASSUME NEW w \in Workers, MarkStatus(w) PROVE QueueInv'
  BY <1>23 DEF MarkStatus, Step, redis, locals, history
<1>24. ASSUME NEW w \in Workers, StoreBackup(w) PROVE QueueInv'
  BY <1>24 DEF StoreBackup, Step, redis, locals, history
<1>25. ASSUME NEW w \in Workers, RunEnds(w) PROVE QueueInv'
  BY <1>25 DEF RunEnds, Step, redis, locals, history
<1>26. ASSUME NEW w \in Workers, StoreResult(w) PROVE QueueInv'
  BY <1>26 DEF StoreResult, Step, redis, locals, history
<1>27. ASSUME NEW w \in Workers, StoreStatus(w) PROVE QueueInv'
  BY <1>27 DEF StoreStatus, Step, redis, locals, history
<1>28. ASSUME NEW w \in Workers, UnmarkProcessing(w) PROVE QueueInv'
  BY <1>28 DEF UnmarkProcessing, Step, redis, locals, history
<1>29. ASSUME NEW w \in Workers, DeleteBackup(w) PROVE QueueInv'
  BY <1>29 DEF DeleteBackup, Step, ForgetJob, redis, locals, history
<1>30. ASSUME NEW w \in Workers, Abandon(w) PROVE QueueInv'
  BY <1>30 DEF Abandon, ForgetJob, redis, locals, history
<1>31. ASSUME NEW w \in Workers, ReclaimFails(w) PROVE QueueInv'
  BY <1>31 DEF ReclaimFails, redis, locals, history
<1>32. ASSUME NEW w \in Workers, CompleteFails(w) PROVE QueueInv'
  BY <1>32 DEF CompleteFails, redis, locals, history
<1>33. ASSUME NEW w \in Workers, SnapshotFails(w) PROVE QueueInv'
  BY <1>33 DEF SnapshotFails, redis, locals, history
<1>34. ASSUME UNCHANGED vars PROVE QueueInv'
  BY <1>34 DEF vars, redis, workers, history
<1> QED
  BY <1>1, <1>2, <1>3, <1>4, <1>5, <1>6, <1>7, <1>8, <1>9,
     <1>10, <1>11, <1>12, <1>13, <1>14, <1>15, <1>16, <1>17, <1>18,
     <1>19, <1>20, <1>21, <1>22, <1>23, <1>24, <1>25, <1>26, <1>27,
     <1>28, <1>29, <1>30, <1>31, <1>32, <1>33, <1>34
  DEF Next, Create, Expire, WorkerStep, Reclaim, GetNextJob, CompleteJob, Fault

\* The inductive invariant of the queue, which the safety theorems rest on.
THEOREM QueueInvariant == Spec => []QueueInv
<1>1. Init => QueueInv
  BY JobQueueAssumption
  DEF Init, QueueInv, OnlyQueued, DataWithinTTL, WorkerKnows, StartedStaysOut,
      SingleCopyWithinTTL, RunIsRecoverableWithinTTL, DeadLetterOnlyExpired,
      InPending, Holds, HoldPCs, PullPCs, CompletePCs, ReclaimPCs
<1> QED
  BY <1>1, QueueInvStep, TypeCorrect, PTL DEF Spec

\* get_next_job / reclaim_stale_jobs: until its data key first expires there is
\* one copy of a job, on the pending list or with one worker, for any number of
\* workers, crashes and concurrent reclaims.
THEOREM SingleCopy == Spec => []SingleCopyWithinTTL
<1>1. QueueInv => SingleCopyWithinTTL
  BY DEF QueueInv
<1> QED
  BY <1>1, QueueInvariant, PTL

\* get_next_job: from the start of a job's run to its result its processing
\* mark and its backup are there for the reclaim, for as long as its data key
\* has not expired.
THEOREM RunIsRecoverable == Spec => []RunIsRecoverableWithinTTL
<1>1. QueueInv => RunIsRecoverableWithinTTL
  BY DEF QueueInv
<1> QED
  BY <1>1, QueueInvariant, PTL

\* get_next_job: a dead-lettered job was queued and its data key did expire.
THEOREM DeadLetterJustified == Spec => []DeadLetterOnlyExpired
<1>1. QueueInv => DeadLetterOnlyExpired
  BY DEF QueueInv
<1> QED
  BY <1>1, QueueInvariant, PTL

-----------------------------------------------------------------------------

\* The only step that starts a run is StoreBackup, and the job it starts was
\* not started before unless its data key expired in between.
LEMMA StartStep ==
  ASSUME TypeOK, QueueInv, [Next]_vars,
         NEW j \in Jobs \ expired, NEW w \in Workers,
         pc[w] # "run", pc'[w] = "run", job[w] = j
  PROVE  j \notin started
<1>1. pc[w] = "store_backup"
  BY DEF Next, Create, Expire, WorkerStep, Reclaim, GetNextJob, CompleteJob,
         Fault, CreateData, CreateStatus, CreatePush, CreateFails, ExpireData,
         ExpireStatus, ExpireBackup, ReclaimSnapshot, ReclaimCheck, ReclaimDone,
         ReclaimGetBackup, ReclaimRestoreData, ReclaimRestoreStatus,
         ReclaimRequeue, ReclaimUnmark, ReclaimDeleteBackup, ReclaimDrop, Pop,
         PopTimeout, GetData, DeadLetter, MarkProcessing, MarkStatus,
         StoreBackup, RunEnds, StoreResult, StoreStatus, UnmarkProcessing,
         DeleteBackup, Abandon, SnapshotFails, ReclaimFails,
         CompleteFails, Step, TypeOK, vars, workers
<1> QED
  BY <1>1 DEF QueueInv, StartedStaysOut, PullPCs

\* get_next_job: within its TTL a job is executed at most once.
THEOREM NoRerun == Spec => NoRerunWithinTTL
<1>1. TypeOK /\ QueueInv /\ [Next]_vars =>
        [\A j \in Jobs \ expired :
          (\E w \in Workers : pc[w] # "run" /\ pc'[w] = "run" /\ job[w] = j)
            => j \notin started]_vars
  BY StartStep
<1> QED
  BY <1>1, TypeCorrect, QueueInvariant, PTL DEF Spec, NoRerunWithinTTL

-----------------------------------------------------------------------------

\* Each command keeps the status key in agreement with the place of the worker
\* that is between get_next_job and complete_job.
LEMMA StatusInvStep ==
  TypeOK /\ QueueInv /\ StatusInv /\ [Next]_vars => StatusInv'
<1> SUFFICES ASSUME TypeOK, QueueInv, StatusInv, [Next]_vars PROVE StatusInv'
  OBVIOUS
<1> USE JobQueueAssumption
<1> USE DEF TypeOK, PCs, ReclaimPCs, HoldPCs, PullPCs, CompletePCs, FinalStatus,
            InPending, Holds, QueueInv, OnlyQueued, DataWithinTTL, WorkerKnows,
            StartedStaysOut, SingleCopyWithinTTL, StatusInv, StatusAt,
            StatusIsTruthfulWithinTTL
<1>1. ASSUME NEW j \in Jobs, CreateData(j) PROVE StatusInv'
  BY <1>1 DEF CreateData, redis, workers, history
<1>2. ASSUME NEW j \in Jobs, CreateStatus(j) PROVE StatusInv'
  BY <1>2 DEF CreateStatus, redis, workers, history
<1>3. ASSUME NEW j \in Jobs, CreatePush(j) PROVE StatusInv'
  BY <1>3 DEF CreatePush, redis, workers, history
<1>4. ASSUME NEW j \in Jobs, CreateFails(j) PROVE StatusInv'
  BY <1>4 DEF CreateFails, redis, workers, history
<1>5. ASSUME NEW j \in Jobs, ExpireData(j) PROVE StatusInv'
  BY <1>5 DEF ExpireData, redis, workers, history
<1>6. ASSUME NEW j \in Jobs, ExpireStatus(j) PROVE StatusInv'
  BY <1>6 DEF ExpireStatus, redis, workers, history
<1>7. ASSUME NEW j \in Jobs, ExpireBackup(j) PROVE StatusInv'
  BY <1>7 DEF ExpireBackup, redis, workers, history
<1>8. ASSUME NEW w \in Workers, ReclaimSnapshot(w) PROVE StatusInv'
  BY <1>8 DEF ReclaimSnapshot, Step, redis, locals, history
<1>9. ASSUME NEW w \in Workers, ReclaimCheck(w) PROVE StatusInv'
  BY <1>9 DEF ReclaimCheck, redis, locals, history
<1>10. ASSUME NEW w \in Workers, ReclaimDone(w) PROVE StatusInv'
  BY <1>10 DEF ReclaimDone, Step, redis, locals, history
<1>11. ASSUME NEW w \in Workers, ReclaimGetBackup(w) PROVE StatusInv'
  BY <1>11 DEF ReclaimGetBackup, Step, redis, locals, history
<1>12. ASSUME NEW w \in Workers, ReclaimRestoreData(w) PROVE StatusInv'
  BY <1>12 DEF ReclaimRestoreData, Step, redis, locals, history
<1>13. ASSUME NEW w \in Workers, ReclaimRestoreStatus(w) PROVE StatusInv'
  BY <1>13 DEF ReclaimRestoreStatus, Step, redis, locals, history
<1>14. ASSUME NEW w \in Workers, ReclaimRequeue(w) PROVE StatusInv'
  BY <1>14 DEF ReclaimRequeue, Step, redis, locals, history
<1>15. ASSUME NEW w \in Workers, ReclaimUnmark(w) PROVE StatusInv'
  BY <1>15 DEF ReclaimUnmark, Step, redis, locals, history
<1>16. ASSUME NEW w \in Workers, ReclaimDeleteBackup(w) PROVE StatusInv'
  BY <1>16 DEF ReclaimDeleteBackup, Step, redis, locals, history
<1>17. ASSUME NEW w \in Workers, ReclaimDrop(w) PROVE StatusInv'
  BY <1>17 DEF ReclaimDrop, Step, redis, locals, history
<1>18. ASSUME NEW w \in Workers, Pop(w) PROVE StatusInv'
  BY <1>18 DEF Pop, Step, redis, locals, history
<1>19. ASSUME NEW w \in Workers, PopTimeout(w) PROVE StatusInv'
  BY <1>19 DEF PopTimeout, Step, redis, locals, history
<1>20. ASSUME NEW w \in Workers, GetData(w) PROVE StatusInv'
  BY <1>20 DEF GetData, Step, redis, locals, history
<1>21. ASSUME NEW w \in Workers, DeadLetter(w) PROVE StatusInv'
  BY <1>21 DEF DeadLetter, Step, redis, locals, history
<1>22. ASSUME NEW w \in Workers, MarkProcessing(w) PROVE StatusInv'
  BY <1>22 DEF MarkProcessing, Step, redis, locals, history
<1>23. ASSUME NEW w \in Workers, MarkStatus(w) PROVE StatusInv'
  BY <1>23 DEF MarkStatus, Step, redis, locals, history
<1>24. ASSUME NEW w \in Workers, StoreBackup(w) PROVE StatusInv'
  BY <1>24 DEF StoreBackup, Step, redis, locals, history
<1>25. ASSUME NEW w \in Workers, RunEnds(w) PROVE StatusInv'
  BY <1>25 DEF RunEnds, Step, redis, locals, history
<1>26. ASSUME NEW w \in Workers, StoreResult(w) PROVE StatusInv'
  BY <1>26 DEF StoreResult, Step, redis, locals, history
<1>27. ASSUME NEW w \in Workers, StoreStatus(w) PROVE StatusInv'
  BY <1>27 DEF StoreStatus, Step, redis, locals, history
<1>28. ASSUME NEW w \in Workers, UnmarkProcessing(w) PROVE StatusInv'
  BY <1>28 DEF UnmarkProcessing, Step, redis, locals, history
<1>29. ASSUME NEW w \in Workers, DeleteBackup(w) PROVE StatusInv'
  BY <1>29 DEF DeleteBackup, Step, ForgetJob, redis, locals, history
<1>30. ASSUME NEW w \in Workers, Abandon(w) PROVE StatusInv'
  BY <1>30 DEF Abandon, ForgetJob, redis, locals, history
<1>31. ASSUME NEW w \in Workers, ReclaimFails(w) PROVE StatusInv'
  BY <1>31 DEF ReclaimFails, redis, locals, history
<1>32. ASSUME NEW w \in Workers, CompleteFails(w) PROVE StatusInv'
  BY <1>32 DEF CompleteFails, redis, locals, history
<1>33. ASSUME NEW w \in Workers, SnapshotFails(w) PROVE StatusInv'
  BY <1>33 DEF SnapshotFails, redis, locals, history
<1>34. ASSUME UNCHANGED vars PROVE StatusInv'
  BY <1>34 DEF vars, redis, workers, history
<1> QED
  BY <1>1, <1>2, <1>3, <1>4, <1>5, <1>6, <1>7, <1>8, <1>9,
     <1>10, <1>11, <1>12, <1>13, <1>14, <1>15, <1>16, <1>17, <1>18,
     <1>19, <1>20, <1>21, <1>22, <1>23, <1>24, <1>25, <1>26, <1>27,
     <1>28, <1>29, <1>30, <1>31, <1>32, <1>33, <1>34
  DEF Next, Create, Expire, WorkerStep, Reclaim, GetNextJob, CompleteJob, Fault

\* get_job_status: what the recovery sweep reads of a job within its TTL is
\* true - "pending" or "processing" until the result is stored, a final status
\* once the job has left the queue - whichever command of complete_job fails.
THEOREM StatusTruthful == Spec => []StatusIsTruthfulWithinTTL
<1>1. Init => StatusInv
  BY JobQueueAssumption
  DEF Init, StatusInv, StatusAt, StatusIsTruthfulWithinTTL, InPending, Holds,
      HoldPCs, PullPCs, CompletePCs
<1>2. StatusInv => StatusIsTruthfulWithinTTL
  BY DEF StatusInv
<1> QED
  BY <1>1, <1>2, StatusInvStep, TypeCorrect, QueueInvariant, PTL DEF Spec

-----------------------------------------------------------------------------

\* What RPUSH does to the pending list: nothing leaves it, the id is on it.
LEMMA InPendingAppend ==
  ASSUME TypeOK, NEW j \in Jobs, pending' = Append(pending, j), NEW k \in Jobs,
         InPending(k) \/ k = j
  PROVE  InPending(k)'
<1>1. CASE k = j
  <2>1. Len(pending) + 1 \in DOMAIN pending' /\ pending'[Len(pending) + 1] = k
    BY <1>1 DEF TypeOK
  <2> QED
    BY <2>1 DEF InPending
<1>2. CASE InPending(k)
  <2>1. PICK i \in DOMAIN pending : pending[i] = k
    BY <1>2 DEF InPending
  <2>2. i \in DOMAIN pending' /\ pending'[i] = k
    BY <2>1 DEF TypeOK
  <2> QED
    BY <2>2 DEF InPending
<1> QED
  BY <1>1, <1>2

\* What BLPOP does to it: only the head leaves.
LEMMA InPendingTail ==
  ASSUME TypeOK, pending # <<>>, pending' = Tail(pending), NEW k \in Jobs,
         InPending(k), k # Head(pending)
  PROVE  InPending(k)'
<1>1. PICK i \in DOMAIN pending : pending[i] = k
  BY DEF InPending
<1>2. i - 1 \in DOMAIN pending' /\ pending'[i - 1] = k
  BY <1>1 DEF TypeOK
<1> QED
  BY <1>2 DEF InPending

\* Each command hands a job over before it lets go of it, as long as none fails.
LEMMA NoLossStep ==
  TypeOK /\ QueueInv /\ NoLossInv /\ [Next]_vars => NoLossInv'
<1> SUFFICES ASSUME TypeOK, QueueInv, NoLossInv, [Next]_vars PROVE NoLossInv'
  OBVIOUS
<1> USE JobQueueAssumption
<1> USE DEF TypeOK, PCs, ReclaimPCs, HoldPCs, PullPCs, CompletePCs, Holds,
            QueueInv, WorkerKnows, NoLossInv
<1>1. ASSUME NEW j \in Jobs, CreateData(j) PROVE NoLossInv'
  BY <1>1 DEF CreateData, redis, workers, history, InPending
<1>2. ASSUME NEW j \in Jobs, CreateStatus(j) PROVE NoLossInv'
  BY <1>2 DEF CreateStatus, redis, workers, history, InPending
<1>3. ASSUME NEW j \in Jobs, CreatePush(j) PROVE NoLossInv'
  <2>1. \A k \in Jobs : InPending(k) \/ k = j => InPending(k)'
    BY <1>3, InPendingAppend DEF CreatePush, redis, workers, history
  <2> QED
    BY <1>3, <2>1 DEF CreatePush, redis, workers, history
<1>4. ASSUME NEW j \in Jobs, CreateFails(j) PROVE NoLossInv'
  BY <1>4 DEF CreateFails, redis, workers, history, InPending
<1>5. ASSUME NEW j \in Jobs, ExpireData(j) PROVE NoLossInv'
  BY <1>5 DEF ExpireData, redis, workers, history, InPending
<1>6. ASSUME NEW j \in Jobs, ExpireStatus(j) PROVE NoLossInv'
  BY <1>6 DEF ExpireStatus, redis, workers, history, InPending
<1>7. ASSUME NEW j \in Jobs, ExpireBackup(j) PROVE NoLossInv'
  BY <1>7 DEF ExpireBackup, redis, workers, history, InPending
<1>8. ASSUME NEW w \in Workers, ReclaimSnapshot(w) PROVE NoLossInv'
  BY <1>8 DEF ReclaimSnapshot, Step, redis, locals, history, InPending
<1>9. ASSUME NEW w \in Workers, ReclaimCheck(w) PROVE NoLossInv'
  BY <1>9 DEF ReclaimCheck, redis, locals, history, InPending
<1>10. ASSUME NEW w \in Workers, ReclaimDone(w) PROVE NoLossInv'
  BY <1>10 DEF ReclaimDone, Step, redis, locals, history, InPending
<1>11. ASSUME NEW w \in Workers, ReclaimGetBackup(w) PROVE NoLossInv'
  BY <1>11 DEF ReclaimGetBackup, Step, redis, locals, history, InPending
<1>12. ASSUME NEW w \in Workers, ReclaimRestoreData(w) PROVE NoLossInv'
  BY <1>12 DEF ReclaimRestoreData, Step, redis, locals, history, InPending
<1>13. ASSUME NEW w \in Workers, ReclaimRestoreStatus(w) PROVE NoLossInv'
  BY <1>13 DEF ReclaimRestoreStatus, Step, redis, locals, history, InPending
<1>14. ASSUME NEW w \in Workers, ReclaimRequeue(w) PROVE NoLossInv'
  <2>1. \A k \in Jobs : InPending(k) \/ k = job[w] => InPending(k)'
    BY <1>14, InPendingAppend DEF ReclaimRequeue, Step, redis, locals, history
  <2> QED
    BY <1>14, <2>1 DEF ReclaimRequeue, Step, redis, locals, history
<1>15. ASSUME NEW w \in Workers, ReclaimUnmark(w) PROVE NoLossInv'
  BY <1>15 DEF ReclaimUnmark, Step, redis, locals, history, InPending
<1>16. ASSUME NEW w \in Workers, ReclaimDeleteBackup(w) PROVE NoLossInv'
  BY <1>16 DEF ReclaimDeleteBackup, Step, redis, locals, history, InPending
<1>17. ASSUME NEW w \in Workers, ReclaimDrop(w) PROVE NoLossInv'
  BY <1>17 DEF ReclaimDrop, Step, redis, locals, history, InPending
<1>18. ASSUME NEW w \in Workers, Pop(w) PROVE NoLossInv'
  <2>1. \A k \in Jobs : InPending(k) => InPending(k)' \/ k = Head(pending)
    BY <1>18, InPendingTail DEF Pop, Step, redis, locals, history
  <2> QED
    BY <1>18, <2>1 DEF Pop, Step, redis, locals, history
<1>19. ASSUME NEW w \in Workers, PopTimeout(w) PROVE NoLossInv'
  BY <1>19 DEF PopTimeout, Step, redis, locals, history, InPending
<1>20. ASSUME NEW w \in Workers, GetData(w) PROVE NoLossInv'
  BY <1>20 DEF GetData, Step, redis, locals, history, InPending
<1>21. ASSUME NEW w \in Workers, DeadLetter(w) PROVE NoLossInv'
  BY <1>21 DEF DeadLetter, Step, redis, locals, history, InPending
<1>22. ASSUME NEW w \in Workers, MarkProcessing(w) PROVE NoLossInv'
  BY <1>22 DEF MarkProcessing, Step, redis, locals, history, InPending
<1>23. ASSUME NEW w \in Workers, MarkStatus(w) PROVE NoLossInv'
  BY <1>23 DEF MarkStatus, Step, redis, locals, history, InPending
<1>24. ASSUME NEW w \in Workers, StoreBackup(w) PROVE NoLossInv'
  BY <1>24 DEF StoreBackup, Step, redis, locals, history, InPending
<1>25. ASSUME NEW w \in Workers, RunEnds(w) PROVE NoLossInv'
  BY <1>25 DEF RunEnds, Step, redis, locals, history, InPending
<1>26. ASSUME NEW w \in Workers, StoreResult(w) PROVE NoLossInv'
  BY <1>26 DEF StoreResult, Step, redis, locals, history, InPending
<1>27. ASSUME NEW w \in Workers, StoreStatus(w) PROVE NoLossInv'
  BY <1>27 DEF StoreStatus, Step, redis, locals, history, InPending
<1>28. ASSUME NEW w \in Workers, UnmarkProcessing(w) PROVE NoLossInv'
  BY <1>28 DEF UnmarkProcessing, Step, redis, locals, history, InPending
<1>29. ASSUME NEW w \in Workers, DeleteBackup(w) PROVE NoLossInv'
  BY <1>29 DEF DeleteBackup, Step, ForgetJob, redis, locals, history, InPending
<1>30. ASSUME NEW w \in Workers, Abandon(w) PROVE NoLossInv'
  BY <1>30 DEF Abandon, ForgetJob, redis, locals, history, InPending
<1>31. ASSUME NEW w \in Workers, ReclaimFails(w) PROVE NoLossInv'
  BY <1>31 DEF ReclaimFails, redis, locals, history, InPending
<1>32. ASSUME NEW w \in Workers, CompleteFails(w) PROVE NoLossInv'
  BY <1>32 DEF CompleteFails, redis, locals, history, InPending
<1>33. ASSUME NEW w \in Workers, SnapshotFails(w) PROVE NoLossInv'
  BY <1>33 DEF SnapshotFails, redis, locals, history, InPending
<1>34. ASSUME UNCHANGED vars PROVE NoLossInv'
  BY <1>34 DEF vars, redis, workers, history, InPending
<1> QED
  BY <1>1, <1>2, <1>3, <1>4, <1>5, <1>6, <1>7, <1>8, <1>9,
     <1>10, <1>11, <1>12, <1>13, <1>14, <1>15, <1>16, <1>17, <1>18,
     <1>19, <1>20, <1>21, <1>22, <1>23, <1>24, <1>25, <1>26, <1>27,
     <1>28, <1>29, <1>30, <1>31, <1>32, <1>33, <1>34
  DEF Next, Create, Expire, WorkerStep, Reclaim, GetNextJob, CompleteJob, Fault

\* create_job to complete_job: without a crash or a failed command no queued
\* job disappears, however TTLs and concurrent reclaims fall.
THEOREM NoLoss == Spec => []NoLossWithoutFailure
<1>1. Init => NoLossInv
  BY DEF Init, NoLossInv
<1>2. NoLossInv => NoLossWithoutFailure
  BY DEF NoLossInv, NoLossWithoutFailure, Accounted
<1> QED
  BY <1>1, <1>2, NoLossStep, TypeCorrect, QueueInvariant, PTL DEF Spec

-----------------------------------------------------------------------------
(* The refinement of JobLife.                                              *)

\* What the refinement needs beside the safety invariants: a job's status key
\* exists from its announcement to its expiry, and a worker that completes a job
\* finds "processing" or a final status there.
LifeInv ==
  /\ \A j \in Jobs : creation[j] \in {"new", "data"} => status[j] = "none"
  /\ \A j \in expired : creation[j] \in {"queued", "failed"}
  /\ \A j \in Jobs \ expired : creation[j] = "queued" => status[j] # "none"
  /\ \A w \in Workers :
       pc[w] \in {"store_result", "store_status"} /\ job[w] \notin expired
         => status[job[w]] \in {"processing"} \cup FinalStatus

\* No command of create_job, the reclaim or complete_job breaks that, and no TTL.
LEMMA LifeInvStep ==
  TypeOK /\ QueueInv /\ StatusInv /\ LifeInv /\ [Next]_vars => LifeInv'
<1> SUFFICES ASSUME TypeOK, QueueInv, StatusInv, LifeInv, [Next]_vars PROVE LifeInv'
  OBVIOUS
<1> USE JobQueueAssumption
<1> USE DEF TypeOK, PCs, ReclaimPCs, HoldPCs, PullPCs, CompletePCs, FinalStatus, Holds,
            QueueInv, OnlyQueued, WorkerKnows, SingleCopyWithinTTL, StatusInv, StatusAt,
            LifeInv
<1>1. ASSUME NEW j \in Jobs, CreateData(j) PROVE LifeInv'
  BY <1>1 DEF CreateData, redis, workers, history
<1>2. ASSUME NEW j \in Jobs, CreateStatus(j) PROVE LifeInv'
  BY <1>2 DEF CreateStatus, redis, workers, history
<1>3. ASSUME NEW j \in Jobs, CreatePush(j) PROVE LifeInv'
  BY <1>3 DEF CreatePush, redis, workers, history
<1>4. ASSUME NEW j \in Jobs, CreateFails(j) PROVE LifeInv'
  BY <1>4 DEF CreateFails, redis, workers, history
<1>5. ASSUME NEW j \in Jobs, ExpireData(j) PROVE LifeInv'
  BY <1>5 DEF ExpireData, redis, workers, history
<1>6. ASSUME NEW j \in Jobs, ExpireStatus(j) PROVE LifeInv'
  BY <1>6 DEF ExpireStatus, redis, workers, history
<1>7. ASSUME NEW j \in Jobs, ExpireBackup(j) PROVE LifeInv'
  BY <1>7 DEF ExpireBackup, redis, workers, history
<1>8. ASSUME NEW w \in Workers, ReclaimSnapshot(w) PROVE LifeInv'
  BY <1>8 DEF ReclaimSnapshot, Step, redis, locals, history
<1>9. ASSUME NEW w \in Workers, ReclaimCheck(w) PROVE LifeInv'
  BY <1>9 DEF ReclaimCheck, redis, locals, history
<1>10. ASSUME NEW w \in Workers, ReclaimDone(w) PROVE LifeInv'
  BY <1>10 DEF ReclaimDone, Step, redis, locals, history
<1>11. ASSUME NEW w \in Workers, ReclaimGetBackup(w) PROVE LifeInv'
  BY <1>11 DEF ReclaimGetBackup, Step, redis, locals, history
<1>12. ASSUME NEW w \in Workers, ReclaimRestoreData(w) PROVE LifeInv'
  BY <1>12 DEF ReclaimRestoreData, Step, redis, locals, history
<1>13. ASSUME NEW w \in Workers, ReclaimRestoreStatus(w) PROVE LifeInv'
  BY <1>13 DEF ReclaimRestoreStatus, Step, redis, locals, history
<1>14. ASSUME NEW w \in Workers, ReclaimRequeue(w) PROVE LifeInv'
  BY <1>14 DEF ReclaimRequeue, Step, redis, locals, history
<1>15. ASSUME NEW w \in Workers, ReclaimUnmark(w) PROVE LifeInv'
  BY <1>15 DEF ReclaimUnmark, Step, redis, locals, history
<1>16. ASSUME NEW w \in Workers, ReclaimDeleteBackup(w) PROVE LifeInv'
  BY <1>16 DEF ReclaimDeleteBackup, Step, redis, locals, history
<1>17. ASSUME NEW w \in Workers, ReclaimDrop(w) PROVE LifeInv'
  BY <1>17 DEF ReclaimDrop, Step, redis, locals, history
<1>18. ASSUME NEW w \in Workers, Pop(w) PROVE LifeInv'
  BY <1>18 DEF Pop, Step, redis, locals, history
<1>19. ASSUME NEW w \in Workers, PopTimeout(w) PROVE LifeInv'
  BY <1>19 DEF PopTimeout, Step, redis, locals, history
<1>20. ASSUME NEW w \in Workers, GetData(w) PROVE LifeInv'
  BY <1>20 DEF GetData, Step, redis, locals, history
<1>21. ASSUME NEW w \in Workers, DeadLetter(w) PROVE LifeInv'
  BY <1>21 DEF DeadLetter, Step, redis, locals, history
<1>22. ASSUME NEW w \in Workers, MarkProcessing(w) PROVE LifeInv'
  BY <1>22 DEF MarkProcessing, Step, redis, locals, history
<1>23. ASSUME NEW w \in Workers, MarkStatus(w) PROVE LifeInv'
  BY <1>23 DEF MarkStatus, Step, redis, locals, history
<1>24. ASSUME NEW w \in Workers, StoreBackup(w) PROVE LifeInv'
  BY <1>24 DEF StoreBackup, Step, redis, locals, history
<1>25. ASSUME NEW w \in Workers, RunEnds(w) PROVE LifeInv'
  BY <1>25 DEF RunEnds, Step, redis, locals, history
<1>26. ASSUME NEW w \in Workers, StoreResult(w) PROVE LifeInv'
  BY <1>26 DEF StoreResult, Step, redis, locals, history
<1>27. ASSUME NEW w \in Workers, StoreStatus(w) PROVE LifeInv'
  BY <1>27 DEF StoreStatus, Step, redis, locals, history
<1>28. ASSUME NEW w \in Workers, UnmarkProcessing(w) PROVE LifeInv'
  BY <1>28 DEF UnmarkProcessing, Step, redis, locals, history
<1>29. ASSUME NEW w \in Workers, DeleteBackup(w) PROVE LifeInv'
  BY <1>29 DEF DeleteBackup, Step, ForgetJob, redis, locals, history
<1>30. ASSUME NEW w \in Workers, Abandon(w) PROVE LifeInv'
  BY <1>30 DEF Abandon, ForgetJob, redis, locals, history
<1>31. ASSUME NEW w \in Workers, ReclaimFails(w) PROVE LifeInv'
  BY <1>31 DEF ReclaimFails, redis, locals, history
<1>32. ASSUME NEW w \in Workers, CompleteFails(w) PROVE LifeInv'
  BY <1>32 DEF CompleteFails, redis, locals, history
<1>33. ASSUME NEW w \in Workers, SnapshotFails(w) PROVE LifeInv'
  BY <1>33 DEF SnapshotFails, redis, locals, history
<1>34. ASSUME UNCHANGED vars PROVE LifeInv'
  BY <1>34 DEF vars, redis, workers, history
<1> QED
  BY <1>1, <1>2, <1>3, <1>4, <1>5, <1>6, <1>7, <1>8, <1>9,
     <1>10, <1>11, <1>12, <1>13, <1>14, <1>15, <1>16, <1>17, <1>18,
     <1>19, <1>20, <1>21, <1>22, <1>23, <1>24, <1>25, <1>26, <1>27,
     <1>28, <1>29, <1>30, <1>31, <1>32, <1>33, <1>34
  DEF Next, Create, Expire, WorkerStep, Reclaim, GetNextJob, CompleteJob, Fault

\* Jobs whose life does not move leave JobLife's state as it is ...
LEMMA LifeSame ==
  ASSUME \A k \in Jobs : LifeOf(k)' = LifeOf(k)
  PROVE  UNCHANGED [k \in Jobs |-> LifeOf(k)]
OBVIOUS

\* ... and one whose life moves changes it in one place.
LEMMA LifeMoves ==
  ASSUME NEW j \in Jobs, \A k \in Jobs \ {j} : LifeOf(k)' = LifeOf(k)
  PROVE  /\ [k \in Jobs |-> LifeOf(k)][j] = LifeOf(j)
         /\ [k \in Jobs |-> LifeOf(k)]'
              = [[k \in Jobs |-> LifeOf(k)] EXCEPT ![j] = LifeOf(j)']
OBVIOUS

\* The reclaim's RPUSH, of a job that was or was not started before.
LEMMA LifeRedelivers ==
  ASSUME NEW j \in Jobs, j \in expired, UNCHANGED <<status, expired>>,
         \A k \in Jobs \ {j} : LifeOf(k)' = LifeOf(k),
         \/ LifeOf(j)' = LifeOf(j)
         \/ LifeOf(j) = "taken" /\ LifeOf(j)' = "queued"
  PROVE  Life!Redeliver(j) \/ UNCHANGED Life!lifeVars
<1>1. CASE LifeOf(j)' = LifeOf(j)
  BY <1>1, LifeSame DEF Life!lifeVars
<1>2. CASE LifeOf(j) = "taken" /\ LifeOf(j)' = "queued"
  BY <1>2, LifeMoves DEF Life!Redeliver, Life!Goes
<1> QED
  BY <1>1, <1>2

\* The start of a run, of a job that left the list or of a late duplicate.
LEMMA LifeStarts ==
  ASSUME NEW j \in Jobs, UNCHANGED <<status, expired>>,
         \A k \in Jobs \ {j} : LifeOf(k)' = LifeOf(k),
         LifeOf(j)' = "running", LifeOf(j) \in {"queued", "taken"},
         LifeOf(j) = "queued" => j \in expired,
         status[j] = "processing" \/ j \in expired
  PROVE  Life!Start(j)
BY LifeMoves DEF Life!Start

\* Every Redis command of the queue is a step of a job's life or none.
LEMMA LifeStep ==
  TypeOK /\ QueueInv /\ StatusInv /\ LifeInv /\ [Next]_vars
    => [Life!LifeNext]_(Life!lifeVars)
<1> SUFFICES ASSUME TypeOK, QueueInv, StatusInv, LifeInv, [Next]_vars
             PROVE  Life!LifeNext \/ UNCHANGED Life!lifeVars
  OBVIOUS
<1> USE JobQueueAssumption
<1> USE DEF TypeOK, PCs, ReclaimPCs, HoldPCs, PullPCs, CompletePCs, FinalStatus, Holds,
            QueueInv, OnlyQueued, WorkerKnows, SingleCopyWithinTTL, StartedStaysOut, StatusInv,
            StatusAt, LifeInv, Life!lifeVars
<1>1. ASSUME NEW j \in Jobs, CreateData(j) PROVE UNCHANGED Life!lifeVars
  BY <1>1 DEF CreateData, redis, workers, history, InPending, LifeOf
<1>2. ASSUME NEW j \in Jobs, CreateStatus(j) PROVE Life!Announce(j)
  BY <1>2 DEF CreateStatus, redis, workers, history, InPending, LifeOf, Life!Announce, Life!Says
<1>3. ASSUME NEW j \in Jobs, CreatePush(j) PROVE Life!Enqueue(j)
  <2>1. \A k \in Jobs : InPending(k)' <=> InPending(k) \/ k = j
    BY <1>3, InPendingAppend DEF CreatePush, redis, workers, history, InPending
  <2>2. LifeOf(j) = "new" /\ LifeOf(j)' = "queued"
    BY <1>3, <2>1 DEF CreatePush, redis, workers, history, LifeOf, InPending
  <2>3. \A k \in Jobs \ {j} : LifeOf(k)' = LifeOf(k)
    BY <1>3, <2>1 DEF CreatePush, redis, workers, history, LifeOf
  <2>4. status[j] = "pending" /\ UNCHANGED <<status, expired>>
    BY <1>3 DEF CreatePush, history
  <2> QED
    BY <2>2, <2>3, <2>4, LifeMoves DEF Life!Enqueue, Life!Goes
<1>4. ASSUME NEW j \in Jobs, CreateFails(j) PROVE UNCHANGED Life!lifeVars
  BY <1>4 DEF CreateFails, redis, workers, history, InPending, LifeOf
<1>5. ASSUME NEW j \in Jobs, ExpireData(j) PROVE Life!Expire(j) \/ UNCHANGED Life!lifeVars
  BY <1>5 DEF ExpireData, redis, workers, history, InPending, LifeOf, Life!Expire
<1>6. ASSUME NEW j \in Jobs, ExpireStatus(j) PROVE Life!Blur(j)
  BY <1>6 DEF ExpireStatus, redis, workers, history, InPending, LifeOf, Life!Blur, Life!Final
<1>7. ASSUME NEW j \in Jobs, ExpireBackup(j) PROVE UNCHANGED Life!lifeVars
  BY <1>7 DEF ExpireBackup, redis, workers, history, InPending, LifeOf
<1>8. ASSUME NEW w \in Workers, ReclaimSnapshot(w) PROVE UNCHANGED Life!lifeVars
  BY <1>8 DEF ReclaimSnapshot, Step, redis, locals, history, InPending, LifeOf
<1>9. ASSUME NEW w \in Workers, ReclaimCheck(w) PROVE UNCHANGED Life!lifeVars
  BY <1>9 DEF ReclaimCheck, redis, locals, history, InPending, LifeOf
<1>10. ASSUME NEW w \in Workers, ReclaimDone(w) PROVE UNCHANGED Life!lifeVars
  BY <1>10 DEF ReclaimDone, Step, redis, locals, history, InPending, LifeOf
<1>11. ASSUME NEW w \in Workers, ReclaimGetBackup(w) PROVE UNCHANGED Life!lifeVars
  BY <1>11 DEF ReclaimGetBackup, Step, redis, locals, history, InPending, LifeOf
<1>12. ASSUME NEW w \in Workers, ReclaimRestoreData(w) PROVE UNCHANGED Life!lifeVars
  BY <1>12 DEF ReclaimRestoreData, Step, redis, locals, history, InPending, LifeOf
<1>13. ASSUME NEW w \in Workers, ReclaimRestoreStatus(w)
       PROVE  job[w] \in Jobs /\ Life!Blur(job[w])
  BY <1>13 DEF ReclaimRestoreStatus, Step, redis, locals, history, InPending, LifeOf, Life!Blur,
               Life!Final
<1>14. ASSUME NEW w \in Workers, ReclaimRequeue(w)
       PROVE  \E j \in Jobs : Life!Redeliver(j) \/ UNCHANGED Life!lifeVars
  <2>1. PICK j \in Jobs : j = job[w] /\ j \in expired /\ creation[j] = "queued"
    BY <1>14 DEF ReclaimRequeue, Step
  <2>2. \A k \in Jobs : InPending(k)' <=> InPending(k) \/ k = j
    BY <1>14, <2>1, InPendingAppend
    DEF ReclaimRequeue, Step, redis, locals, history, InPending
  <2>3. UNCHANGED <<creation, status, started, results, expired>>
    BY <1>14 DEF ReclaimRequeue, Step
  <2>4. \/ LifeOf(j)' = LifeOf(j)
        \/ LifeOf(j) = "taken" /\ LifeOf(j)' = "queued"
    BY <2>1, <2>2, <2>3 DEF LifeOf
  <2>5. \A k \in Jobs \ {j} : LifeOf(k)' = LifeOf(k)
    BY <2>2, <2>3 DEF LifeOf
  <2> QED
    BY <2>1, <2>3, <2>4, <2>5, LifeRedelivers
<1>15. ASSUME NEW w \in Workers, ReclaimUnmark(w) PROVE UNCHANGED Life!lifeVars
  BY <1>15 DEF ReclaimUnmark, Step, redis, locals, history, InPending, LifeOf
<1>16. ASSUME NEW w \in Workers, ReclaimDeleteBackup(w) PROVE UNCHANGED Life!lifeVars
  BY <1>16 DEF ReclaimDeleteBackup, Step, redis, locals, history, InPending, LifeOf
<1>17. ASSUME NEW w \in Workers, ReclaimDrop(w) PROVE UNCHANGED Life!lifeVars
  BY <1>17 DEF ReclaimDrop, Step, redis, locals, history, InPending, LifeOf
<1>18. ASSUME NEW w \in Workers, Pop(w)
       PROVE  \E h \in Jobs : Life!Take(h) \/ UNCHANGED Life!lifeVars
  <2>1. PICK h \in Jobs : h = Head(pending) /\ creation[h] = "queued" /\ InPending(h)
    BY <1>18 DEF Pop, InPending
  <2>2. \A k \in Jobs : InPending(k)' => InPending(k)
    BY <1>18 DEF Pop, InPending
  <2>3. \A k \in Jobs : InPending(k) => InPending(k)' \/ k = h
    BY <1>18, <2>1, InPendingTail DEF Pop, Step, redis, locals, history
  <2>4. UNCHANGED <<creation, status, started, results, expired>>
    BY <1>18 DEF Pop, Step
  <2>5. \/ LifeOf(h)' = LifeOf(h)
        \/ LifeOf(h) = "queued" /\ LifeOf(h)' = "taken"
    BY <2>1, <2>4 DEF LifeOf
  <2>6. \A k \in Jobs \ {h} : LifeOf(k)' = LifeOf(k)
    BY <2>2, <2>3, <2>4 DEF LifeOf
  <2> QED
    BY <2>4, <2>5, <2>6, LifeMoves, LifeSame DEF Life!Take, Life!Goes
<1>19. ASSUME NEW w \in Workers, PopTimeout(w) PROVE UNCHANGED Life!lifeVars
  BY <1>19 DEF PopTimeout, Step, redis, locals, history, InPending, LifeOf
<1>20. ASSUME NEW w \in Workers, GetData(w) PROVE UNCHANGED Life!lifeVars
  BY <1>20 DEF GetData, Step, redis, locals, history, InPending, LifeOf
<1>21. ASSUME NEW w \in Workers, DeadLetter(w) PROVE UNCHANGED Life!lifeVars
  BY <1>21 DEF DeadLetter, Step, redis, locals, history, InPending, LifeOf
<1>22. ASSUME NEW w \in Workers, MarkProcessing(w) PROVE UNCHANGED Life!lifeVars
  BY <1>22 DEF MarkProcessing, Step, redis, locals, history, InPending, LifeOf
<1>23. ASSUME NEW w \in Workers, MarkStatus(w)
       PROVE  job[w] \in Jobs /\ (Life!Report(job[w]) \/ Life!Blur(job[w]))
  BY <1>23 DEF MarkStatus, Step, redis, locals, history, InPending, LifeOf, Life!Report, Life!Says,
               Life!Blur, Life!Final
<1>24. ASSUME NEW w \in Workers, StoreBackup(w)
       PROVE  \E j \in Jobs : Life!Start(j) \/ UNCHANGED Life!lifeVars
  <2>1. PICK j \in Jobs : j = job[w] /\ creation[j] = "queued"
    BY <1>24 DEF StoreBackup, Step
  <2>2. /\ UNCHANGED <<creation, status, pending, results, expired>>
        /\ started' = started \cup {j}
    BY <1>24, <2>1 DEF StoreBackup, Step
  <2>3. \A k \in Jobs \ {j} : LifeOf(k)' = LifeOf(k)
    BY <2>2 DEF LifeOf, InPending
  <2>4. CASE j \in started
    BY <2>2, <2>4 DEF LifeOf, InPending
  <2>5. CASE j \notin started
    <3>1. j \notin results /\ (InPending(j) => j \in expired)
      BY <1>24, <2>1, <2>5 DEF StoreBackup, Step
    <3>2. status[j] = "processing" \/ j \in expired
      BY <1>24, <2>1 DEF StoreBackup, Step
    <3>3. LifeOf(j) = (IF InPending(j) THEN "queued" ELSE "taken") /\ LifeOf(j)' = "running"
      BY <2>1, <2>2, <2>5, <3>1 DEF LifeOf
    <3> QED
      BY <2>2, <2>3, <3>1, <3>2, <3>3, LifeStarts
  <2> QED
    BY <2>4, <2>5
<1>25. ASSUME NEW w \in Workers, RunEnds(w) PROVE UNCHANGED Life!lifeVars
  BY <1>25 DEF RunEnds, Step, redis, locals, history, InPending, LifeOf
<1>26. ASSUME NEW w \in Workers, StoreResult(w)
       PROVE  job[w] \in Jobs /\ (Life!Finish(job[w]) \/ UNCHANGED Life!lifeVars)
  BY <1>26 DEF StoreResult, Step, redis, locals, history, InPending, LifeOf, Life!Finish, Life!Goes
<1>27. ASSUME NEW w \in Workers, StoreStatus(w)
       PROVE  job[w] \in Jobs /\ (Life!Close(job[w]) \/ Life!Blur(job[w]))
  <2>1. \A k \in Jobs : LifeOf(k)' = LifeOf(k)
    BY <1>27 DEF StoreStatus, Step, redis, locals, history, LifeOf, InPending
  <2>2. job[w] \in Jobs /\ LifeOf(job[w]) = "over"
    BY <1>27 DEF StoreStatus, Step, LifeOf
  <2>3. status[job[w]] \in {"processing"} \cup FinalStatus \/ job[w] \in expired
    BY <1>27 DEF StoreStatus, Step
  <2>4. \E f \in FinalStatus : status' = [status EXCEPT ![job[w]] = f]
    BY <1>27 DEF StoreStatus, Step
  <2>5. UNCHANGED expired
    BY <1>27 DEF StoreStatus, Step
  <2> QED
    BY <2>1, <2>2, <2>3, <2>4, <2>5, LifeSame, LifeMoves DEF Life!Close, Life!Blur, Life!Final
<1>28. ASSUME NEW w \in Workers, UnmarkProcessing(w) PROVE UNCHANGED Life!lifeVars
  BY <1>28 DEF UnmarkProcessing, Step, redis, locals, history, InPending, LifeOf
<1>29. ASSUME NEW w \in Workers, DeleteBackup(w) PROVE UNCHANGED Life!lifeVars
  BY <1>29 DEF DeleteBackup, Step, ForgetJob, redis, locals, history, InPending, LifeOf
<1>30. ASSUME NEW w \in Workers, Abandon(w) PROVE UNCHANGED Life!lifeVars
  BY <1>30 DEF Abandon, ForgetJob, redis, locals, history, InPending, LifeOf
<1>31. ASSUME NEW w \in Workers, ReclaimFails(w) PROVE UNCHANGED Life!lifeVars
  BY <1>31 DEF ReclaimFails, redis, locals, history, InPending, LifeOf
<1>32. ASSUME NEW w \in Workers, CompleteFails(w) PROVE UNCHANGED Life!lifeVars
  BY <1>32 DEF CompleteFails, redis, locals, history, InPending, LifeOf
<1>33. ASSUME NEW w \in Workers, SnapshotFails(w) PROVE UNCHANGED Life!lifeVars
  BY <1>33 DEF SnapshotFails, redis, locals, history, InPending, LifeOf
<1>34. ASSUME UNCHANGED vars PROVE UNCHANGED Life!lifeVars
  BY <1>34 DEF vars, redis, workers, history, InPending, LifeOf
<1> HIDE DEF TypeOK, PCs, ReclaimPCs, HoldPCs, PullPCs, CompletePCs, FinalStatus, Holds,
             QueueInv, OnlyQueued, WorkerKnows, SingleCopyWithinTTL, StartedStaysOut,
             StatusInv, StatusAt, LifeInv, Life!lifeVars
<1> QED
  BY <1>1, <1>2, <1>3, <1>4, <1>5, <1>6, <1>7, <1>8, <1>9,
     <1>10, <1>11, <1>12, <1>13, <1>14, <1>15, <1>16, <1>17, <1>18,
     <1>19, <1>20, <1>21, <1>22, <1>23, <1>24, <1>25, <1>26, <1>27,
     <1>28, <1>29, <1>30, <1>31, <1>32, <1>33, <1>34
  DEF Next, Create, Expire, WorkerStep, Reclaim, GetNextJob, CompleteJob, Fault,
      Life!LifeNext

\* create_job, get_next_job, complete_job and reclaim_stale_jobs, for any jobs,
\* workers and failures, implement JobLife: a caller that knows a job's id and
\* reads its status key sees a life in which the states follow each other in
\* order and the status follows the states until the data key expires.
THEOREM JobLifeRefined == Spec => ImplementsJobLife
<1>1. Init => LifeInv
  BY DEF Init, LifeInv
<1>2. Init => Life!LifeInit
  BY DEF Init, LifeOf, InPending, Life!LifeInit
<1>3. Init => StatusInv
  BY JobQueueAssumption
  DEF Init, StatusInv, StatusAt, StatusIsTruthfulWithinTTL, InPending, Holds,
      HoldPCs, PullPCs, CompletePCs
<1> QED
  BY <1>1, <1>2, <1>3, StatusInvStep, LifeInvStep, LifeStep, TypeCorrect, QueueInvariant, PTL
  DEF Spec, ImplementsJobLife, Life!LifeSpec

=============================================================================
