------------------------------ MODULE JobQueue ------------------------------
(***************************************************************************)
(* The Redis job queue of shared/job_queue.py, driven by the coordinator   *)
(* (create_job) and by the sandbox workers' main loop                      *)
(* (services/sandbox_executor/sandbox_worker.py): reclaim_stale_jobs, then *)
(* get_next_job, then the JobProcessor, which ends in complete_job.        *)
(*                                                                         *)
(* Redis executes one command at a time and every `await` of a command is  *)
(* a point where any other process may run, so one action models one       *)
(* Redis command together with the local code up to the next one.  A TTL   *)
(* is an environment action that removes the key.  The `:ts' key, which    *)
(* the code writes and deletes but never reads, is left out.               *)
(***************************************************************************)
EXTENDS Naturals, Sequences, FiniteSets

CONSTANTS
  Jobs,       \* job ids (the uuid4 drawn by create_job)
  Workers,    \* sandbox worker processes
  Outcomes,   \* final statuses a run may report to complete_job
  NoJob,      \* a worker's job variable when it holds none
  MaxFails    \* bound: crashes and failed Redis commands in a behaviour

FinalStatus == {"success", "error", "superseded", "cancelled"}

ASSUME JobQueueAssumption ==
  /\ NoJob \notin Jobs
  /\ Outcomes \subseteq FinalStatus
  /\ "error" \in Outcomes
  /\ MaxFails \in Nat

VARIABLES
  creation,   \* progress of create_job for each job id
  data,       \* job ids whose agent:job:data:{id} key exists
  status,     \* agent:job:status:{id}, "none" when the key is absent
  pending,    \* the list agent:jobs:pending
  processing, \* the set agent:jobs:processing
  backup,     \* job ids whose agent:job:data:{id}:backup key exists
  results,    \* job ids for which a result was ever stored
  deadLetter, \* job ids pushed on agent:jobs:dead_letter
  pc,         \* the next Redis command of each worker
  job,        \* the job id a worker is pulling, running or reclaiming
  todo,       \* reclaim_stale_jobs' snapshot of the processing set
  outcome,    \* status the worker passes to complete_job
  final,      \* complete_job was called from process()'s except clause
  expired,    \* history: jobs whose data key has expired at least once
  started,    \* history: jobs whose execution has started
  fails       \* history: crashes and failed commands so far

redis   == <<data, status, pending, processing, backup, results, deadLetter>>
workers == <<pc, job, todo, outcome, final>>
locals  == <<todo, outcome, final>>
history == <<expired, started, fails>>
vars    == <<creation, redis, workers, history>>

-----------------------------------------------------------------------------
(* Program counters.                                                       *)

ReclaimPCs  == {"get_backup", "restore_data", "restore_status", "requeue",
                "unmark_stale", "delete_stale_backup", "drop_stale"}
PullPCs     == {"get_data", "dead_letter", "mark", "mark_status",
                "store_backup"}
CompletePCs == {"store_result", "store_status", "unmark", "delete_backup"}
HoldPCs     == PullPCs \cup {"run"} \cup CompletePCs
PCs         == {"loop", "scan", "pop"} \cup ReclaimPCs \cup HoldPCs

\* Worker w is somewhere between popping j and finishing complete_job for it.
Holds(w, j) == pc[w] \in HoldPCs /\ job[w] = j

\* Worker w is in the loop body of reclaim_stale_jobs for j.
Reclaims(w, j) == pc[w] \in ReclaimPCs /\ job[w] = j

InPending(j) == \E i \in DOMAIN pending : pending[i] = j

\* The locals of a finished or abandoned process_job go out of scope.
ForgetJob(w) ==
  /\ job' = [job EXCEPT ![w] = NoJob]
  /\ outcome' = [outcome EXCEPT ![w] = "error"]
  /\ final' = [final EXCEPT ![w] = FALSE]

\* Worker w, at `from', executes one command and goes on to `to'.
Step(w, from, to) ==
  /\ pc[w] = from
  /\ pc' = [pc EXCEPT ![w] = to]
  /\ UNCHANGED <<creation, expired, fails>>

TypeOK ==
  /\ creation \in [Jobs -> {"new", "data", "status", "queued", "failed"}]
  /\ data \subseteq Jobs
  /\ status \in [Jobs -> {"none", "pending", "processing"} \cup FinalStatus]
  /\ pending \in Seq(Jobs)
  /\ processing \subseteq Jobs
  /\ backup \subseteq Jobs
  /\ results \subseteq Jobs
  /\ deadLetter \subseteq Jobs
  /\ pc \in [Workers -> PCs]
  /\ job \in [Workers -> Jobs \cup {NoJob}]
  /\ todo \in [Workers -> SUBSET Jobs]
  /\ outcome \in [Workers -> FinalStatus]
  /\ final \in [Workers -> BOOLEAN]
  /\ expired \subseteq Jobs
  /\ started \subseteq Jobs
  /\ fails \in 0..MaxFails
  /\ \A w \in Workers : pc[w] \in ReclaimPCs \cup HoldPCs => job[w] \in Jobs

Init ==
  /\ creation = [j \in Jobs |-> "new"]
  /\ data = {}
  /\ status = [j \in Jobs |-> "none"]
  /\ pending = <<>>
  /\ processing = {}
  /\ backup = {}
  /\ results = {}
  /\ deadLetter = {}
  /\ pc = [w \in Workers |-> "loop"]
  /\ job = [w \in Workers |-> NoJob]
  /\ todo = [w \in Workers |-> {}]
  /\ outcome = [w \in Workers |-> "error"]
  /\ final = [w \in Workers |-> FALSE]
  /\ expired = {}
  /\ started = {}
  /\ fails = 0

-----------------------------------------------------------------------------
(* create_job: SETEX data; SETEX status "pending"; RPUSH pending.          *)

CreateData(j) ==
  /\ creation[j] = "new"
  /\ creation' = [creation EXCEPT ![j] = "data"]
  /\ data' = data \cup {j}
  /\ UNCHANGED <<status, pending, processing, backup, results, deadLetter,
                 workers, history>>

CreateStatus(j) ==
  /\ creation[j] = "data"
  /\ creation' = [creation EXCEPT ![j] = "status"]
  /\ status' = [status EXCEPT ![j] = "pending"]
  /\ UNCHANGED <<data, pending, processing, backup, results, deadLetter,
                 workers, history>>

\* Mutant: the id is pushed before its status is set.
CreatePushEarly(j) ==
  /\ creation[j] = "data"
  /\ creation' = [creation EXCEPT ![j] = "queued"]
  /\ pending' = Append(pending, j)
  /\ UNCHANGED <<data, status, processing, backup, results, deadLetter,
                 workers, history>>

CreatePush(j) ==
  /\ creation[j] = "status"
  /\ creation' = [creation EXCEPT ![j] = "queued"]
  /\ pending' = Append(pending, j)
  /\ UNCHANGED <<data, status, processing, backup, results, deadLetter,
                 workers, history>>

\* A command of create_job fails (QueueError) or its process dies: the keys
\* written so far stay, the id is never pushed.
CreateFails(j) ==
  /\ creation[j] \in {"data", "status"}
  /\ fails < MaxFails
  /\ creation' = [creation EXCEPT ![j] = "failed"]
  /\ fails' = fails + 1
  /\ UNCHANGED <<redis, workers, expired, started>>

-----------------------------------------------------------------------------
(* reclaim_stale_jobs, called at the top of every iteration of main().     *)

\* SMEMBERS processing.
ReclaimSnapshot(w) ==
  /\ Step(w, "loop", "scan")
  /\ todo' = [todo EXCEPT ![w] = processing]
  /\ UNCHANGED <<redis, job, outcome, final, started>>

\* Mutant: every member of the processing set is taken to be stale.
ReclaimCheckBlind(w) ==
  /\ pc[w] = "scan"
  /\ \E j \in todo[w] :
       /\ todo' = [todo EXCEPT ![w] = @ \ {j}]
       /\ job' = [job EXCEPT ![w] = j]
       /\ pc' = [pc EXCEPT ![w] = "get_backup"]
  /\ UNCHANGED <<creation, redis, outcome, final, history>>

\* EXISTS data, for the next id of the snapshot: a job whose data key is
\* still there is taken to be active and skipped.
ReclaimCheck(w) ==
  /\ pc[w] = "scan"
  /\ \E j \in todo[w] :
       /\ todo' = [todo EXCEPT ![w] = @ \ {j}]
       /\ \/ /\ j \in data
             /\ UNCHANGED <<pc, job>>
          \/ /\ j \notin data
             /\ job' = [job EXCEPT ![w] = j]
             /\ pc' = [pc EXCEPT ![w] = "get_backup"]
  /\ UNCHANGED <<creation, redis, outcome, final, history>>

ReclaimDone(w) ==
  /\ Step(w, "scan", "pop")
  /\ todo[w] = {}
  /\ UNCHANGED <<redis, job, locals, started>>

\* Mutant: a stale entry without a backup is left in the processing set.
ReclaimKeepsZombie(w) ==
  /\ Step(w, "get_backup",
          IF job[w] \in backup THEN "restore_data" ELSE "scan")
  /\ UNCHANGED <<redis, job, locals, started>>

\* GET data:backup.
ReclaimGetBackup(w) ==
  /\ Step(w, "get_backup",
          IF job[w] \in backup THEN "restore_data" ELSE "drop_stale")
  /\ UNCHANGED <<redis, job, locals, started>>

\* SETEX data, the backup without its github_token.
ReclaimRestoreData(w) ==
  /\ Step(w, "restore_data", "restore_status")
  /\ data' = data \cup {job[w]}
  /\ UNCHANGED <<status, pending, processing, backup, results, deadLetter,
                 job, locals, started>>

\* SETEX status "pending".
ReclaimRestoreStatus(w) ==
  /\ Step(w, "restore_status", "requeue")
  /\ status' = [status EXCEPT ![job[w]] = "pending"]
  /\ UNCHANGED <<data, pending, processing, backup, results, deadLetter, job,
                 locals, started>>

\* RPUSH pending.
ReclaimRequeue(w) ==
  /\ Step(w, "requeue", "unmark_stale")
  /\ pending' = Append(pending, job[w])
  /\ UNCHANGED <<data, status, processing, backup, results, deadLetter, job,
                 locals, started>>

\* SREM processing, after the id is back on the pending list.
ReclaimUnmark(w) ==
  /\ Step(w, "unmark_stale", "delete_stale_backup")
  /\ processing' = processing \ {job[w]}
  /\ UNCHANGED <<data, status, pending, backup, results, deadLetter, job,
                 locals, started>>

\* DEL data:backup (and the timestamp); on to the next id.
ReclaimDeleteBackup(w) ==
  /\ Step(w, "delete_stale_backup", "scan")
  /\ backup' = backup \ {job[w]}
  /\ job' = [job EXCEPT ![w] = NoJob]
  /\ UNCHANGED <<data, status, pending, processing, results, deadLetter,
                 locals, started>>

\* No backup: SREM processing, the "zombie entry".
ReclaimDrop(w) ==
  /\ Step(w, "drop_stale", "scan")
  /\ processing' = processing \ {job[w]}
  /\ job' = [job EXCEPT ![w] = NoJob]
  /\ UNCHANGED <<data, status, pending, backup, results, deadLetter, locals,
                 started>>

-----------------------------------------------------------------------------
(* get_next_job.                                                           *)

\* BLPOP pending returns an id ...
Pop(w) ==
  /\ Step(w, "pop", "get_data")
  /\ pending # <<>>
  /\ job' = [job EXCEPT ![w] = Head(pending)]
  /\ pending' = Tail(pending)
  /\ UNCHANGED <<data, status, processing, backup, results, deadLetter,
                 locals, started>>

\* ... or times out on an empty list: back to the top of the loop.
PopTimeout(w) ==
  /\ Step(w, "pop", "loop")
  /\ pending = <<>>
  /\ UNCHANGED <<redis, job, locals, started>>

\* Mutant: a job whose data is gone is dropped without a dead letter.
GetDataDropsExpired(w) ==
  /\ Step(w, "get_data", IF job[w] \in data THEN "mark" ELSE "loop")
  /\ UNCHANGED <<redis, job, locals, started>>

\* GET data: None means the job expired on the list.
GetData(w) ==
  /\ Step(w, "get_data", IF job[w] \in data THEN "mark" ELSE "dead_letter")
  /\ UNCHANGED <<redis, job, locals, started>>

\* RPUSH dead_letter, reason "data_expired".
DeadLetter(w) ==
  /\ Step(w, "dead_letter", "loop")
  /\ deadLetter' = deadLetter \cup {job[w]}
  /\ job' = [job EXCEPT ![w] = NoJob]
  /\ UNCHANGED <<data, status, pending, processing, backup, results, locals,
                 started>>

\* SADD processing.
MarkProcessing(w) ==
  /\ Step(w, "mark", "mark_status")
  /\ processing' = processing \cup {job[w]}
  /\ UNCHANGED <<data, status, pending, backup, results, deadLetter, job,
                 locals, started>>

\* SETEX status "processing".
MarkStatus(w) ==
  /\ Step(w, "mark_status", "store_backup")
  /\ status' = [status EXCEPT ![job[w]] = "processing"]
  /\ UNCHANGED <<data, pending, processing, backup, results, deadLetter, job,
                 locals, started>>

\* Mutant: no backup copy is stored.
StoreNoBackup(w) ==
  /\ Step(w, "store_backup", "run")
  /\ started' = started \cup {job[w]}
  /\ UNCHANGED <<redis, job, locals>>

\* SETEX data:backup for twice the job TTL; get_next_job returns and
\* process_job starts.
StoreBackup(w) ==
  /\ Step(w, "store_backup", "run")
  /\ backup' = backup \cup {job[w]}
  /\ started' = started \cup {job[w]}
  /\ UNCHANGED <<data, status, pending, processing, results, deadLetter, job,
                 locals>>

-----------------------------------------------------------------------------
(* JobProcessor.process and complete_job.                                  *)

\* The processor reports its outcome.  An exception of the run is reported
\* by process()'s except clause (final); the other calls of complete_job are
\* inside the try block.
RunEnds(w) ==
  /\ Step(w, "run", "store_result")
  /\ \E o \in Outcomes, f \in BOOLEAN :
       /\ f => o = "error"
       /\ outcome' = [outcome EXCEPT ![w] = o]
       /\ final' = [final EXCEPT ![w] = f]
  /\ UNCHANGED <<redis, job, todo, started>>

\* SETEX result.
StoreResult(w) ==
  /\ Step(w, "store_result", "store_status")
  /\ results' = results \cup {job[w]}
  /\ UNCHANGED <<data, status, pending, processing, backup, deadLetter, job,
                 locals, started>>

\* SETEX status.
StoreStatus(w) ==
  /\ Step(w, "store_status", "unmark")
  /\ status' = [status EXCEPT ![job[w]] = outcome[w]]
  /\ UNCHANGED <<data, pending, processing, backup, results, deadLetter, job,
                 locals, started>>

\* Mutant: the job id is dropped one command too early.
UnmarkForgetsJob(w) ==
  /\ Step(w, "unmark", "delete_backup")
  /\ processing' = processing \ {job[w]}
  /\ ForgetJob(w)
  /\ UNCHANGED <<data, status, pending, backup, results, deadLetter, todo,
                 started>>

\* SREM processing.
UnmarkProcessing(w) ==
  /\ Step(w, "unmark", "delete_backup")
  /\ processing' = processing \ {job[w]}
  /\ UNCHANGED <<data, status, pending, backup, results, deadLetter, job,
                 locals, started>>

\* DEL data:backup (and the timestamp).  The data key is left to its TTL.
DeleteBackup(w) ==
  /\ Step(w, "delete_backup", "loop")
  /\ backup' = backup \ {job[w]}
  /\ ForgetJob(w)
  /\ UNCHANGED <<data, status, pending, processing, results, deadLetter, todo,
                 started>>

-----------------------------------------------------------------------------
(* Failures and time.                                                      *)

\* A worker is killed and restarted, or a Redis command raises and the
\* exception reaches the loop of main() (or get_next_job's handler, which
\* returns None): the operation stops where it is and the loop starts over.
\* From "run" this is also process() ending without a complete_job, when the
\* last permitted auto-continue was interrupted before it had a result.
Abandon(w) ==
  /\ pc[w] # "loop"
  /\ fails < MaxFails
  /\ fails' = fails + 1
  /\ pc' = [pc EXCEPT ![w] = "loop"]
  /\ ForgetJob(w)
  /\ todo' = [todo EXCEPT ![w] = {}]
  /\ UNCHANGED <<creation, redis, expired, started>>

\* An OSError of the SMEMBERS: reclaim_stale_jobs returns 0, main() goes on.
SnapshotFails(w) ==
  /\ pc[w] = "loop"
  /\ fails < MaxFails
  /\ fails' = fails + 1
  /\ pc' = [pc EXCEPT ![w] = "pop"]
  /\ UNCHANGED <<creation, redis, job, locals, expired, started>>

\* An OSError of a command in reclaim_stale_jobs' loop body is caught there:
\* the job is skipped half reclaimed and the scan goes on.
ReclaimFails(w) ==
  /\ pc[w] \in ReclaimPCs
  /\ fails < MaxFails
  /\ fails' = fails + 1
  /\ pc' = [pc EXCEPT ![w] = "scan"]
  /\ job' = [job EXCEPT ![w] = NoJob]
  /\ UNCHANGED <<creation, redis, locals, expired, started>>

\* A Redis command of complete_job raises inside process()'s try block:
\* _handle_error calls complete_job again with status "error".
CompleteFails(w) ==
  /\ pc[w] \in CompletePCs
  /\ ~final[w]
  /\ fails < MaxFails
  /\ fails' = fails + 1
  /\ outcome' = [outcome EXCEPT ![w] = "error"]
  /\ final' = [final EXCEPT ![w] = TRUE]
  /\ pc' = [pc EXCEPT ![w] = "store_result"]
  /\ UNCHANGED <<creation, redis, job, todo, expired, started>>

\* The data key's TTL (job_ttl from create_job or from a reclaim) runs out.
\* No call refreshes it while the job waits or runs.
ExpireData(j) ==
  /\ creation[j] \in {"queued", "failed"}
  /\ j \in data
  /\ data' = data \ {j}
  /\ expired' = expired \cup {j}
  /\ UNCHANGED <<creation, status, pending, processing, backup, results,
                 deadLetter, workers, started, fails>>

\* The status key is always written after the data key with the same TTL,
\* so it outlives the data key it was created with.
ExpireStatus(j) ==
  /\ j \in expired
  /\ status[j] # "none"
  /\ status' = [status EXCEPT ![j] = "none"]
  /\ UNCHANGED <<creation, data, pending, processing, backup, results,
                 deadLetter, workers, history>>

\* The backup is written later than the data key and for twice its TTL.
ExpireBackup(j) ==
  /\ j \in expired
  /\ j \in backup
  /\ backup' = backup \ {j}
  /\ UNCHANGED <<creation, data, status, pending, processing, results,
                 deadLetter, workers, history>>

-----------------------------------------------------------------------------

Create(j) == CreateData(j) \/ CreateStatus(j) \/ CreatePush(j)

Reclaim(w) ==
  \/ ReclaimSnapshot(w)
  \/ ReclaimCheck(w)
  \/ ReclaimDone(w)
  \/ ReclaimGetBackup(w)
  \/ ReclaimRestoreData(w)
  \/ ReclaimRestoreStatus(w)
  \/ ReclaimRequeue(w)
  \/ ReclaimUnmark(w)
  \/ ReclaimDeleteBackup(w)
  \/ ReclaimDrop(w)

GetNextJob(w) ==
  \/ Pop(w)
  \/ PopTimeout(w)
  \/ GetData(w)
  \/ DeadLetter(w)
  \/ MarkProcessing(w)
  \/ MarkStatus(w)
  \/ StoreBackup(w)

CompleteJob(w) ==
  \/ StoreResult(w)
  \/ StoreStatus(w)
  \/ UnmarkProcessing(w)
  \/ DeleteBackup(w)

WorkerStep(w) == Reclaim(w) \/ GetNextJob(w) \/ RunEnds(w) \/ CompleteJob(w)

Fault(w) ==
  \/ Abandon(w)
  \/ SnapshotFails(w)
  \/ ReclaimFails(w)
  \/ CompleteFails(w)

Expire(j) == ExpireData(j) \/ ExpireStatus(j) \/ ExpireBackup(j)

Next ==
  \/ \E j \in Jobs : Create(j) \/ CreateFails(j) \/ Expire(j)
  \/ \E w \in Workers : WorkerStep(w) \/ Fault(w)

Spec == Init /\ [][Next]_vars

\* Every worker keeps running its loop, a job's run ends (the SDK executor
\* bounds it), a started create_job goes on, and time passes.
Fairness ==
  /\ \A w \in Workers : WF_vars(WorkerStep(w))
  /\ \A j \in Jobs : WF_vars(Create(j)) /\ WF_vars(ExpireData(j))

FairSpec == Spec /\ Fairness
-----------------------------------------------------------------------------
(* Properties.                                                             *)

\* get_next_job / reclaim_stale_jobs: until a job's data key expires for the
\* first time there is one copy of the job in the system - one entry of the
\* pending list or one worker holding it, never both and never two - whatever
\* crashes and concurrent reclaims happen.
SingleCopyWithinTTL ==
  \A j \in Jobs \ expired :
    /\ \A i, k \in DOMAIN pending : pending[i] = j /\ pending[k] = j => i = k
    /\ \A w \in Workers :
         Holds(w, j) =>
           /\ ~InPending(j)
           /\ \A v \in Workers : Holds(v, j) => v = w

\* get_next_job: within its TTL a job is executed at most once; a crash or an
\* error between two commands never makes the queue hand it out again.
NoRerunWithinTTL ==
  [][\A j \in Jobs \ expired :
       (\E w \in Workers : pc[w] # "run" /\ pc'[w] = "run" /\ job[w] = j)
         => j \notin started]_vars

\* get_next_job's backup ("for re-queueing if worker crashes"): from the start
\* of its run until its result is stored, a job within its TTL is in the
\* processing set and has a backup, so a crash of its worker is recoverable;
\* a crash then leaves it so, and only the reclaim takes it out again.
RunIsRecoverableWithinTTL ==
  \A j \in started \ (expired \cup results) : j \in processing \cap backup

\* get_job_status is what the session recovery sweep trusts: a job within its
\* TTL that is pending or being worked on reports "pending" or "processing"
\* until complete_job has stored its result, and its final status afterwards.
StatusIsTruthfulWithinTTL ==
  \A j \in Jobs \ expired :
    /\ InPending(j) => status[j] = "pending"
    /\ \A w \in Workers : Holds(w, j) /\ j \notin results
         => status[j] \in {"pending", "processing"}
    /\ j \in results /\ (\A w \in Workers : ~Holds(w, j)) /\ j \notin processing
         => status[j] \in FinalStatus

\* get_next_job's dead-letter branch: only a job whose data key really expired
\* is dead-lettered, and a job never reaches the dead-letter list unseen by
\* create_job.
DeadLetterOnlyExpired ==
  \A j \in deadLetter : j \in expired /\ creation[j] = "queued"

\* create_job, get_next_job, reclaim_stale_jobs and complete_job together: as
\* long as no process dies and no command fails, a queued job is always on the
\* pending list, in a worker's hands, in the processing set, dead-lettered or
\* has a result - however the TTLs and the reclaims of other workers fall.
Accounted(j) ==
  \/ InPending(j)
  \/ \E w \in Workers : Holds(w, j)
  \/ j \in processing \cup deadLetter \cup results

NoLossWithoutFailure ==
  fails = 0 => \A j \in Jobs : creation[j] = "queued" => Accounted(j)

\* Every queued job is eventually retired: it has a result, it is dead-lettered,
\* or (after a crash in an unprotected window) no trace of it is left; nothing
\* stays for ever on the pending list or in the processing set.
EveryJobSettles ==
  \A j \in Jobs :
    creation[j] = "queued" ~>
      (j \in results \cup deadLetter \/ ~Accounted(j))

-----------------------------------------------------------------------------
(* The queue implements JobLife.                                           *)

\* How far a job has come, whatever copies of it a late reclaim makes.
LifeOf(j) ==
  IF j \in results THEN "over"
  ELSE IF j \in started THEN "running"
  ELSE IF InPending(j) THEN "queued"
  ELSE IF creation[j] = "queued" THEN "taken"
  ELSE "new"

Life == INSTANCE JobLife WITH state <- [j \in Jobs |-> LifeOf(j)], seen <- status,
                              late <- expired

\* create_job, get_next_job, complete_job and reclaim_stale_jobs together keep
\* what callers rely on: a job's states follow each other in order, and its
\* status key agrees with them until its data key expires.
ImplementsJobLife == Life!LifeSpec

-----------------------------------------------------------------------------
(* What the comments and the documentation say of the queue.               *)

\* docs/ARCHITECTURE.md: "Jobs survive worker crashes".  A queued job without a
\* result is never left without a trace.
JobsSurviveCrashes ==
  \A j \in Jobs : creation[j] = "queued" => Accounted(j)

=============================================================================
