------------------------------ MODULE RepoSync ------------------------------
(***************************************************************************)
(* The bare clone of one repository: the sync workers that clone and fetch *)
(* it (services/repo_sync/sync_worker.py) and the sandbox workers' jobs    *)
(* that wait for it (wait_for_repo_sync, shared/queue.py).                 *)
(*                                                                         *)
(* Requests travel on a Redis list, answers on a pub/sub channel that only *)
(* reaches jobs subscribed at that moment, and on a key with a TTL.  One   *)
(* action models one Redis command or one git command.  The commits of a   *)
(* ref are counted; the refs are names, as in the keys.                    *)
(***************************************************************************)
EXTENDS Naturals, Sequences

CONSTANTS
  Refs,       \* ref names of the repository
  Jobs,       \* jobs, each waiting once for its ref
  RefOf,      \* the ref of a job
  Syncers,    \* sync worker processes
  None,       \* no lock holder, no ref
  Starts,     \* states of the clone's directory at the start to consider
  MaxPushes,  \* bound: commits pushed to the repository in a behaviour
  MaxFails    \* bound: killed sync workers and failed commands

ASSUME RepoSyncAssumption ==
  /\ RefOf \in [Jobs -> Refs]
  /\ None \notin Syncers \cup Refs
  /\ Starts \subseteq {"absent", "ok"}
  /\ MaxPushes \in Nat
  /\ MaxFails \in Nat

VARIABLES
  upstream,    \* number of commits of each ref on GitHub
  cache,       \* commit of each ref in the bare clone
  dir,         \* the directory of the bare clone
  queue,       \* the list agent:sync:requests
  complete,    \* refs whose agent:sync:complete:{repo}:{ref} key exists
  lock,        \* agent:sync:lock:{repo}, the worker whose token it holds
  spc,         \* the next step of each sync worker
  sref,        \* the ref of its request
  pc,          \* the next step of each job
  mail,        \* events published to a listening job, not yet read
  late,        \* jobs that have listened longer than the timeout
  requested,   \* history: jobs that published a request themselves
  missed,      \* history: jobs whose answer was published before they listened
  dropped,     \* history: jobs that lost a request to a crash or a busy lock
  wanted,      \* history: commit of the job's ref when its sync was triggered
  got,         \* history: commit in the clone when the job went on
  lockExpired, \* history: the lock's TTL ran out under a live holder
  pushes, fails

clone   == <<cache, dir>>
syncers == <<spc, sref>>
jobs    == <<pc, mail, late>>
history == <<requested, missed, dropped, wanted, got, lockExpired>>
bounds  == <<pushes, fails>>
vars == <<upstream, clone, queue, complete, lock, syncers, jobs, history, bounds>>

GitPCs    == {"check", "clone", "fetch_new", "fetch"}
LockedPCs == GitPCs \cup {"set_complete", "publish", "publish_error", "unlock"}
SyncPCs   == {"idle", "lock"} \cup LockedPCs
Settled   == {"synced", "sync_error", "timeout"}
JobPCs    == {"new", "get", "exists", "request", "subscribe", "listen"}
               \cup Settled
Events    == [ref : Refs, status : {"complete", "error"}]

\* The worker has popped a request for r and has not yet published its answer.
Working(s, r) == /\ spc[s] \in {"lock"} \cup (LockedPCs \ {"unlock"})
                 /\ sref[s] = r

Queued(r) == \E i \in DOMAIN queue : queue[i] = r

TypeOK ==
  /\ upstream \in [Refs -> Nat]
  /\ cache \in [Refs -> Nat]
  /\ dir \in {"absent", "partial", "ok"}
  /\ queue \in Seq(Refs)
  /\ complete \subseteq Refs
  /\ lock \in Syncers \cup {None}
  /\ spc \in [Syncers -> SyncPCs]
  /\ sref \in [Syncers -> Refs \cup {None}]
  /\ pc \in [Jobs -> JobPCs]
  /\ mail \in [Jobs -> Seq(Events)]
  /\ late \subseteq Jobs
  /\ requested \subseteq Jobs
  /\ missed \subseteq Jobs
  /\ dropped \subseteq Jobs
  /\ wanted \in [Jobs -> Nat]
  /\ got \in [Jobs -> Nat]
  /\ lockExpired \in BOOLEAN
  /\ pushes \in 0..MaxPushes
  /\ fails \in 0..MaxFails
  /\ \A s \in Syncers : spc[s] # "idle" => sref[s] \in Refs

\* A new or a warm installation.
Init ==
  /\ upstream = [r \in Refs |-> 1]
  /\ dir \in Starts
  /\ cache = [r \in Refs |-> IF dir = "ok" THEN 1 ELSE 0]
  /\ queue = <<>>
  /\ complete = {}
  /\ lock = None
  /\ spc = [s \in Syncers |-> "idle"]
  /\ sref = [s \in Syncers |-> None]
  /\ pc = [j \in Jobs |-> "new"]
  /\ mail = [j \in Jobs |-> <<>>]
  /\ late = {}
  /\ requested = {}
  /\ missed = {}
  /\ dropped = {}
  /\ wanted = [j \in Jobs |-> 0]
  /\ got = [j \in Jobs |-> 0]
  /\ lockExpired = FALSE
  /\ pushes = 0
  /\ fails = 0

-----------------------------------------------------------------------------
(* Requests.                                                               *)

\* A commit is pushed; its push webhook publishes a sync request, or is lost.
\* The request has the full name refs/heads/x of the branch, while the jobs of
\* the branch may use x or the ref of its pull request: any ref may be named.
Push(r) ==
  /\ pushes < MaxPushes
  /\ pushes' = pushes + 1
  /\ upstream' = [upstream EXCEPT ![r] = @ + 1]
  /\ \/ \E name \in Refs : queue' = Append(queue, name)
     \/ UNCHANGED queue
  /\ UNCHANGED <<clone, complete, lock, syncers, jobs, history, fails>>

\* The coordinator publishes a request for the job's ref, then queues the job.
TriggerSync(j) ==
  /\ pc[j] = "new"
  /\ pc' = [pc EXCEPT ![j] = "get"]
  /\ queue' = Append(queue, RefOf[j])
  /\ wanted' = [wanted EXCEPT ![j] = upstream[RefOf[j]]]
  /\ UNCHANGED <<upstream, clone, complete, lock, syncers, mail, late,
                 requested, missed, dropped, got, lockExpired, bounds>>

-----------------------------------------------------------------------------
(* wait_for_repo_sync.                                                     *)

\* The job goes on to create its worktree from the clone as it is now.
Proceed(j) ==
  /\ pc' = [pc EXCEPT ![j] = "synced"]
  /\ got' = [got EXCEPT ![j] = cache[RefOf[j]]]

\* GET complete, and the directory exists: the fast path.
GetComplete(j) ==
  /\ pc[j] = "get"
  /\ \/ RefOf[j] \in complete /\ dir # "absent" /\ Proceed(j)
     \/ /\ RefOf[j] \notin complete \/ dir = "absent"
        /\ pc' = [pc EXCEPT ![j] = "exists"]
        /\ UNCHANGED got
  /\ UNCHANGED <<upstream, clone, queue, complete, lock, syncers, mail, late,
                 requested, missed, dropped, wanted, lockExpired, bounds>>

\* EXISTS lock: whoever syncs the repository is taken to sync this ref.
LockExists(j) ==
  /\ pc[j] = "exists"
  /\ pc' = [pc EXCEPT ![j] = IF lock = None THEN "request" ELSE "subscribe"]
  /\ UNCHANGED <<upstream, clone, queue, complete, lock, syncers, mail, late,
                 history, bounds>>

\* _request_repo_sync.
RequestSync(j) ==
  /\ pc[j] = "request"
  /\ pc' = [pc EXCEPT ![j] = "subscribe"]
  /\ queue' = Append(queue, RefOf[j])
  /\ requested' = requested \cup {j}
  /\ UNCHANGED <<upstream, clone, complete, lock, syncers, mail, late, missed,
                 dropped, wanted, got, lockExpired, bounds>>

\* SUBSCRIBE agent:sync:events.
Subscribe(j) ==
  /\ pc[j] = "subscribe"
  /\ pc' = [pc EXCEPT ![j] = "listen"]
  /\ UNCHANGED <<upstream, clone, queue, complete, lock, syncers, mail, late,
                 history, bounds>>

\* 300 seconds have passed; nothing looks at the clock until a message comes.
TimeoutElapses(j) ==
  /\ pc[j] = "listen"
  /\ late' = late \cup {j}
  /\ UNCHANGED <<upstream, clone, queue, complete, lock, syncers, pc, mail,
                 history, bounds>>

\* The next message of listen(): too late, an answer for this ref, or an event
\* of another ref.
Receive(j) ==
  /\ pc[j] = "listen"
  /\ mail[j] # <<>>
  /\ mail' = [mail EXCEPT ![j] = Tail(@)]
  /\ LET e == Head(mail[j])
     IN  \/ j \in late /\ pc' = [pc EXCEPT ![j] = "timeout"] /\ UNCHANGED got
         \/ /\ j \notin late /\ e = [ref |-> RefOf[j], status |-> "complete"]
            /\ Proceed(j)
         \/ /\ j \notin late /\ e = [ref |-> RefOf[j], status |-> "error"]
            /\ pc' = [pc EXCEPT ![j] = "sync_error"]
            /\ UNCHANGED got
         \/ j \notin late /\ e.ref # RefOf[j] /\ UNCHANGED <<pc, got>>
  /\ UNCHANGED <<upstream, clone, queue, complete, lock, syncers, late,
                 requested, missed, dropped, wanted, lockExpired, bounds>>

\* Mutant: the client has no socket_timeout.
ReadTimeoutUnset(j) ==
  /\ j \notin Jobs
  /\ UNCHANGED vars

\* A silent connection: the client's socket_timeout ends listen() with an error.
ReadTimeout(j) ==
  /\ pc[j] = "listen"
  /\ mail[j] = <<>>
  /\ pc' = [pc EXCEPT ![j] = "timeout"]
  /\ UNCHANGED <<upstream, clone, queue, complete, lock, syncers, mail, late,
                 history, bounds>>

-----------------------------------------------------------------------------
(* process_sync_request.                                                   *)

\* Mutant: the handler does not read the ref of the message.
TakeRequestNoRef(s) ==
  /\ spc[s] = "idle"
  /\ queue # <<>>
  /\ queue' = Tail(queue)
  /\ spc' = [spc EXCEPT ![s] = "lock"]
  /\ UNCHANGED <<upstream, clone, complete, lock, sref, jobs, history, bounds>>

\* BLPOP: the request is gone from the list before it is worked on.
TakeRequest(s) ==
  /\ spc[s] = "idle"
  /\ queue # <<>>
  /\ queue' = Tail(queue)
  /\ sref' = [sref EXCEPT ![s] = Head(queue)]
  /\ spc' = [spc EXCEPT ![s] = "lock"]
  /\ UNCHANGED <<upstream, clone, complete, lock, jobs, history, bounds>>

SyncStep(s, from, to) ==
  /\ spc[s] = from
  /\ spc' = [spc EXCEPT ![s] = to]
  /\ sref' = IF to = "idle" THEN [sref EXCEPT ![s] = None] ELSE sref
  /\ UNCHANGED <<upstream, queue, wanted, got, requested, bounds>>

\* The request of worker s is lost for the jobs that are counting on it.
DropRequest(s) ==
  dropped' = dropped \cup {j \in Jobs : /\ pc[j] \in {"subscribe", "listen"}
                                       /\ RefOf[j] = sref[s]}

\* Mutant: a lock that was not acquired does not stop the worker.
AcquireUnchecked(s) ==
  /\ SyncStep(s, "lock", "check")
  /\ lock' = IF lock = None THEN s ELSE lock
  /\ UNCHANGED <<clone, complete, jobs, missed, dropped, lockExpired>>

\* lock.acquire(blocking_timeout=10) succeeds ...
AcquireLock(s) ==
  /\ SyncStep(s, "lock", "check")
  /\ lock = None
  /\ lock' = s
  /\ UNCHANGED <<clone, complete, jobs, missed, dropped, lockExpired>>

\* ... or gives up, and the request is dropped without an answer.
LockBusy(s) ==
  /\ SyncStep(s, "lock", "idle")
  /\ lock # None
  /\ DropRequest(s)
  /\ UNCHANGED <<clone, complete, lock, jobs, missed, lockExpired>>

\* Mutant: the worker does not look whether the directory exists.
CheckDirBlind(s) ==
  /\ SyncStep(s, "check", "set_complete")
  /\ UNCHANGED <<clone, complete, lock, jobs, missed, dropped, lockExpired>>

\* os.path.exists(repo_dir): fetch, or start a clone, which makes the directory.
CheckDir(s) ==
  /\ SyncStep(s, "check", IF dir = "absent" THEN "clone" ELSE "fetch")
  /\ dir' = IF dir = "absent" THEN "partial" ELSE dir
  /\ UNCHANGED <<cache, complete, lock, jobs, missed, dropped, lockExpired>>

\* git clone ends; on failure git removes the directory it made.
Clone(s) ==
  /\ \/ SyncStep(s, "clone", "fetch_new") /\ dir' = "ok"
     \/ SyncStep(s, "clone", "publish_error") /\ dir' = "absent"
  /\ UNCHANGED <<cache, complete, lock, jobs, missed, dropped, lockExpired>>

\* git fetch brings every ref up to date.
Fetched == cache' = upstream /\ dir' = "ok"

\* The fetch after a clone: a failure is only logged.
FetchNew(s) ==
  /\ SyncStep(s, "fetch_new", "set_complete")
  /\ Fetched \/ UNCHANGED clone
  /\ UNCHANGED <<complete, lock, jobs, missed, dropped, lockExpired>>

\* Mutant: a failed fetch returns without an event.
FetchSilent(s) ==
  /\ \/ SyncStep(s, "fetch", "set_complete") /\ Fetched
     \/ SyncStep(s, "fetch", "unlock") /\ UNCHANGED clone
  /\ UNCHANGED <<complete, lock, jobs, missed, dropped, lockExpired>>

\* The fetch into an existing clone.
Fetch(s) ==
  /\ \/ SyncStep(s, "fetch", "set_complete") /\ Fetched
     \/ SyncStep(s, "fetch", "publish_error") /\ UNCHANGED clone
  /\ UNCHANGED <<complete, lock, jobs, missed, dropped, lockExpired>>

\* SET complete EX 3600.
SetComplete(s) ==
  /\ SyncStep(s, "set_complete", "publish")
  /\ complete' = complete \cup {sref[s]}
  /\ UNCHANGED <<clone, lock, jobs, missed, dropped, lockExpired>>

\* PUBLISH: the jobs listening now get the event, those about to miss it.
Publishes(s, status) ==
  /\ mail' = [j \in Jobs |->
                IF pc[j] = "listen"
                THEN Append(mail[j], [ref |-> sref[s], status |-> status])
                ELSE mail[j]]
  /\ missed' = missed \cup
       {j \in Jobs : pc[j] = "subscribe" /\ RefOf[j] = sref[s]}
  /\ UNCHANGED <<clone, complete, lock, pc, late, dropped, lockExpired>>

Publish(s) ==
  SyncStep(s, "publish", "unlock") /\ Publishes(s, "complete")

PublishError(s) ==
  SyncStep(s, "publish_error", "unlock") /\ Publishes(s, "error")

\* Mutant: a worker that lost its lock never gets past the release.
UnlockOwnOnly(s) ==
  /\ SyncStep(s, "unlock", "idle")
  /\ lock = s
  /\ lock' = None
  /\ UNCHANGED <<clone, complete, jobs, missed, dropped, lockExpired>>

\* lock.release compares the token; a lock lost to its TTL is left alone.
Unlock(s) ==
  /\ SyncStep(s, "unlock", "idle")
  /\ lock' = IF lock = s THEN None ELSE lock
  /\ UNCHANGED <<clone, complete, jobs, missed, dropped, lockExpired>>

-----------------------------------------------------------------------------
(* Failures and time.                                                      *)

\* A command of the try block raises: the except clause publishes an error.
SyncRaises(s) ==
  /\ spc[s] \in {"check", "fetch", "fetch_new", "set_complete", "publish"}
  /\ fails < MaxFails
  /\ fails' = fails + 1
  /\ spc' = [spc EXCEPT ![s] = "publish_error"]
  /\ UNCHANGED <<upstream, clone, queue, complete, lock, sref, jobs, history,
                 pushes>>

\* The except clause's own PUBLISH fails and is only logged.
PublishErrorFails(s) ==
  /\ spc[s] = "publish_error"
  /\ fails < MaxFails
  /\ fails' = fails + 1
  /\ spc' = [spc EXCEPT ![s] = "unlock"]
  /\ DropRequest(s)
  /\ UNCHANGED <<upstream, clone, queue, complete, lock, sref, jobs, requested,
                 missed, wanted, got, lockExpired, pushes>>

\* A sync worker is killed and restarted (or acquiring or releasing the lock
\* raises, which ends in the handler of RedisQueue.subscribe): its request is
\* lost, its lock stays, and so does what an unfinished clone has left of the
\* directory.
Crash(s) ==
  /\ spc[s] # "idle"
  /\ fails < MaxFails
  /\ fails' = fails + 1
  /\ spc' = [spc EXCEPT ![s] = "idle"]
  /\ sref' = [sref EXCEPT ![s] = None]
  /\ IF Working(s, sref[s]) THEN DropRequest(s) ELSE UNCHANGED dropped
  /\ UNCHANGED <<upstream, clone, queue, complete, lock, jobs, requested, missed,
                 wanted, got, lockExpired, pushes>>

LockExpires ==
  /\ lock # None
  /\ lock' = None
  /\ lockExpired' = (lockExpired \/ spc[lock] \in LockedPCs)
  /\ UNCHANGED <<upstream, clone, queue, complete, syncers, jobs, requested,
                 missed, dropped, wanted, got, bounds>>

CompleteExpires(r) ==
  /\ r \in complete
  /\ complete' = complete \ {r}
  /\ UNCHANGED <<upstream, clone, queue, lock, syncers, jobs, history, bounds>>

-----------------------------------------------------------------------------

WaiterStep(j) ==
  \/ GetComplete(j)
  \/ LockExists(j)
  \/ RequestSync(j)
  \/ Subscribe(j)
  \/ Receive(j)

ProcessSyncRequest(s) ==
  \/ AcquireLock(s)
  \/ LockBusy(s)
  \/ CheckDir(s)
  \/ Clone(s)
  \/ FetchNew(s)
  \/ Fetch(s)
  \/ SetComplete(s)
  \/ Publish(s)
  \/ PublishError(s)
  \/ Unlock(s)

Next ==
  \/ \E r \in Refs : Push(r) \/ CompleteExpires(r)
  \/ \E j \in Jobs : \/ TriggerSync(j) \/ WaiterStep(j)
                     \/ TimeoutElapses(j) \/ ReadTimeout(j)
  \/ \E s \in Syncers : \/ TakeRequest(s) \/ ProcessSyncRequest(s)
                        \/ SyncRaises(s) \/ PublishErrorFails(s) \/ Crash(s)
  \/ LockExpires

Spec == Init /\ [][Next]_vars

\* Jobs and sync workers go on, git commands end, and a connection that stays
\* silent is given up by the Redis client.
Fairness ==
  /\ \A j \in Jobs : WF_vars(WaiterStep(j)) /\ WF_vars(ReadTimeout(j))
  /\ \A s \in Syncers : WF_vars(TakeRequest(s)) /\ WF_vars(ProcessSyncRequest(s))
  /\ WF_vars(LockExpires)

FairSpec == Spec /\ Fairness

-----------------------------------------------------------------------------
(* Properties.                                                             *)

\* process_sync_request: as long as no sync outlasts the lock's TTL, two sync
\* workers never run git in the bare clone at the same time.
OneSyncWithinTTL ==
  ~lockExpired =>
    \A s, t \in Syncers : spc[s] \in LockedPCs /\ spc[t] \in LockedPCs => s = t

\* wait_for_repo_sync: a job that goes on finds a finished clone, whatever
\* crashed in the middle of one, unless two syncs ran at once.
SyncedHasClone ==
  ~lockExpired => \A j \in Jobs : pc[j] = "synced" => dir = "ok"

\* wait_for_repo_sync: a job that published a request of its own and listens
\* still has an answer coming, unless it was published before the job had
\* subscribed, or a request for the ref was dropped in the meantime by a worker
\* that was killed or found the lock busy.
AnswerComes ==
  \A j \in Jobs :
    pc[j] = "listen" /\ j \in requested =>
      \/ Queued(RefOf[j])
      \/ \E s \in Syncers : Working(s, RefOf[j])
      \/ \E i \in DOMAIN mail[j] : mail[j][i].ref = RefOf[j]
      \/ j \in missed
      \/ j \in dropped

\* Nothing keeps a job in wait_for_repo_sync for ever.
EveryWaitEnds == \A j \in Jobs : pc[j] = "get" ~> pc[j] \in Settled

\* The sync workers keep up: every request on the list is taken, whatever lock
\* an earlier one left behind.
RequestsDrain == []<>(queue = <<>>)

-----------------------------------------------------------------------------
(* What the documents and messages say.                                    *)

\* ARCHITECTURE.md, Data Flow: the worker triggers the sync, the sync service
\* updates the clone, the sandbox worker "waits for sync" and creates the
\* worktree: a job sees the commits there when its sync was triggered.
JobsSeeTheirSync == \A j \in Jobs : pc[j] = "synced" => got[j] >= wanted[j]

=============================================================================
