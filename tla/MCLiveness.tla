----------------------------- MODULE MCLiveness -----------------------------
(***************************************************************************)
(* What must eventually happen in the job queue, in the repository sync    *)
(* and in the recovery of sessions, each under its own fairness.  As in    *)
(* MCComponents, Init selects the component that runs and the others stay  *)
(* in their first state.                                                   *)
(***************************************************************************)
EXTENDS Naturals, Sequences, FiniteSets

CONSTANTS Jobs, Workers, Nothing,        \* JobQueue
          Waiters, Syncers, main,        \* RepoSync
          Reqs, Sweeps,                  \* StreamingSession
          None

VARIABLES
  which,       \* the component that runs
  creation, data, status, pending, processing, backup, results, deadLetter, wpc, held,
  todo, outcome, final, expired, started, crashes,
  upstream, cache, dir, queue, complete, lock, spc, sref, jpc, mail, late, requested,
  missed, lost, wanted, got, lockExpired, pushes, fails,
  dedup, lookup, sess, jobKey, inbox, resumeLock, wlock, sweepLock, job, pc, tok, jid,
  text, ran, shown, refused, dropped, keyless, lapsed, restarted, blind, faults

queueVars  == <<creation, data, status, pending, processing, backup, results, deadLetter,
                wpc, held, todo, outcome, final, expired, started, crashes>>
syncVars   == <<upstream, cache, dir, queue, complete, lock, spc, sref, jpc, mail, late,
                requested, missed, lost, wanted, got, lockExpired, pushes, fails>>
streamVars == <<dedup, lookup, sess, jobKey, inbox, resumeLock, wlock, sweepLock, job, pc,
                tok, jid, text, ran, shown, refused, dropped, keyless, lapsed, restarted,
                blind, faults>>
vars == <<which, queueVars, syncVars, streamVars>>

Queue  == INSTANCE JobQueue
            WITH NoJob <- Nothing, Outcomes <- {"success", "error"}, MaxFails <- 1, pc <- wpc,
                 job <- held, fails <- crashes
Sync   == INSTANCE RepoSync
            WITH Refs <- {main}, Jobs <- Waiters, RefOf <- [j \in Waiters |-> main],
                 Starts <- {"absent", "ok"}, MaxPushes <- 1, MaxFails <- 1, pc <- jpc,
                 dropped <- lost
Stream == INSTANCE StreamingSession WITH Resumes <- {}, MaxEvents <- 3

Init ==
  /\ which \in {"queue", "sync", "stream"}
  /\ Queue!Init /\ Sync!Init /\ Stream!Init
  /\ which # "sync" => dir = "ok"

\* A step of the component that runs.
InQueue(A)  == which = "queue" /\ A /\ UNCHANGED <<which, syncVars, streamVars>>
InSync(A)   == which = "sync" /\ A /\ UNCHANGED <<which, queueVars, streamVars>>
InStream(A) == which = "stream" /\ A /\ UNCHANGED <<which, queueVars, syncVars>>

Next == InQueue(Queue!Next) \/ InSync(Sync!Next) \/ InStream(Stream!Next)

\* The fairness each module states, for the component that runs.
Fairness ==
  /\ \A w \in Workers : WF_vars(InQueue(Queue!WorkerStep(w)))
  /\ \A j \in Jobs : /\ WF_vars(InQueue(Queue!Create(j)))
                     /\ WF_vars(InQueue(Queue!ExpireData(j)))
  /\ \A j \in Waiters : /\ WF_vars(InSync(Sync!WaiterStep(j)))
                        /\ WF_vars(InSync(Sync!ReadTimeout(j)))
  /\ \A s \in Syncers : /\ WF_vars(InSync(Sync!TakeRequest(s)))
                        /\ WF_vars(InSync(Sync!ProcessSyncRequest(s)))
  /\ WF_vars(InSync(Sync!LockExpires))
  /\ \A c \in Reqs \cup Sweeps : WF_vars(InStream(Stream!Execute(c)))
  /\ \A w \in Sweeps : WF_vars(InStream(Stream!Sweep(w)))
  /\ \A c \in Reqs \cup Sweeps :
       /\ WF_vars(InStream(Stream!Process(c)))
       /\ WF_vars(InStream(Stream!Reclaim(c) \/ Stream!LoseJob(c)))
  /\ \A t \in Reqs \cup Sweeps : WF_vars(InStream(Stream!Age(t)))
  /\ WF_vars(InStream(Stream!SweepLockExpires))
  /\ WF_vars(InStream(Stream!WorktreeLockExpires))

Spec == Init /\ [][Next]_vars /\ Fairness

-----------------------------------------------------------------------------
(* Properties.                                                             *)

\* Every queued job ends with a result, on the dead-letter list or, after a
\* crash in an unprotected window, gone (get_next_job, reclaim_stale_jobs).
EveryJobSettles == Queue!EveryJobSettles

\* Nothing keeps a job in wait_for_repo_sync for ever.
EveryWaitEnds == Sync!EveryWaitEnds

\* Every sync request is taken, whatever lock an earlier one left behind
\* (process_sync_request).
RequestsDrain == Sync!RequestsDrain

\* A session left running without a live job is recovered by the sweep while
\* there is one (_recover_orphaned_sessions_loop).
ZombieRecovered == Stream!ZombieRecovered

=============================================================================
