-------------------------- MODULE StreamingSession --------------------------
(***************************************************************************)
(* The streaming session of one thread and workflow: what the coordinator  *)
(* (RequestProcessor._execute), its recovery sweep, the session service's  *)
(* handle_resume and the job processor do to the session's Redis keys.     *)
(*                                                                         *)
(* A caller is one execution of one of these: a webhook request, a pass of *)
(* the sweep, or a browser message.  A caller draws at most one token and  *)
(* creates at most one job, so both are named by their creator.  A prompt  *)
(* is named by the request or browser message it came from.                *)
(*                                                                         *)
(* One action is one Redis command with the local code up to the next one; *)
(* find_session and find_active_session, whose last read decides, are one  *)
(* read.  A job is reduced to what it does to the session: its turns, the  *)
(* inbox, the statuses, the dedup key and the worktree lock (JobQueue and  *)
(* JobProcessor model the rest).                                           *)
(***************************************************************************)
EXTENDS Naturals, FiniteSets

CONSTANTS
  Reqs,       \* requests taken from the agent-requests queue
  Sweeps,     \* passes of _recover_orphaned_sessions_loop
  Resumes,    \* inject_message messages of browsers
  None,       \* no token, job, caller or prompt
  MaxEvents   \* bound: callers that start, and faults

ASSUME StreamingAssumption ==
  /\ None \notin Reqs \cup Sweeps \cup Resumes
  /\ Reqs \cap Sweeps = {} /\ Reqs \cap Resumes = {} /\ Sweeps \cap Resumes = {}
  /\ IsFiniteSet(Reqs \cup Sweeps \cup Resumes)
  /\ MaxEvents \in Nat

Callers == Reqs \cup Sweeps \cup Resumes
Tokens  == Reqs \cup Sweeps
Prompts == Reqs \cup Resumes

VARIABLES
  dedup,      \* caller whose SETNX wrote agent:session:lock:..., or None
  lookup,     \* token in session:stream:lookup:..., or None
  sess,       \* session:stream:{token}: status, session_id set, stale, query
  jobKey,     \* job id recorded for a token (streaming_job_key), or None
  inbox,      \* session:inbox:{token}
  resumeLock, \* nonce in agent:session:resume:lock:{token}, or None
  wlock,      \* job that wrote the worktree lock, or None
  sweepLock,  \* lock:session_recovery_sweep is set
  job,        \* each job: place, status key, token, prompts, bridge
  pc,         \* next step of each caller
  tok,        \* the caller's session token, or None
  jid,        \* job id the caller read with get_job_id
  text,       \* the caller's user_query
  ran,        \* history: prompts some turn has executed
  shown,      \* history: prompts handle_resume popped and only displayed
  refused,    \* history: browser messages nobody took
  dropped,    \* history: prompts lost with a failed or killed process
  keyless,    \* history: callers that create without holding the dedup key
  lapsed,     \* history: resumes whose lock expired while they held it
  restarted,  \* history: sweeps whose session was set running after their scan
  blind,      \* history: sweeps whose check could not see a job that existed
  faults      \* exceptions, kills, and keys that expired while in use

store   == <<dedup, lookup, sess, jobKey, inbox, resumeLock, wlock, sweepLock>>
locals  == <<tok, jid, text>>
prompts == <<ran, shown, refused, dropped>>
excuses == <<keyless, lapsed, restarted, blind>>
history == <<prompts, excuses>>
vars    == <<store, job, pc, locals, history, faults>>

-----------------------------------------------------------------------------

\* The streaming block of _execute up to set_job_id, after the dedup key.
Creating == {"active", "lockinfo", "orphan", "getjob", "jobstatus", "seterror",
             "find", "setrun", "create", "createjob", "setjob"}
Follow   == {"d_active", "d_find", "d_push", "d_delete", "inject", "signal",
             "push"}
Sweeping == {"scan", "s_getjob", "s_jobstatus", "s_lock", "s_error"}
Resuming == {"check", "r_setrun", "r_pop", "r_data", "r_setjob", "r_push"}
Ended    == {"created", "injected", "queued", "ignored", "raised", "killed",
             "left", "forwarded"}
PCs      == {"new", "process", "setnx", "acquire", "release"} \cup Creating \cup Follow
            \cup Sweeping \cup Resuming \cup Ended

\* A job from its creation until it leaves the loop that reads the inbox.
Waiting == {"queued", "setup", "wait"}
InLoop  == {"turn", "pop", "rerun"}
Working == Waiting \cup InLoop
Closing == {"finish", "fail", "complete", "undedup", "unlock"}
JobPCs  == {"none", "dead", "lost", "done"} \cup Working \cup Closing

\* What the streaming session hash holds for a token that has none.
NoSession == [status |-> "none", sid |-> FALSE, old |-> FALSE, query |-> None]
NoJob     == [pc |-> "none", stat |-> "none", tok |-> None, prompts |-> {},
              bridge |-> FALSE]

\* find_session and find_active_session.
FindSession == lookup
FindActive  == IF lookup # None /\ sess[lookup].status = "running"
               THEN lookup ELSE None

\* JobQueue.get_job_status answers pending or processing.
JobAlive(j) == j # None /\ job[j].stat \in {"pending", "processing"}

\* The session's job, in the queue, waiting or in its loop.
LiveJob(t) == \E j \in Callers : job[j].tok = t /\ job[j].pc \in Working

TypeOK ==
  /\ dedup \in Callers \cup {None} /\ lookup \in Tokens \cup {None}
  /\ sess \in [Tokens -> [status : {"none", "running", "completed", "error"},
                          sid : BOOLEAN, old : BOOLEAN,
                          query : Prompts \cup {None}]]
  /\ jobKey \in [Tokens -> Callers \cup {None}]
  /\ inbox \in [Tokens -> SUBSET Prompts]
  /\ resumeLock \in [Tokens -> Resumes \cup {None}]
  /\ wlock \in Callers \cup {None} /\ sweepLock \in BOOLEAN
  /\ job \in [Callers -> [pc : JobPCs, stat : {"none", "pending", "processing",
                                               "ended"},
                          tok : Tokens \cup {None}, prompts : SUBSET Prompts,
                          bridge : BOOLEAN]]
  /\ pc \in [Callers -> PCs]
  /\ tok \in [Callers -> Tokens \cup {None}]
  /\ jid \in [Callers -> Callers \cup {None}]
  /\ text \in [Callers -> Prompts \cup {None}]
  /\ ran \subseteq Prompts /\ shown \subseteq Prompts /\ refused \subseteq Prompts
  /\ dropped \subseteq Prompts
  /\ keyless \subseteq Callers /\ lapsed \subseteq Resumes
  /\ restarted \subseteq Sweeps /\ blind \subseteq Sweeps
  /\ faults \in 0..MaxEvents

Init ==
  /\ dedup = None /\ lookup = None
  /\ sess = [t \in Tokens |-> NoSession]
  /\ jobKey = [t \in Tokens |-> None]
  /\ inbox = [t \in Tokens |-> {}]
  /\ resumeLock = [t \in Tokens |-> None]
  /\ wlock = None /\ sweepLock = FALSE
  /\ job = [j \in Callers |-> NoJob]
  /\ pc = [c \in Callers |-> "new"]
  /\ tok = [c \in Callers |-> None]
  /\ jid = [c \in Callers |-> None]
  /\ text = [c \in Callers |-> IF c \in Sweeps THEN None ELSE c]
  /\ ran = {} /\ shown = {} /\ refused = {} /\ dropped = {}
  /\ keyless = {} /\ lapsed = {} /\ restarted = {} /\ blind = {}
  /\ faults = 0

-----------------------------------------------------------------------------
(* The coordinator.                                                        *)

\* The bound on what happens to the system.
Spent == Cardinality({c \in Callers : pc[c] # "new"}) + faults

Fault == Spent < MaxEvents /\ faults' = faults + 1

Goto(c, from, to) ==
  /\ pc[c] = from
  /\ pc' = [pc EXCEPT ![c] = to]

\* A read: only the caller's own variables change.
Reads == UNCHANGED <<store, job, history, faults>>

\* SessionStore.get_streaming_session and get_job_id.
GetSession(t) == sess[t]
GetJobId(t) == jobKey[t]

\* set_completed, and update_session_id.
SetCompleted(t, status) == sess' = [sess EXCEPT ![t].status = status]
UpdateSessionId(t) == sess' = [sess EXCEPT ![t].sid = TRUE]

SetJobId(t, j) == jobKey' = [jobKey EXCEPT ![t] = j]

\* push_inbox_message of the caller's query.
PushInbox(c) ==
  inbox' = [inbox EXCEPT ![tok[c]] = @ \cup {text[c]}]

\* Sweeps that have seen session t stale when somebody sets it running.
Outrun(t) == {w \in Sweeps : tok[w] = t /\ pc[w] \in Sweeping}

Running(q) == [status |-> "running", sid |-> FALSE, old |-> FALSE, query |-> q]

\* set_running clears the session id and renews last_run.
SetRunning(t) ==
  /\ sess' = [sess EXCEPT ![t] = Running(@.query)]
  /\ restarted' = restarted \cup Outrun(t)

\* create_session: hash and lookup key in one pipeline.
CreateSession(t, q) ==
  /\ sess' = [sess EXCEPT ![t] = Running(q)]
  /\ lookup' = t
  /\ restarted' = restarted \cup Outrun(t)

\* _execute before the streaming block: validation, the sync request, the
\* persistent session, the context files and the token.  A request for an
\* unknown workflow or an inaccessible repository is ignored.
Prepare(c) ==
  /\ \/ c \in Reqs /\ pc[c] = "new" /\ Spent < MaxEvents
     \/ pc[c] = "process"
  /\ \/ pc' = [pc EXCEPT ![c] = "setnx"] /\ UNCHANGED dropped
     \/ pc' = [pc EXCEPT ![c] = "ignored"] /\ dropped' = dropped \cup {text[c]}
  /\ UNCHANGED <<store, job, locals, ran, shown, refused, excuses, faults>>

\* Mutant: the answer of the SETNX is not looked at.
SetnxUnchecked(c) ==
  /\ Goto(c, "setnx", "active") /\ dedup' = c
  /\ UNCHANGED <<lookup, sess, jobKey, inbox, resumeLock, wlock, sweepLock, job,
                 locals, history, faults>>

\* SET NX EX of the dedup key.
Setnx(c) ==
  /\ \/ dedup = None /\ Goto(c, "setnx", "active") /\ dedup' = c
     \/ dedup # None /\ Goto(c, "setnx", "d_active") /\ UNCHANGED dedup
  /\ UNCHANGED <<lookup, sess, jobKey, inbox, resumeLock, wlock, sweepLock, job,
                 locals, history, faults>>

\* Key held: a running session gets the message injected.
DedupActive(c) ==
  /\ IF FindActive # None THEN Goto(c, "d_active", "inject")
                          ELSE Goto(c, "d_active", "d_find")
  /\ tok' = [tok EXCEPT ![c] = FindActive]
  /\ UNCHANGED <<jid, text>> /\ Reads

\* Key held, any session: the message is queued for it.
DedupFind(c) ==
  /\ IF FindSession # None THEN Goto(c, "d_find", "d_push")
                           ELSE Goto(c, "d_find", "d_delete")
  /\ tok' = [tok EXCEPT ![c] = FindSession]
  /\ UNCHANGED <<jid, text>> /\ Reads

DedupPush(c) ==
  /\ Goto(c, "d_push", "queued")
  /\ PushInbox(c)
  /\ UNCHANGED <<dedup, lookup, sess, jobKey, resumeLock, wlock, sweepLock, job,
                 locals, history, faults>>

\* The caller that is creating under the dedup key, when the key goes away.
Robbed == {c \in Callers : dedup = c /\ pc[c] \in Creating}

\* No session: the key is taken for stale and deleted, whoever wrote it.
DedupDelete(c) ==
  /\ Goto(c, "d_delete", "active")
  /\ dedup' = None
  /\ keyless' = keyless \cup {c} \cup Robbed
  /\ UNCHANGED <<lookup, sess, jobKey, inbox, resumeLock, wlock, sweepLock, job,
                 locals, prompts, lapsed, restarted, blind, faults>>

Active(c) ==
  /\ IF FindActive # None THEN Goto(c, "active", "lockinfo")
                          ELSE Goto(c, "active", "find")
  /\ tok' = [tok EXCEPT ![c] = FindActive]
  /\ UNCHANGED <<jid, text>> /\ Reads

LockInfo(c) ==
  /\ IF wlock # None THEN Goto(c, "lockinfo", "inject")
                     ELSE Goto(c, "lockinfo", "orphan")
  /\ UNCHANGED locals /\ Reads

\* _orphaned_session_age: the hash, then the recorded job and its status.
Orphan(c) ==
  /\ pc[c] = "orphan"
  /\ LET s == GetSession(tok[c])
     IN  IF s.sid \/ ~s.old THEN Goto(c, "orphan", "push")
                            ELSE Goto(c, "orphan", "getjob")
  /\ UNCHANGED locals /\ Reads

GetJob(c, from, none, some) ==
  /\ pc[c] = from
  /\ IF GetJobId(tok[c]) = None THEN Goto(c, from, none) ELSE Goto(c, from, some)
  /\ jid' = [jid EXCEPT ![c] = GetJobId(tok[c])]
  /\ UNCHANGED <<tok, text>> /\ Reads

OrphanGetJob(c) == GetJob(c, "getjob", "seterror", "jobstatus")

OrphanStatus(c) ==
  /\ pc[c] = "jobstatus"
  /\ IF JobAlive(jid[c]) THEN Goto(c, "jobstatus", "push")
                         ELSE Goto(c, "jobstatus", "seterror")
  /\ UNCHANGED locals /\ Reads

\* set_completed(is_error=True).
MarkError(c) ==
  /\ SetCompleted(tok[c], "error")
  /\ UNCHANGED <<dedup, lookup, jobKey, inbox, resumeLock, wlock, sweepLock, job,
                 locals, history, faults>>

OrphanError(c) == Goto(c, "seterror", "find") /\ MarkError(c)

\* Not orphaned: the message waits in the inbox.
QueuePush(c) ==
  /\ Goto(c, "push", "queued")
  /\ PushInbox(c)
  /\ UNCHANGED <<dedup, lookup, sess, jobKey, resumeLock, wlock, sweepLock, job,
                 locals, history, faults>>

\* _inject_into_running_session: inbox, then the cancel signal.
Inject(c) ==
  /\ Goto(c, "inject", "signal")
  /\ PushInbox(c)
  /\ UNCHANGED <<dedup, lookup, sess, jobKey, resumeLock, wlock, sweepLock, job,
                 locals, history, faults>>

\* A job inside cancel_subscription leaves its turn as superseded.
Cancelled(S) ==
  [j \in Callers |-> IF j \in S /\ job[j].pc = "turn"
                     THEN [job[j] EXCEPT !.pc = "complete"] ELSE job[j]]

Signal(c) ==
  /\ Goto(c, "signal", "injected")
  /\ job' = Cancelled(Callers)
  /\ UNCHANGED <<store, locals, history, faults>>

Find(c) ==
  /\ IF FindSession # None THEN Goto(c, "find", "setrun")
                           ELSE Goto(c, "find", "create")
  /\ tok' = [tok EXCEPT ![c] = IF FindSession # None THEN FindSession ELSE c]
  /\ UNCHANGED <<jid, text>> /\ Reads

SetRun(c) ==
  /\ Goto(c, "setrun", "create")
  /\ SetRunning(tok[c])
  /\ UNCHANGED <<dedup, lookup, jobKey, inbox, resumeLock, wlock, sweepLock, job,
                 locals, prompts, keyless, lapsed, blind, faults>>

Create(c) ==
  /\ Goto(c, "create", "createjob")
  /\ CreateSession(tok[c], text[c])
  /\ UNCHANGED <<dedup, jobKey, inbox, resumeLock, wlock, sweepLock, job,
                 locals, prompts, keyless, lapsed, blind, faults>>

\* JobQueue.create_job (JobQueue models its commands one by one).
NewJob(c, place) ==
  job' = [job EXCEPT ![c] = [pc |-> place, stat |-> "pending", tok |-> tok[c],
                             prompts |-> {text[c]}, bridge |-> FALSE]]

CreateJob(c) ==
  /\ IF tok[c] = None THEN Goto(c, "createjob", "created")
                      ELSE Goto(c, "createjob", "setjob")
  /\ NewJob(c, "queued")
  /\ UNCHANGED <<store, locals, history, faults>>

\* set_job_id; a failure is only logged.
SetJob(c) ==
  /\ Goto(c, "setjob", "created")
  /\ \/ SetJobId(tok[c], c) /\ UNCHANGED faults
     \/ Fault /\ UNCHANGED jobKey
  /\ UNCHANGED <<dedup, lookup, sess, inbox, resumeLock, wlock, sweepLock, job,
                 locals, history>>

\* The process is killed, or an exception leaves the streaming block: then the
\* job is created without a session.  One in create_job leaves process().
CoordinatorFails(c) ==
  /\ Fault
  /\ \/ /\ pc[c] \in {"setnx"} \cup Follow \cup Creating
        /\ pc' = [pc EXCEPT ![c] = "killed"] /\ UNCHANGED tok
        /\ dropped' = IF pc[c] \in {"signal", "setjob"} THEN dropped
                      ELSE dropped \cup {text[c]}
     \/ /\ pc[c] \in ({"setnx"} \cup Follow \cup Creating) \ {"createjob", "setjob"}
        /\ pc' = [pc EXCEPT ![c] = "createjob"]
        /\ tok' = [tok EXCEPT ![c] = None] /\ UNCHANGED dropped
     \/ /\ pc[c] = "createjob"
        /\ pc' = [pc EXCEPT ![c] = "raised"] /\ UNCHANGED tok
        /\ dropped' = dropped \cup {text[c]}
  /\ UNCHANGED <<store, job, jid, text, ran, shown, refused, excuses>>

Execute(c) ==
  \/ Prepare(c) \/ Setnx(c)
  \/ DedupActive(c) \/ DedupFind(c) \/ DedupPush(c) \/ DedupDelete(c)
  \/ Active(c) \/ LockInfo(c) \/ Orphan(c) \/ OrphanGetJob(c) \/ OrphanStatus(c)
  \/ OrphanError(c) \/ QueuePush(c) \/ Inject(c) \/ Signal(c)
  \/ Find(c) \/ SetRun(c) \/ Create(c) \/ CreateJob(c) \/ SetJob(c)

-----------------------------------------------------------------------------
(* The recovery sweep.                                                     *)

\* SET NX EX of the sweep's lock, which is never released.
SweepStart(w) ==
  /\ w \in Sweeps /\ Spent < MaxEvents
  /\ ~sweepLock /\ Goto(w, "new", "scan") /\ sweepLock' = TRUE
  /\ UNCHANGED <<dedup, lookup, sess, jobKey, inbox, resumeLock, wlock, job,
                 locals, history, faults>>

\* Mutant: neither the status nor the age is looked at.
StaleAny(t) == ~sess[t].sid

\* list_stale_running_sessions: running, never given a session id, stale.
Stale(t) == sess[t].status = "running" /\ ~sess[t].sid /\ sess[t].old

Scan(w) ==
  /\ \/ \E t \in Tokens :
          /\ Stale(t) /\ Goto(w, "scan", "s_getjob")
          /\ tok' = [tok EXCEPT ![w] = t]
          /\ text' = [text EXCEPT ![w] = sess[t].query]
     \/ /\ \A t \in Tokens : ~Stale(t)
        /\ Goto(w, "scan", "new") /\ UNCHANGED <<tok, text>>
  /\ UNCHANGED jid /\ Reads

\* A job that is not completed: a worker that dies with it leaves it to
\* reclaim_stale_jobs.
Open == Working \cup {"dead", "finish", "fail", "complete"}

\* The session's job exists, or may still run, or is being created.
Unfinished(t) ==
  \/ \E j \in Callers : job[j].tok = t /\ job[j].pc \in Open
  \/ \E c \in Callers : /\ tok[c] = t
                        /\ pc[c] \in {"createjob", "setjob"} \cup Resuming

\* Back to the loop: the pass leaves this session alone.
PassOver(w, from) ==
  /\ Goto(w, from, "new")
  /\ tok' = [tok EXCEPT ![w] = None] /\ jid' = [jid EXCEPT ![w] = None]
  /\ text' = [text EXCEPT ![w] = None]
  /\ restarted' = restarted \ {w} /\ blind' = blind \ {w}

\* Mutant: a session without a recorded job is left alone.
SweepNeedsJob(w) ==
  /\ pc[w] = "s_getjob"
  /\ IF GetJobId(tok[w]) = None THEN PassOver(w, "s_getjob")
     ELSE /\ Goto(w, "s_getjob", "s_jobstatus")
          /\ jid' = [jid EXCEPT ![w] = GetJobId(tok[w])]
          /\ UNCHANGED <<tok, text, restarted, blind>>
  /\ UNCHANGED <<store, job, prompts, keyless, lapsed, faults>>

SweepGetJob(w) ==
  /\ pc[w] = "s_getjob"
  /\ IF GetJobId(tok[w]) = None
     THEN /\ Goto(w, "s_getjob", "s_lock")
          /\ blind' = IF Unfinished(tok[w]) THEN blind \cup {w} ELSE blind
     ELSE Goto(w, "s_getjob", "s_jobstatus") /\ UNCHANGED blind
  /\ jid' = [jid EXCEPT ![w] = GetJobId(tok[w])]
  /\ UNCHANGED <<tok, text, store, job, prompts, keyless, lapsed, restarted,
                 faults>>

\* Mutant: only the worktree lock is asked whether the job is alive.
SweepStatusIgnored(w) ==
  /\ Goto(w, "s_jobstatus", "s_lock")
  /\ blind' = IF Unfinished(tok[w]) /\ ~JobAlive(jid[w])
              THEN blind \cup {w} ELSE blind
  /\ UNCHANGED <<locals, restarted, store, job, prompts, keyless, lapsed, faults>>

SweepStatus(w) ==
  /\ pc[w] = "s_jobstatus"
  /\ \/ JobAlive(jid[w]) /\ PassOver(w, "s_jobstatus")
     \/ /\ ~JobAlive(jid[w]) /\ Goto(w, "s_jobstatus", "s_lock")
        /\ blind' = IF Unfinished(tok[w]) THEN blind \cup {w} ELSE blind
        /\ UNCHANGED <<locals, restarted>>
  /\ UNCHANGED <<store, job, prompts, keyless, lapsed, faults>>

SweepLockInfo(w) ==
  /\ \/ wlock # None /\ PassOver(w, "s_lock")
     \/ wlock = None /\ Goto(w, "s_lock", "s_error")
        /\ UNCHANGED <<locals, restarted, blind>>
  /\ UNCHANGED <<store, job, prompts, keyless, lapsed, faults>>

\* The session is marked and process() called with its initial query.
SweepError(w) == Goto(w, "s_error", "process") /\ MarkError(w)

\* An error of a read ends the pass; the loop goes on.
SweepFails(w) ==
  /\ pc[w] \in Sweeping
  /\ Fault
  /\ PassOver(w, pc[w])
  /\ UNCHANGED <<store, job, prompts, keyless, lapsed>>

Sweep(w) ==
  \/ SweepStart(w) \/ Scan(w) \/ SweepGetJob(w) \/ SweepStatus(w)
  \/ SweepLockInfo(w) \/ SweepError(w)

-----------------------------------------------------------------------------
(* A browser's message: _ws_to_redis and handle_resume.                    *)

\* A running session's message goes to the control channel; only a job whose
\* channel listens puts it into the inbox.
Heard(t) == \E j \in Callers : /\ job[j].tok = t /\ job[j].bridge
                               /\ job[j].pc \in InLoop

BrowserSends(r) ==
  /\ r \in Resumes /\ Spent < MaxEvents
  /\ \E t \in Tokens :
       /\ sess[t].status # "none" /\ lookup = t
       /\ tok' = [tok EXCEPT ![r] = t]
       /\ \/ /\ sess[t].status \in {"completed", "error"}
             /\ Goto(r, "new", "acquire") /\ UNCHANGED <<inbox, refused>>
          \/ /\ sess[t].status = "running"
             /\ Goto(r, "new", "forwarded")
             /\ inbox' = IF Heard(t) THEN [inbox EXCEPT ![t] = @ \cup {r}] ELSE inbox
             /\ refused' = IF Heard(t) THEN refused ELSE refused \cup {r}
  /\ UNCHANGED <<dedup, lookup, sess, jobKey, resumeLock, wlock, sweepLock, job,
                 jid, text, ran, shown, dropped, excuses, faults>>

\* Mutant: SET without NX.
AcquireResumeAlways(r) ==
  /\ Goto(r, "acquire", "check")
  /\ resumeLock' = [resumeLock EXCEPT ![tok[r]] = r]
  /\ UNCHANGED <<dedup, lookup, sess, jobKey, inbox, wlock, sweepLock, job, locals,
                 history, faults>>

\* SET NX EX of the resume lock with a fresh nonce.
AcquireResume(r) ==
  /\ pc[r] = "acquire"
  /\ \/ /\ resumeLock[tok[r]] = None /\ Goto(r, "acquire", "check")
        /\ resumeLock' = [resumeLock EXCEPT ![tok[r]] = r] /\ UNCHANGED refused
     \/ /\ resumeLock[tok[r]] # None /\ Goto(r, "acquire", "left")
        /\ refused' = refused \cup {r} /\ UNCHANGED resumeLock
  /\ UNCHANGED <<dedup, lookup, sess, jobKey, inbox, wlock, sweepLock, job, locals,
                 ran, shown, dropped, excuses, faults>>

\* Only completed and errored sessions are resumed.
CheckResumable(r) ==
  /\ pc[r] = "check"
  /\ \/ /\ GetSession(tok[r]).status \in {"completed", "error"}
        /\ Goto(r, "check", "r_setrun") /\ UNCHANGED refused
     \/ /\ GetSession(tok[r]).status \notin {"completed", "error"}
        /\ Goto(r, "check", "release") /\ refused' = refused \cup {r}
  /\ UNCHANGED <<store, job, locals, ran, shown, dropped, excuses, faults>>

ResumeSetRun(r) ==
  /\ Goto(r, "r_setrun", "r_pop")
  /\ SetRunning(tok[r])
  /\ UNCHANGED <<dedup, lookup, jobKey, inbox, resumeLock, wlock, sweepLock, job,
                 locals, prompts, keyless, lapsed, blind, faults>>

\* Mutant: the drained messages are not displayed either.
ResumePopSilent(r) ==
  /\ Goto(r, "r_pop", "r_data")
  /\ inbox' = [inbox EXCEPT ![tok[r]] = {}]
  /\ UNCHANGED <<dedup, lookup, sess, jobKey, resumeLock, wlock, sweepLock, job,
                 locals, history, faults>>

\* The inbox is drained into the browser's history, not into the job.
ResumePop(r) ==
  /\ Goto(r, "r_pop", "r_data")
  /\ inbox' = [inbox EXCEPT ![tok[r]] = {}]
  /\ shown' = shown \cup inbox[tok[r]]
  /\ UNCHANGED <<dedup, lookup, sess, jobKey, resumeLock, wlock, sweepLock, job,
                 locals, ran, refused, dropped, excuses, faults>>

\* _create_job: data and status, then the job id, then the list.
ResumeData(r) ==
  /\ Goto(r, "r_data", "r_setjob")
  /\ NewJob(r, "none")
  /\ UNCHANGED <<store, locals, history, faults>>

ResumeSetJob(r) ==
  /\ Goto(r, "r_setjob", "r_push")
  /\ SetJobId(tok[r], r)
  /\ UNCHANGED <<dedup, lookup, sess, inbox, resumeLock, wlock, sweepLock, job,
                 locals, history, faults>>

ResumePush(r) ==
  /\ Goto(r, "r_push", "release")
  /\ job' = [job EXCEPT ![r].pc = "queued"]
  /\ UNCHANGED <<store, locals, history, faults>>

\* Compare-and-delete of the nonce.
ReleaseResume(r) ==
  /\ Goto(r, "release", "left")
  /\ resumeLock' = IF resumeLock[tok[r]] = r
                   THEN [resumeLock EXCEPT ![tok[r]] = None] ELSE resumeLock
  /\ UNCHANGED <<dedup, lookup, sess, jobKey, inbox, wlock, sweepLock, job, locals,
                 history, faults>>

\* An exception releases the lock in the finally clause; a kill does not.
ResumeFails(r) ==
  /\ pc[r] \in Resuming \cup {"release"}
  /\ Fault
  /\ \/ pc' = [pc EXCEPT ![r] = "killed"]
     \/ pc[r] # "release" /\ pc' = [pc EXCEPT ![r] = "release"]
  /\ dropped' = IF pc[r] = "release" THEN dropped ELSE dropped \cup {r}
  /\ UNCHANGED <<store, job, locals, ran, shown, refused, excuses>>

Resume(r) ==
  \/ AcquireResume(r) \/ CheckResumable(r) \/ ResumeSetRun(r) \/ ResumePop(r)
  \/ ResumeData(r) \/ ResumeSetJob(r) \/ ResumePush(r) \/ ReleaseResume(r)

-----------------------------------------------------------------------------
(* The job, as far as the session sees it.                                 *)

JobGoto(j, from, to) ==
  /\ job[j].pc = from
  /\ job' = [job EXCEPT ![j].pc = to]

\* get_next_job.
TakeJob(j) ==
  /\ job[j].pc = "queued"
  /\ job' = [job EXCEPT ![j].pc = "setup", ![j].stat = "processing"]
  /\ UNCHANGED <<store, pc, locals, history, faults>>

\* Entering the loop: the first turn starts; setting up the stream may fail.
EnterLoop(j) ==
  /\ wlock = None /\ wlock' = j
  /\ \E b \in BOOLEAN :
       /\ b => job[j].tok # None
       /\ IF ~b /\ job[j].tok # None THEN Fault
                                     ELSE UNCHANGED faults
       /\ job' = [job EXCEPT ![j].pc = "turn", ![j].bridge = b]
  /\ ran' = ran \cup job[j].prompts
  /\ UNCHANGED <<dedup, lookup, sess, jobKey, inbox, resumeLock, sweepLock, pc,
                 locals, shown, refused, dropped, excuses>>

\* A busy worktree lock: cancel the holder and wait for the release.
JobLock(j) == job[j].pc = "setup" /\ EnterLoop(j)

JobBusy(j) ==
  /\ job[j].pc = "setup" /\ wlock # None
  /\ job' = [Cancelled({wlock}) EXCEPT ![j].pc = "wait"]
  /\ UNCHANGED <<store, pc, locals, history, faults>>

JobWaited(j) == job[j].pc = "wait" /\ EnterLoop(j)

\* The setup or the wait for the lock fails.
SetupFails(j) ==
  /\ job[j].pc \in {"setup", "wait"}
  /\ Fault
  /\ job' = [job EXCEPT ![j].pc = "fail"]
  /\ dropped' = dropped \cup job[j].prompts
  /\ UNCHANGED <<store, pc, locals, ran, shown, refused, excuses>>

\* execute_sdk returns, or raises.
TurnEnds(j) ==
  /\ JobGoto(j, "turn", IF job[j].bridge THEN "pop" ELSE "finish")
  /\ UNCHANGED <<store, pc, locals, history, faults>>

TurnFails(j) ==
  /\ Fault
  /\ JobGoto(j, "turn", "fail")
  /\ UNCHANGED <<store, pc, locals, history>>

\* pop_inbox_messages; what it returns is the next turn's prompt.
Pop(j) ==
  /\ job[j].pc = "pop"
  /\ LET t == job[j].tok
     IN  /\ job' = IF inbox[t] = {} THEN [job EXCEPT ![j].pc = "finish"]
                   ELSE [job EXCEPT ![j].pc = "rerun", ![j].prompts = inbox[t]]
         /\ inbox' = [inbox EXCEPT ![t] = {}]
  /\ UNCHANGED <<dedup, lookup, sess, jobKey, resumeLock, wlock, sweepLock, pc,
                 locals, history, faults>>

\* set_running, and the next turn.
Rerun(j) ==
  /\ JobGoto(j, "rerun", "turn")
  /\ SetRunning(job[j].tok)
  /\ ran' = ran \cup job[j].prompts
  /\ UNCHANGED <<dedup, lookup, jobKey, inbox, resumeLock, wlock, sweepLock, pc,
                 locals, shown, refused, dropped, keyless, lapsed, blind, faults>>

\* set_completed with the session id (nobody tells completed from error);
\* without a bridge _save_session writes the session id and leaves the status.
Finish(j) ==
  /\ JobGoto(j, "finish", "complete")
  /\ LET t == job[j].tok
     IN  \/ t = None /\ UNCHANGED sess
         \/ t # None /\ ~job[j].bridge /\ UpdateSessionId(t)
         \/ /\ t # None /\ job[j].bridge
            /\ sess' = [sess EXCEPT ![t].status = "completed", ![t].sid = TRUE]
  /\ UNCHANGED <<dedup, lookup, jobKey, inbox, resumeLock, wlock, sweepLock, pc,
                 locals, history, faults>>

\* _handle_error: set_completed(is_error=True), if the job has a session.
Fail(j) ==
  /\ JobGoto(j, "fail", "complete")
  /\ \/ job[j].tok = None /\ UNCHANGED sess
     \/ job[j].tok # None /\ SetCompleted(job[j].tok, "error")
  /\ UNCHANGED <<dedup, lookup, jobKey, inbox, resumeLock, wlock, sweepLock, pc,
                 locals, history, faults>>

\* complete_job, with whatever status.
Complete(j) ==
  /\ job[j].pc = "complete"
  /\ job' = [job EXCEPT ![j].pc = "undedup", ![j].stat = "ended"]
  /\ UNCHANGED <<store, pc, locals, history, faults>>

\* _cleanup: the dedup key goes, whoever wrote it.
Undedup(j) ==
  /\ JobGoto(j, "undedup", "unlock")
  /\ dedup' = None
  /\ keyless' = keyless \cup Robbed
  /\ UNCHANGED <<lookup, sess, jobKey, inbox, resumeLock, wlock, sweepLock, pc,
                 locals, prompts, lapsed, restarted, blind, faults>>

Unlock(j) ==
  /\ job[j].pc = "unlock"
  /\ job' = [job EXCEPT ![j].pc = "done", ![j].prompts = {}]
  /\ wlock' = IF wlock = j THEN None ELSE wlock
  /\ UNCHANGED <<dedup, lookup, sess, jobKey, inbox, resumeLock, sweepLock, pc,
                 locals, history, faults>>

\* The worker is killed; a job it had not completed is re-queued with its
\* original prompt by reclaim_stale_jobs, or lost with its data.
KillWorker(j) ==
  /\ job[j].pc \in Working \cup Closing /\ job[j].pc # "queued"
  /\ Fault
  /\ LET finished == job[j].pc \in {"undedup", "unlock"}
         left == IF finished THEN {} ELSE {text[j]}
     IN  /\ job' = [job EXCEPT ![j].pc = IF finished THEN "done" ELSE "dead",
                              ![j].prompts = left]
         /\ dropped' = dropped \cup (job[j].prompts \ left)
  /\ UNCHANGED <<store, pc, locals, ran, shown, refused, excuses>>

Reclaim(j) ==
  /\ job[j].pc = "dead"
  /\ job' = [job EXCEPT ![j].pc = "queued", ![j].stat = "pending"]
  /\ UNCHANGED <<store, pc, locals, history, faults>>

LoseJob(j) ==
  /\ \/ job[j].pc = "dead" /\ UNCHANGED faults
     \/ job[j].pc = "queued" /\ Fault
  /\ job' = [job EXCEPT ![j].pc = "lost", ![j].stat = "none", ![j].prompts = {}]
  /\ dropped' = dropped \cup job[j].prompts
  /\ UNCHANGED <<store, pc, locals, ran, shown, refused, excuses>>

Process(j) ==
  \/ TakeJob(j) \/ JobLock(j) \/ JobBusy(j) \/ JobWaited(j) \/ TurnEnds(j)
  \/ Pop(j) \/ Rerun(j) \/ Finish(j) \/ Fail(j) \/ Complete(j) \/ Undedup(j)
  \/ Unlock(j)

-----------------------------------------------------------------------------
(* Time.                                                                   *)

\* last_run becomes older than STREAMING_SESSION_STALE_SECONDS.
Age(t) ==
  /\ sess[t].status = "running" /\ ~sess[t].old
  /\ sess' = [sess EXCEPT ![t].old = TRUE]
  /\ UNCHANGED <<dedup, lookup, jobKey, inbox, resumeLock, wlock, sweepLock, job,
                 pc, locals, history, faults>>

\* TTLs: the dedup key (30 s), the sweep's lock, the resume lock (30 s), the
\* worktree lock (600 s) and a job's status key.
DedupExpires ==
  /\ dedup # None /\ dedup' = None
  /\ IF Robbed = {} THEN UNCHANGED faults
                    ELSE Fault
  /\ keyless' = keyless \cup Robbed
  /\ UNCHANGED <<lookup, sess, jobKey, inbox, resumeLock, wlock, sweepLock, job,
                 pc, locals, prompts, lapsed, restarted, blind>>

SweepLockExpires ==
  /\ sweepLock /\ sweepLock' = FALSE
  /\ UNCHANGED <<dedup, lookup, sess, jobKey, inbox, resumeLock, wlock, job, pc,
                 locals, history, faults>>

ResumeLockExpires(t) ==
  LET r == resumeLock[t]
  IN  /\ r # None
      /\ resumeLock' = [resumeLock EXCEPT ![t] = None]
      /\ IF pc[r] \in Resuming
         THEN Fault /\ lapsed' = lapsed \cup {r}
         ELSE UNCHANGED <<faults, lapsed>>
      /\ UNCHANGED <<dedup, lookup, sess, jobKey, inbox, wlock, sweepLock, job, pc,
                     locals, prompts, keyless, restarted, blind>>

WorktreeLockExpires ==
  /\ wlock # None /\ wlock' = None
  /\ IF job[wlock].pc \in InLoop \cup Closing
     THEN Fault ELSE UNCHANGED faults
  /\ UNCHANGED <<dedup, lookup, sess, jobKey, inbox, resumeLock, sweepLock, job,
                 pc, locals, history>>

StatusExpires(j) ==
  /\ job[j].stat # "none" /\ Fault
  /\ job' = [job EXCEPT ![j].stat = "none"]
  /\ UNCHANGED <<store, pc, locals, history>>

-----------------------------------------------------------------------------

Next ==
  \/ \E c \in Reqs \cup Sweeps : Execute(c) \/ CoordinatorFails(c)
  \/ \E w \in Sweeps : Sweep(w) \/ SweepFails(w)
  \/ \E r \in Resumes : BrowserSends(r) \/ Resume(r) \/ ResumeFails(r)
  \/ \E j \in Callers : Process(j) \/ SetupFails(j) \/ TurnFails(j)
                        \/ KillWorker(j) \/ Reclaim(j) \/ LoseJob(j)
                        \/ StatusExpires(j)
  \/ \E t \in Tokens : Age(t) \/ ResumeLockExpires(t)
  \/ DedupExpires \/ SweepLockExpires \/ WorktreeLockExpires

Spec == Init /\ [][Next]_vars

\* asyncio resumes every task, sandbox workers keep taking and reclaiming jobs,
\* the sweep's loop goes on, and time passes.
Fairness ==
  /\ \A c \in Reqs \cup Sweeps : WF_vars(Execute(c))
  /\ \A w \in Sweeps : WF_vars(Sweep(w))
  /\ \A r \in Resumes : WF_vars(Resume(r))
  /\ \A j \in Callers : WF_vars(Process(j)) /\ WF_vars(Reclaim(j) \/ LoseJob(j))
  /\ \A t \in Tokens : WF_vars(Age(t))
  /\ WF_vars(SweepLockExpires) /\ WF_vars(WorktreeLockExpires)

FairSpec == Spec /\ Fairness

-----------------------------------------------------------------------------
(* Properties.                                                             *)

\* After an exception in the streaming block the job has no session.
Sessionless(c) == pc[c] = "createjob" /\ tok[c] = None

\* session_dedup_key: of two callers that are creating a session and a job for
\* the thread at the same time, at least one goes on without the dedup key: it
\* deleted it as stale, or lost it to the TTL, to another request or to the
\* clean-up of an earlier job.
OneCreator ==
  \A c, d \in {x \in Reqs \cup Sweeps : pc[x] \in Creating /\ ~Sessionless(x)} :
    c # d => c \in keyless \/ d \in keyless

\* _acquire_resume_lock and the nonce in _release_resume_lock: two resumes of one
\* session overlap only if the lock of one of them expired under it.
OneResume ==
  \A q, r \in Resumes :
    q # r /\ tok[q] = tok[r] /\ pc[q] \in Resuming /\ pc[r] \in Resuming
      => q \in lapsed \/ r \in lapsed

\* A prompt the coordinator accepted (a job created, injected or queued), or a
\* browser message that resumed a session, has had its turn, waits in an inbox,
\* belongs to a job that is still to run, was popped and only displayed by a
\* resume, or went down with a failed or killed process.
PromptsAccounted ==
  \A c \in Prompts :
    pc[c] \in {"created", "injected", "queued", "forwarded", "left"} =>
      \/ c \in ran \cup shown \cup refused \cup dropped
      \/ \E t \in Tokens : c \in inbox[t]
      \/ \E j \in Callers : c \in job[j].prompts

\* _recover_session: the sweep marks a session whose job is live as failed only
\* if the session was set running again after the scan, or the job could not be
\* seen at the check (not recorded yet, or its status key had expired).
SweepSparesLive ==
  [][\A w \in Sweeps :
       pc[w] = "s_error" /\ pc'[w] = "process" /\ LiveJob(tok[w])
         => w \in restarted \cup blind]_vars

\* _recover_orphaned_sessions_loop: a session that is running without a job and
\* was never given a session id gets a job again or is taken out of the running
\* state, as long as a pass of the sweep is to come.
Zombie(t) == sess[t].status = "running" /\ ~sess[t].sid /\ ~Unfinished(t)

SweepLeft ==
  \E w \in Sweeps :
    pc[w] \in Sweeping \/ (pc[w] = "new" /\ Spent < MaxEvents)

ZombieRecovered ==
  \A t \in Tokens : (Zombie(t) /\ SweepLeft) ~> (~Zombie(t) \/ ~SweepLeft)

=============================================================================
