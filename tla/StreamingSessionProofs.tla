----------------------- MODULE StreamingSessionProofs -----------------------
(***************************************************************************)
(* Proofs about StreamingSession for every finite set of requests, sweeps  *)
(* and browser messages, and every number of faults.                       *)
(*                                                                         *)
(* TypeInv adds to the types what a step relies on when it writes to a     *)
(* session: a caller that works on a session has the token of one that     *)
(* exists, a session that exists has its query, a job that reads the inbox *)
(* has a session.  On top of it stand four invariants, one per property:   *)
(*   CreatorInv   who creates holds the dedup key, or lost it;             *)
(*   ResumeInv    who resumes holds the resume lock, or it lapsed;         *)
(*   AccountInv   a prompt handed on is in an inbox, in a job or in the    *)
(*                history, and a job gives up only prompts that ran;       *)
(*   SpareInv     a session that a sweep is about to mark has no open job  *)
(*                and nobody about to create one.                          *)
(* Each is shown to survive the steps one actor at a time: the coordinator,*)
(* the sweep, the browser's message, the job, and time.                    *)
(***************************************************************************)
EXTENDS StreamingSession, FiniteSetTheorems, TLAPS

\* Token t has a session hash.
Exists(t) == sess[t].status # "none"

\* The callers whose job exists, or existed.
HasJob == {"setjob", "created", "killed", "r_setjob", "r_push", "release", "left"}

\* Where a caller has a token.
WithToken == {"lockinfo", "orphan", "getjob", "jobstatus", "seterror", "setrun",
              "create", "setjob", "d_push", "inject", "signal", "push",
              "s_getjob", "s_jobstatus", "s_lock", "s_error", "acquire",
              "release"} \cup Resuming

SessType ==
  /\ lookup \in Tokens \cup {None}
  /\ sess \in [Tokens -> [status : {"none", "running", "completed", "error"},
                          sid : BOOLEAN, old : BOOLEAN,
                          query : Prompts \cup {None}]]

CallerType ==
  /\ pc \in [Callers -> PCs]
  /\ tok \in [Callers -> Tokens \cup {None}]
  /\ jid \in [Callers -> Callers \cup {None}]
  /\ text \in [Callers -> Prompts \cup {None}]

JobType ==
  job \in [Callers -> [pc : JobPCs, stat : {"none", "pending", "processing",
                                            "ended"},
                       tok : Tokens \cup {None}, prompts : SUBSET Prompts,
                       bridge : BOOLEAN]]

KeyType ==
  /\ dedup \in Callers \cup {None}
  /\ jobKey \in [Tokens -> Callers \cup {None}]
  /\ inbox \in [Tokens -> SUBSET Prompts]
  /\ resumeLock \in [Tokens -> Resumes \cup {None}]
  /\ wlock \in Callers \cup {None} /\ sweepLock \in BOOLEAN

HistoryType ==
  /\ ran \subseteq Prompts /\ shown \subseteq Prompts /\ refused \subseteq Prompts
  /\ dropped \subseteq Prompts
  /\ keyless \subseteq Callers /\ lapsed \subseteq Resumes
  /\ restarted \subseteq Sweeps /\ blind \subseteq Sweeps
  /\ faults \in 0..MaxEvents

\* A session that exists has the query it was created with, and the lookup key
\* names one that exists.
SessionInv ==
  /\ \A t \in Tokens : Exists(t) => sess[t].query \in Prompts
  /\ lookup # None => Exists(lookup)

\* A caller that works on a session has its token, and a query of its own.
CallerInv ==
  \A c \in Callers :
    /\ pc[c] \in WithToken => tok[c] # None
    /\ tok[c] # None /\ pc[c] \notin {"create", "killed"} => Exists(tok[c])
    /\ c \in Prompts => text[c] = c
    /\ pc[c] \notin {"new", "scan"} => text[c] \in Prompts

JobInv ==
  \A j \in Callers :
    /\ job[j].tok # None => Exists(job[j].tok)
    /\ job[j].bridge => job[j].tok # None
    /\ job[j].pc \in {"pop", "rerun"} => job[j].bridge
    /\ pc[j] \notin HasJob => job[j].pc = "none" /\ job[j].prompts = {}

TypeInv ==
  /\ SessType /\ CallerType /\ JobType /\ KeyType /\ HistoryType
  /\ SessionInv /\ CallerInv /\ JobInv

\* No session hash goes away.
Grown == \A t \in Tokens : Exists(t) => Exists(t)'

-----------------------------------------------------------------------------

\* The parts of the type invariant are the type invariant.
LEMMA TypeParts ==
  TypeOK <=> SessType /\ CallerType /\ JobType /\ KeyType /\ HistoryType
BY DEF TypeOK, SessType, CallerType, JobType, KeyType, HistoryType

\* The bound on events covers the faults.
LEMMA FaultCounted ==
  ASSUME HistoryType, Fault PROVE faults' \in 0..MaxEvents
<1>1. IsFiniteSet({c \in Callers : pc[c] # "new"})
  BY StreamingAssumption, FS_Subset DEF Callers
<1>2. Cardinality({c \in Callers : pc[c] # "new"}) \in Nat
  BY <1>1, FS_CardinalityType
<1> QED
  BY <1>2, StreamingAssumption DEF Fault, Spent, HistoryType

\* A write to the hash of an existing session that keeps its query.
LEMMA SessWritten ==
  ASSUME SessType, SessionInv, NEW t \in Tokens, Exists(t), lookup' = lookup,
         NEW v \in [status : {"running", "completed", "error"}, sid : BOOLEAN,
                    old : BOOLEAN, query : {sess[t].query}],
         sess' = [sess EXCEPT ![t] = v]
  PROVE  SessType' /\ SessionInv' /\ Grown
<1>1. SessType'
  BY DEF SessType
<1>2. \A u \in Tokens : sess'[u] = IF u = t THEN v ELSE sess[u]
  BY DEF SessType
<1>3. \A u \in Tokens : (Exists(u)' <=> Exists(u)) /\ sess'[u].query = sess[u].query
  BY <1>2 DEF Exists
<1> QED
  BY <1>1, <1>3 DEF SessType, SessionInv, Grown

\* Every step keeps the hashes of the sessions, and the lookup key on one.
LEMMA SessStep ==
  TypeInv /\ [Next]_vars => SessType' /\ SessionInv' /\ Grown
<1> SUFFICES ASSUME TypeInv, [Next]_vars PROVE SessType' /\ SessionInv' /\ Grown
  OBVIOUS
<1> DEFINE Kept == SessType' /\ SessionInv' /\ Grown
<1>0. UNCHANGED <<sess, lookup>> => Kept
  BY DEF TypeInv, SessType, SessionInv, Grown, Exists
<1>1. ASSUME NEW t \in Tokens, Exists(t), SetRunning(t) \/ SetCompleted(t, "error"),
             lookup' = lookup
      PROVE  Kept
  <2>1. sess[t] \in [status : {"none", "running", "completed", "error"},
                     sid : BOOLEAN, old : BOOLEAN, query : Prompts \cup {None}]
    BY DEF TypeInv, SessType
  <2>2. CASE SetRunning(t)
    BY <1>1, <2>1, <2>2, SessWritten DEF SetRunning, Running, TypeInv
  <2>3. CASE SetCompleted(t, "error")
    BY <1>1, <2>1, <2>3, SessWritten DEF SetCompleted, TypeInv
  <2> QED
    BY <1>1, <2>2, <2>3
<1>2. ASSUME NEW c \in Tokens, SetRun(c) PROVE Kept
  <2>1. tok[c] \in Tokens /\ Exists(tok[c]) /\ SetRunning(tok[c]) /\ lookup' = lookup
    BY <1>2 DEF SetRun, Goto, TypeInv, CallerType, CallerInv, WithToken, Tokens, Callers
  <2> QED
    BY <1>1, <2>1
<1>3. ASSUME NEW r \in Resumes, ResumeSetRun(r) PROVE Kept
  <2>1. tok[r] \in Tokens /\ Exists(tok[r]) /\ SetRunning(tok[r]) /\ lookup' = lookup
    BY <1>3
    DEF ResumeSetRun, Goto, TypeInv, CallerType, CallerInv, WithToken, Resuming, Callers
  <2> QED
    BY <1>1, <2>1
<1>4. ASSUME NEW c \in Tokens, OrphanError(c) \/ SweepError(c) PROVE Kept
  <2>1. /\ tok[c] \in Tokens /\ Exists(tok[c]) /\ SetCompleted(tok[c], "error")
        /\ lookup' = lookup
    BY <1>4
    DEF OrphanError, SweepError, MarkError, Goto, TypeInv, CallerType, CallerInv,
        WithToken, Tokens, Callers
  <2> QED
    BY <1>1, <2>1
<1>5. ASSUME NEW c \in Tokens, Create(c) PROVE Kept
  <2>1. /\ tok[c] \in Tokens /\ text[c] \in Prompts /\ lookup' = tok[c]
        /\ sess' = [sess EXCEPT ![tok[c]] = Running(text[c])]
    BY <1>5
    DEF Create, CreateSession, Goto, TypeInv, CallerType, CallerInv, WithToken,
        Tokens, Callers
  <2>2. PICK t \in Tokens, q \in Prompts : t = tok[c] /\ q = text[c]
    BY <2>1
  <2>3. \A u \in Tokens : sess'[u] = IF u = t THEN Running(q) ELSE sess[u]
    BY <2>1, <2>2 DEF TypeInv, SessType
  <2>4. SessType'
    BY <2>1, <2>2 DEF TypeInv, SessType, Running
  <2>5. \A u \in Tokens : Exists(u)' <=> Exists(u) \/ u = t
    BY <2>3 DEF Exists, Running
  <2>6. \A u \in Tokens : sess'[u].query = IF u = t THEN q ELSE sess[u].query
    BY <2>3 DEF Running
  <2> QED
    BY <2>1, <2>2, <2>4, <2>5, <2>6 DEF TypeInv, SessionInv, Grown
<1>6. ASSUME NEW j \in Callers, Rerun(j) \/ Fail(j) PROVE Kept
  <2>0. job[j].tok \in Tokens \cup {None}
    BY DEF TypeInv, JobType
  <2>1. CASE job[j].tok # None
    <3>1. job[j].tok \in Tokens /\ Exists(job[j].tok)
      BY <2>0, <2>1 DEF TypeInv, JobInv
    <3>2. lookup' = lookup /\ (SetRunning(job[j].tok) \/ SetCompleted(job[j].tok, "error"))
      BY <1>6, <2>1 DEF Rerun, Fail
    <3> QED
      BY <1>1, <3>1, <3>2
  <2>2. CASE job[j].tok = None
    <3>1. job[j].pc # "rerun"
      BY <2>2 DEF TypeInv, JobInv
    <3> QED
      BY <1>0, <1>6, <2>2, <3>1 DEF Rerun, Fail, JobGoto
  <2> QED
    BY <2>1, <2>2
<1>7. ASSUME NEW j \in Callers, Finish(j) PROVE Kept
  <2>1. lookup' = lookup
    BY <1>7 DEF Finish
  <2>2. PICK t \in Tokens \cup {None} : t = job[j].tok
    BY DEF TypeInv, JobType
  <2>3. CASE t = None
    BY <1>0, <1>7, <2>1, <2>2, <2>3 DEF Finish
  <2>4. CASE t # None
    <3>1. t \in Tokens /\ Exists(t)
      BY <2>2, <2>4 DEF TypeInv, JobInv
    <3>2. sess[t] \in [status : {"none", "running", "completed", "error"},
                       sid : BOOLEAN, old : BOOLEAN, query : Prompts \cup {None}]
      BY <3>1 DEF TypeInv, SessType
    <3>3. \/ sess' = [sess EXCEPT ![t].sid = TRUE]
          \/ sess' = [sess EXCEPT ![t].status = "completed", ![t].sid = TRUE]
      BY <1>7, <2>2, <2>4 DEF Finish, UpdateSessionId
    <3>4. PICK v : /\ v = [sess[t] EXCEPT !.sid = TRUE]
                      \/ v = [sess[t] EXCEPT !.status = "completed", !.sid = TRUE]
                   /\ sess' = [sess EXCEPT ![t] = v]
      BY <3>1, <3>3 DEF TypeInv, SessType
    <3>5. v \in [status : {"running", "completed", "error"}, sid : BOOLEAN,
                 old : BOOLEAN, query : {sess[t].query}]
      BY <3>1, <3>2, <3>4 DEF Exists
    <3> QED
      BY <2>1, <3>1, <3>4, <3>5, SessWritten DEF TypeInv
  <2> QED
    BY <2>3, <2>4
<1>8. ASSUME NEW t \in Tokens, Age(t) PROVE Kept
  <2>1. sess[t] \in [status : {"none", "running", "completed", "error"},
                     sid : BOOLEAN, old : BOOLEAN, query : Prompts \cup {None}]
    BY DEF TypeInv, SessType
  <2>2. /\ Exists(t) /\ lookup' = lookup
        /\ sess' = [sess EXCEPT ![t] = [sess[t] EXCEPT !.old = TRUE]]
    BY <1>8, <2>1 DEF Age, Exists
  <2>3. [sess[t] EXCEPT !.old = TRUE] \in
          [status : {"running", "completed", "error"}, sid : BOOLEAN,
           old : BOOLEAN, query : {sess[t].query}]
    BY <2>1, <2>2 DEF Exists
  <2> QED
    BY <2>2, <2>3, SessWritten DEF TypeInv
<1> HIDE DEF Kept
<1>9. ASSUME NEW c \in Tokens, Execute(c) \/ CoordinatorFails(c) PROVE Kept
  <2>1. CASE SetRun(c) \/ Create(c) \/ OrphanError(c)
    BY <1>2, <1>4, <1>5, <2>1
  <2>2. CASE ~(SetRun(c) \/ Create(c) \/ OrphanError(c))
    <3>1. UNCHANGED <<sess, lookup>>
      BY <1>9, <2>2
      DEF Execute, CoordinatorFails, Prepare, Setnx, DedupActive, DedupFind,
          DedupPush, DedupDelete, Active, LockInfo, Orphan, OrphanGetJob, GetJob,
          OrphanStatus, QueuePush, Inject, Signal, Find, CreateJob, SetJob, Reads,
          store
    <3> QED
      BY <1>0, <3>1
  <2> QED
    BY <2>1, <2>2
<1>10. ASSUME NEW w \in Sweeps, Sweep(w) \/ SweepFails(w) PROVE Kept
  <2>1. CASE SweepError(w)
    BY <1>4, <2>1 DEF Tokens
  <2>2. CASE ~SweepError(w)
    <3>1. UNCHANGED <<sess, lookup>>
      BY <1>10, <2>2
      DEF Sweep, SweepFails, SweepStart, Scan, SweepGetJob, SweepStatus,
          SweepLockInfo, Reads, store
    <3> QED
      BY <1>0, <3>1
  <2> QED
    BY <2>1, <2>2
<1>11. ASSUME NEW r \in Resumes, BrowserSends(r) \/ Resume(r) \/ ResumeFails(r)
       PROVE  Kept
  <2>1. CASE ResumeSetRun(r)
    BY <1>3, <2>1
  <2>2. CASE ~ResumeSetRun(r)
    <3>1. UNCHANGED <<sess, lookup>>
      BY <1>11, <2>2
      DEF BrowserSends, Resume, ResumeFails, AcquireResume, CheckResumable,
          ResumePop, ResumeData, ResumeSetJob, ResumePush, ReleaseResume, store
    <3> QED
      BY <1>0, <3>1
  <2> QED
    BY <2>1, <2>2
<1>12. ASSUME NEW j \in Callers,
              \/ Process(j) \/ SetupFails(j) \/ TurnFails(j) \/ KillWorker(j)
              \/ Reclaim(j) \/ LoseJob(j) \/ StatusExpires(j)
       PROVE  Kept
  <2>1. CASE Rerun(j) \/ Fail(j) \/ Finish(j)
    BY <1>6, <1>7, <2>1
  <2>2. CASE ~(Rerun(j) \/ Fail(j) \/ Finish(j))
    <3>1. UNCHANGED <<sess, lookup>>
      BY <1>12, <2>2
      DEF Process, SetupFails, TurnFails, KillWorker, Reclaim, LoseJob,
          StatusExpires, TakeJob, JobLock, JobBusy, JobWaited, EnterLoop, TurnEnds,
          Pop, Complete, Undedup, Unlock, store
    <3> QED
      BY <1>0, <3>1
  <2> QED
    BY <2>1, <2>2
<1>13. ASSUME \/ \E t \in Tokens : ResumeLockExpires(t)
              \/ DedupExpires \/ SweepLockExpires \/ WorktreeLockExpires
              \/ UNCHANGED vars
       PROVE  Kept
  <2>1. UNCHANGED <<sess, lookup>>
    BY <1>13
    DEF ResumeLockExpires, DedupExpires, SweepLockExpires, WorktreeLockExpires,
        vars, store
  <2> QED
    BY <1>0, <2>1
<1>14. Kept
  BY <1>8, <1>9, <1>10, <1>11, <1>12, <1>13 DEF Next, Tokens
<1> QED
  BY <1>14 DEF Kept

\* One caller goes on: what it needs of its new place, and nobody else moves.
LEMMA CallerMoves ==
  ASSUME CallerType, CallerInv, Grown, NEW c \in Callers, NEW p \in PCs,
         NEW t \in Tokens \cup {None}, NEW q \in Prompts \cup {None},
         pc' = [pc EXCEPT ![c] = p], tok' = [tok EXCEPT ![c] = t],
         text' = [text EXCEPT ![c] = q],
         jid' \in [Callers -> Callers \cup {None}],
         p \in WithToken => t # None,
         t # None /\ p \notin {"create", "killed"} => Exists(t)',
         c \in Prompts => q = c,
         p \notin {"new", "scan"} => q \in Prompts
  PROVE  CallerType' /\ CallerInv'
<1>1. CallerType'
  BY DEF CallerType
<1>2. \A d \in Callers : /\ pc'[d] = IF d = c THEN p ELSE pc[d]
                         /\ tok'[d] = IF d = c THEN t ELSE tok[d]
                         /\ text'[d] = IF d = c THEN q ELSE text[d]
  BY DEF CallerType
<1> SUFFICES ASSUME NEW d \in Callers
             PROVE  /\ pc'[d] \in WithToken => tok'[d] # None
                    /\ tok'[d] # None /\ pc'[d] \notin {"create", "killed"} =>
                         sess'[tok'[d]].status # "none"
                    /\ d \in Prompts => text'[d] = d
                    /\ pc'[d] \notin {"new", "scan"} => text'[d] \in Prompts
  BY <1>1 DEF CallerInv, Exists
<1>3. CASE d = c
  BY <1>2, <1>3 DEF Exists
<1>4. CASE d # c
  <2>1. tok[d] \in Tokens \cup {None}
    BY DEF CallerType
  <2> QED
    BY <1>2, <1>4, <2>1 DEF CallerInv, Grown, Exists
<1> QED
  BY <1>3, <1>4

\* A caller with its own query goes on with the token it has.
LEMMA CallerGoes ==
  ASSUME CallerType, CallerInv, Grown, NEW c \in Callers, NEW p \in PCs,
         pc' = [pc EXCEPT ![c] = p], UNCHANGED locals,
         p \notin {"new", "scan"} => text[c] \in Prompts,
         p \in WithToken => tok[c] # None,
         pc[c] = "create" /\ tok[c] # None => p = "killed" \/ Exists(tok[c])',
         pc[c] # "killed"
  PROVE  CallerType' /\ CallerInv'
<1>1. /\ tok[c] \in Tokens \cup {None} /\ text[c] \in Prompts \cup {None}
      /\ tok' = [tok EXCEPT ![c] = tok[c]] /\ text' = [text EXCEPT ![c] = text[c]]
      /\ jid' \in [Callers -> Callers \cup {None}]
  BY DEF CallerType, locals
<1>2. tok[c] # None /\ p \notin {"create", "killed"} => sess'[tok[c]].status # "none"
  BY <1>1 DEF CallerInv, Grown, Exists
<1>3. c \in Prompts => text[c] = c
  BY DEF CallerInv
<1>4. PICK t \in Tokens \cup {None}, q \in Prompts \cup {None} : t = tok[c] /\ q = text[c]
  BY <1>1
<1> QED
  BY <1>1, <1>2, <1>3, <1>4, CallerMoves DEF Exists

\* Every step leaves each caller with the token and the query its place needs.
LEMMA CallerStep ==
  TypeInv /\ [Next]_vars => CallerType' /\ CallerInv'
<1> SUFFICES ASSUME TypeInv, [Next]_vars PROVE CallerType' /\ CallerInv'
  OBVIOUS
<1> DEFINE Kept == CallerType' /\ CallerInv'
<1>0. /\ CallerType /\ CallerInv /\ Grown /\ SessionInv /\ lookup \in Tokens \cup {None}
      /\ \A t \in Tokens : jobKey[t] \in Callers \cup {None}
      /\ \A t \in Tokens : Stale(t) => sess[t].query \in Prompts /\ Exists(t)
      /\ Callers = Tokens \cup Resumes /\ Sweeps \subseteq Tokens
      /\ Prompts \cap Sweeps = {}
  BY SessStep, StreamingAssumption
  DEF TypeInv, SessType, KeyType, SessionInv, Stale, Exists, Callers, Tokens, Prompts
<1>1. UNCHANGED <<pc, locals>> => Kept
  BY <1>0 DEF CallerType, CallerInv, Grown, Exists, locals
<1>2. ASSUME NEW c \in Tokens,
             \/ Prepare(c) \/ Setnx(c) \/ DedupPush(c) \/ DedupDelete(c)
             \/ LockInfo(c) \/ Orphan(c) \/ OrphanStatus(c) \/ OrphanError(c)
             \/ QueuePush(c) \/ Inject(c) \/ Signal(c) \/ SetRun(c) \/ CreateJob(c)
             \/ SetJob(c) \/ SweepError(c)
      PROVE  Kept
  <2>1. UNCHANGED locals /\ pc[c] \notin {"scan", "create", "killed"}
    BY <1>2
    DEF Prepare, Setnx, DedupPush, DedupDelete, LockInfo, Orphan, OrphanStatus,
        OrphanError, QueuePush, Inject, Signal, SetRun, CreateJob, SetJob,
        SweepError, MarkError, Goto
  <2>2. text[c] \in Prompts
    BY <1>0, <1>2
    DEF Prepare, Setnx, DedupPush, DedupDelete, LockInfo, Orphan, OrphanStatus,
        OrphanError, QueuePush, Inject, Signal, SetRun, CreateJob, SetJob,
        SweepError, MarkError, Goto, CallerInv, Prompts
  <2>3. PICK p \in PCs : /\ pc' = [pc EXCEPT ![c] = p]
                         /\ p \in WithToken => tok[c] # None
    BY <1>0, <1>2
    DEF Prepare, Setnx, DedupPush, DedupDelete, LockInfo, Orphan, OrphanStatus,
        OrphanError, QueuePush, Inject, Signal, SetRun, CreateJob, SetJob,
        SweepError, MarkError, Goto, CallerInv, WithToken, Resuming, PCs,
        Creating, Follow, Sweeping, Ended
  <2> QED
    BY <1>0, <2>1, <2>2, <2>3, CallerGoes
<1>3. ASSUME NEW c \in Tokens, Create(c) PROVE Kept
  <2>1. /\ pc[c] = "create" /\ pc' = [pc EXCEPT ![c] = "createjob"]
        /\ UNCHANGED locals /\ tok[c] \in Tokens
        /\ sess' = [sess EXCEPT ![tok[c]] = Running(text[c])]
    BY <1>0, <1>3
    DEF Create, CreateSession, Goto, CallerInv, CallerType, WithToken
  <2>2. sess'[tok[c]].status # "none"
    BY <2>1 DEF TypeInv, SessType, Running
  <2>3. Exists(tok[c])'
    BY <2>1, <2>2 DEF Exists, locals
  <2>4. text[c] \in Prompts
    BY <1>0, <2>1 DEF CallerInv
  <2> QED
    BY <1>0, <2>1, <2>3, <2>4, CallerGoes
    DEF WithToken, PCs, Creating, Resuming
<1>4. ASSUME NEW c \in Tokens, DedupActive(c) \/ DedupFind(c) \/ Active(c) \/ Find(c)
      PROVE  Kept
  <2>1. /\ UNCHANGED <<sess, text, jid>>
        /\ pc[c] \in {"d_active", "d_find", "active", "find"}
    BY <1>4
    DEF DedupActive, DedupFind, Active, Find, Reads, store, Goto
  <2>2. PICK p \in PCs, t \in Tokens \cup {None} :
          /\ pc' = [pc EXCEPT ![c] = p] /\ tok' = [tok EXCEPT ![c] = t]
          /\ p \in WithToken => t # None
          /\ t # None /\ p \notin {"create", "killed"} => t = lookup
          /\ p \notin {"new", "scan"}
    <3>1. FindActive \in {lookup, None} /\ FindSession = lookup
      BY DEF FindActive, FindSession
    <3>2. {"inject", "d_find", "d_push", "d_delete", "lockinfo", "find", "setrun",
           "create"} \subseteq PCs
      BY DEF PCs, Creating, Follow
    <3>3. {"find", "d_find", "d_delete"} \cap WithToken = {}
      BY DEF WithToken, Resuming
    <3>4. CASE DedupActive(c)
      BY <1>0, <3>1, <3>2, <3>3, <3>4 DEF DedupActive, Goto
    <3>5. CASE DedupFind(c)
      BY <1>0, <3>1, <3>2, <3>3, <3>5 DEF DedupFind, Goto
    <3>6. CASE Active(c)
      BY <1>0, <3>1, <3>2, <3>3, <3>6 DEF Active, Goto
    <3>7. CASE Find(c)
      BY <1>0, <3>1, <3>2, <3>7, StreamingAssumption DEF Find, Goto, Tokens
    <3> QED
      BY <1>4, <3>4, <3>5, <3>6, <3>7
  <2>3. t # None /\ p \notin {"create", "killed"} => Exists(t)'
    BY <1>0, <2>1, <2>2 DEF SessionInv, Exists
  <2>4. text[c] \in Prompts /\ (c \in Prompts => text[c] = c)
    BY <1>0, <2>1 DEF CallerInv
  <2>5. PICK q \in Prompts : q = text[c] /\ text' = [text EXCEPT ![c] = q]
    BY <1>0, <2>1, <2>4 DEF CallerType
  <2>6. jid' \in [Callers -> Callers \cup {None}]
    BY <1>0, <2>1 DEF CallerType
  <2> QED
    BY <1>0, <2>2, <2>3, <2>4, <2>5, <2>6, CallerMoves
<1>5. ASSUME NEW c \in Tokens, OrphanGetJob(c) \/ SweepGetJob(c) PROVE Kept
  <2>1. /\ pc[c] \in {"getjob", "s_getjob"} /\ UNCHANGED <<tok, text, sess>>
        /\ jid' = [jid EXCEPT ![c] = jobKey[tok[c]]]
    BY <1>5 DEF OrphanGetJob, SweepGetJob, GetJob, GetJobId, Reads, store, Goto
  <2>2. /\ tok[c] \in Tokens /\ Exists(tok[c]) /\ text[c] \in Prompts
        /\ c \in Prompts => text[c] = c
    BY <1>0, <2>1 DEF CallerInv, CallerType, WithToken
  <2>3. jid' \in [Callers -> Callers \cup {None}]
    BY <1>0, <2>1, <2>2 DEF CallerType
  <2>4. PICK p \in PCs : pc' = [pc EXCEPT ![c] = p] /\ p \notin {"new", "scan"}
    BY <1>5
    DEF OrphanGetJob, SweepGetJob, GetJob, Goto, PCs, Creating, Sweeping
  <2>5. PICK t \in Tokens, q \in Prompts :
          /\ t = tok[c] /\ tok' = [tok EXCEPT ![c] = t]
          /\ q = text[c] /\ text' = [text EXCEPT ![c] = q]
    BY <1>0, <2>1, <2>2 DEF CallerType
  <2>6. t # None /\ Exists(t)'
    BY <2>1, <2>2, <2>5, StreamingAssumption DEF Exists, Tokens
  <2> QED
    BY <1>0, <2>2, <2>3, <2>4, <2>5, <2>6, CallerMoves
<1>6. ASSUME NEW c \in Tokens, CoordinatorFails(c) PROVE Kept
  <2>1. pc[c] \in {"setnx"} \cup Follow \cup Creating /\ UNCHANGED <<jid, text, sess>>
    BY <1>6 DEF CoordinatorFails, store, Creating
  <2>2. text[c] \in Prompts /\ (c \in Prompts => text[c] = c)
    BY <1>0, <2>1 DEF CallerInv, Follow, Creating
  <2>3. PICK p \in PCs, t \in Tokens \cup {None} :
          /\ pc' = [pc EXCEPT ![c] = p] /\ tok' = [tok EXCEPT ![c] = t]
          /\ p \in {"killed", "createjob", "raised"}
          /\ \/ t = None \/ p = "killed"
             \/ t = tok[c] /\ pc[c] = "createjob" /\ p = "raised"
    BY <1>0, <1>6
    DEF CoordinatorFails, CallerType, PCs, Creating, Ended
  <2>4. t # None /\ p \notin {"create", "killed"} => Exists(t)'
    BY <1>0, <2>1, <2>3 DEF CallerInv, Exists
  <2>5. PICK q \in Prompts : q = text[c] /\ text' = [text EXCEPT ![c] = q]
    BY <1>0, <2>1, <2>2 DEF CallerType
  <2>6. jid' \in [Callers -> Callers \cup {None}] /\ p \notin WithToken
    BY <1>0, <2>1, <2>3 DEF CallerType, WithToken, Resuming
  <2> QED
    BY <1>0, <2>2, <2>3, <2>4, <2>5, <2>6, CallerMoves
<1>7. ASSUME NEW w \in Sweeps, NEW from \in Sweeping, PassOver(w, from) PROVE Kept
  BY <1>0, <1>7, CallerMoves
  DEF PassOver, Goto, WithToken, Resuming, PCs, CallerType
<1>8. ASSUME NEW w \in Sweeps, Sweep(w) \/ SweepFails(w) PROVE Kept
  <2>1. CASE SweepStart(w)
    <3>1. /\ pc[w] = "new" /\ pc' = [pc EXCEPT ![w] = "scan"] /\ UNCHANGED locals
      BY <2>1 DEF SweepStart, Goto
    <3> QED
      BY <1>0, <3>1, CallerGoes DEF WithToken, Resuming, PCs, Sweeping
  <2>2. CASE Scan(w)
    <3>1. CASE \A t \in Tokens : ~Stale(t)
      <4>1. pc[w] = "scan" /\ pc' = [pc EXCEPT ![w] = "new"] /\ UNCHANGED locals
        BY <2>2, <3>1 DEF Scan, Goto, locals
      <4> QED
        BY <1>0, <4>1, CallerGoes DEF WithToken, Resuming, PCs
    <3>2. CASE \E t \in Tokens : Stale(t)
      <4>1. PICK t \in Tokens :
              /\ Stale(t) /\ pc' = [pc EXCEPT ![w] = "s_getjob"]
              /\ tok' = [tok EXCEPT ![w] = t]
              /\ text' = [text EXCEPT ![w] = sess[t].query]
        BY <2>2, <3>2 DEF Scan, Goto
      <4>2. UNCHANGED <<jid, sess>>
        BY <2>2 DEF Scan, Reads, store
      <4>3. PICK q \in Prompts : q = sess[t].query /\ Exists(t)'
        BY <1>0, <4>1, <4>2 DEF Exists
      <4>4. /\ "s_getjob" \in PCs /\ t # None /\ w \notin Prompts
            /\ jid' \in [Callers -> Callers \cup {None}]
        BY <1>0, <4>2, StreamingAssumption DEF CallerType, PCs, Sweeping, Tokens
      <4> QED
        BY <1>0, <4>1, <4>3, <4>4, CallerMoves
    <3> QED
      BY <3>1, <3>2
  <2>3. CASE SweepStatus(w) \/ SweepLockInfo(w)
    <3>1. CASE \E from \in Sweeping : PassOver(w, from)
      BY <1>7, <3>1
    <3>2. CASE ~\E from \in Sweeping : PassOver(w, from)
      <4>1. /\ pc[w] \in {"s_jobstatus", "s_lock"} /\ UNCHANGED locals
            /\ \/ pc' = [pc EXCEPT ![w] = "s_lock"]
               \/ pc' = [pc EXCEPT ![w] = "s_error"]
        BY <2>3, <3>2 DEF SweepStatus, SweepLockInfo, Goto, Sweeping
      <4>2. text[w] \in Prompts /\ tok[w] # None
        BY <1>0, <4>1 DEF CallerInv, WithToken
      <4> QED
        BY <1>0, <4>1, <4>2, CallerGoes DEF PCs, Sweeping
    <3> QED
      BY <3>1, <3>2
  <2>4. CASE SweepFails(w)
    BY <1>7, <2>4 DEF SweepFails
  <2> QED
    BY <1>0, <1>2, <1>5, <1>8, <2>1, <2>2, <2>3, <2>4 DEF Sweep
<1>9. ASSUME NEW r \in Resumes, BrowserSends(r) PROVE Kept
  <2>1. PICK t \in Tokens : /\ Exists(t) /\ tok' = [tok EXCEPT ![r] = t]
                            /\ \/ pc' = [pc EXCEPT ![r] = "acquire"]
                               \/ pc' = [pc EXCEPT ![r] = "forwarded"]
    BY <1>9 DEF BrowserSends, Exists, Goto
  <2>2. UNCHANGED <<jid, text, sess>>
    BY <1>9 DEF BrowserSends
  <2>3. Exists(t)' /\ t # None
    BY <2>1, <2>2, StreamingAssumption DEF Exists, Tokens
  <2>4. r \in Prompts /\ text' = [text EXCEPT ![r] = r]
    BY <1>0, <2>2 DEF CallerInv, CallerType, Prompts
  <2>5. /\ jid' \in [Callers -> Callers \cup {None}]
        /\ {"acquire", "forwarded"} \subseteq PCs
    BY <1>0, <2>2 DEF CallerType, PCs, Ended
  <2> QED
    BY <1>0, <2>1, <2>3, <2>4, <2>5, CallerMoves
<1>10. ASSUME NEW r \in Resumes, Resume(r) \/ ResumeFails(r) PROVE Kept
  <2>1. UNCHANGED locals /\ pc[r] \in {"acquire", "release"} \cup Resuming
    BY <1>10
    DEF Resume, ResumeFails, AcquireResume, CheckResumable, ResumeSetRun,
        ResumePop, ResumeData, ResumeSetJob, ResumePush, ReleaseResume, Goto,
        Resuming
  <2>2. text[r] \in Prompts /\ tok[r] # None
    BY <1>0, <2>1 DEF CallerInv, WithToken, Resuming
  <2>3. PICK p \in PCs : pc' = [pc EXCEPT ![r] = p]
    BY <1>10
    DEF Resume, ResumeFails, AcquireResume, CheckResumable, ResumeSetRun,
        ResumePop, ResumeData, ResumeSetJob, ResumePush, ReleaseResume, Goto,
        Resuming, PCs, Ended
  <2>4. pc[r] \notin {"create", "killed"}
    BY <2>1 DEF Resuming
  <2> QED
    BY <1>0, <2>1, <2>2, <2>3, <2>4, CallerGoes
<1>11. ASSUME \/ \E j \in Callers :
                   \/ Process(j) \/ SetupFails(j) \/ TurnFails(j) \/ KillWorker(j)
                   \/ Reclaim(j) \/ LoseJob(j) \/ StatusExpires(j)
              \/ \E t \in Tokens : Age(t) \/ ResumeLockExpires(t)
              \/ DedupExpires \/ SweepLockExpires \/ WorktreeLockExpires
              \/ UNCHANGED vars
       PROVE  Kept
  <2>1. UNCHANGED <<pc, locals>>
    BY <1>11
    DEF Process, SetupFails, TurnFails, KillWorker, Reclaim, LoseJob,
        StatusExpires, TakeJob, JobLock, JobBusy, JobWaited, EnterLoop, TurnEnds,
        Pop, Rerun, Finish, Fail, Complete, Undedup, Unlock, Age,
        ResumeLockExpires, DedupExpires, SweepLockExpires, WorktreeLockExpires, vars
  <2> QED
    BY <1>1, <2>1
<1> HIDE DEF Kept
<1>12. ASSUME NEW c \in Tokens, Execute(c) PROVE Kept
  BY <1>2, <1>3, <1>4, <1>5, <1>12 DEF Execute
<1>13. Kept
  BY <1>6, <1>8, <1>9, <1>10, <1>11, <1>12 DEF Next, Tokens
<1> QED
  BY <1>13 DEF Kept

\* The fields of a job.
JobRecords == [pc : JobPCs, stat : {"none", "pending", "processing", "ended"},
               tok : Tokens \cup {None}, prompts : SUBSET Prompts, bridge : BOOLEAN]

\* No caller forgets that it has created its job.
LEMMA JobsRemembered ==
  ASSUME TypeInv, [Next]_vars, NEW c \in Callers, pc[c] \in HasJob
  PROVE  pc'[c] \in HasJob
<1> USE DEF TypeInv, CallerType, HasJob, Goto
<1>1. ASSUME NEW d \in Tokens, Execute(d) \/ CoordinatorFails(d) PROVE pc'[c] \in HasJob
  BY <1>1
  DEF Execute, CoordinatorFails, Prepare, Setnx, DedupActive, DedupFind,
      DedupPush, DedupDelete, Active, LockInfo, Orphan, OrphanGetJob, GetJob,
      OrphanStatus, OrphanError, QueuePush, Inject, Signal, Find, SetRun, Create,
      CreateJob, SetJob, Follow, Creating
<1>2. ASSUME NEW w \in Sweeps, Sweep(w) \/ SweepFails(w) PROVE pc'[c] \in HasJob
  BY <1>2
  DEF Sweep, SweepFails, SweepStart, Scan, SweepGetJob, SweepStatus,
      SweepLockInfo, SweepError, PassOver, Sweeping
<1>3. ASSUME NEW r \in Resumes, BrowserSends(r) \/ Resume(r) \/ ResumeFails(r)
      PROVE  pc'[c] \in HasJob
  BY <1>3
  DEF BrowserSends, Resume, ResumeFails, AcquireResume, CheckResumable,
      ResumeSetRun, ResumePop, ResumeData, ResumeSetJob, ResumePush, ReleaseResume
<1>4. ASSUME NEW j \in Callers,
             \/ Process(j) \/ SetupFails(j) \/ TurnFails(j) \/ KillWorker(j)
             \/ Reclaim(j) \/ LoseJob(j) \/ StatusExpires(j)
      PROVE  pc' = pc
  BY <1>4
  DEF Process, SetupFails, TurnFails, KillWorker, Reclaim, LoseJob,
      StatusExpires, TakeJob, JobLock, JobBusy, JobWaited, EnterLoop, TurnEnds,
      Pop, Rerun, Finish, Fail, Complete, Undedup, Unlock
<1>5. ASSUME \/ \E t \in Tokens : Age(t) \/ ResumeLockExpires(t)
             \/ DedupExpires \/ SweepLockExpires \/ WorktreeLockExpires
             \/ UNCHANGED vars
      PROVE  pc' = pc
  BY <1>5
  DEF Age, ResumeLockExpires, DedupExpires, SweepLockExpires,
      WorktreeLockExpires, vars
<1> QED
  BY <1>1, <1>2, <1>3, <1>4, <1>5 DEF Next, Tokens

\* One job is created or goes on.
LEMMA JobWritten ==
  ASSUME JobType, JobInv, Grown, NEW j \in Callers, NEW v \in JobRecords,
         job' = [job EXCEPT ![j] = v],
         v.tok # None => Exists(v.tok)', v.bridge => v.tok # None,
         v.pc \in {"pop", "rerun"} => v.bridge, pc'[j] \in HasJob,
         \A c \in Callers : pc[c] \in HasJob => pc'[c] \in HasJob
  PROVE  JobType' /\ JobInv'
<1>1. JobType'
  BY DEF JobType, JobRecords
<1>2. \A i \in Callers : job'[i] = IF i = j THEN v ELSE job[i]
  BY DEF JobType
<1> SUFFICES ASSUME NEW i \in Callers
             PROVE  /\ job'[i].tok # None => sess'[job'[i].tok].status # "none"
                    /\ job'[i].bridge => job'[i].tok # None
                    /\ job'[i].pc \in {"pop", "rerun"} => job'[i].bridge
                    /\ pc'[i] \notin HasJob =>
                         job'[i].pc = "none" /\ job'[i].prompts = {}
  BY <1>1 DEF JobInv, Exists
<1>3. CASE i = j
  BY <1>2, <1>3 DEF Exists
<1>4. CASE i # j
  <2>1. job[i].tok \in Tokens \cup {None}
    BY DEF JobType
  <2> QED
    BY <1>2, <1>4, <2>1 DEF JobInv, Grown, Exists
<1> QED
  BY <1>3, <1>4

\* A job that exists goes on with its session.
LEMMA JobGoes ==
  ASSUME TypeInv, Grown, NEW j \in Callers, NEW v \in JobRecords, pc' = pc,
         job' = [job EXCEPT ![j] = v], job[j].pc # "none",
         v.tok = job[j].tok, v.bridge => v.tok # None,
         v.pc \in {"pop", "rerun"} => v.bridge
  PROVE  JobType' /\ JobInv'
<1>1. JobType /\ JobInv /\ pc'[j] \in HasJob
  BY DEF TypeInv, JobInv
<1>2. v.tok # None => v.tok \in Tokens /\ Exists(v.tok)
  BY DEF TypeInv, JobInv, JobRecords
<1>3. v.tok # None => Exists(v.tok)'
  BY <1>2 DEF Grown
<1> QED
  BY <1>1, <1>3, JobWritten

\* Cancelling turns touches no session.
LEMMA JobsCancelled ==
  ASSUME TypeInv, NEW S, Grown, job' = Cancelled(S),
         \A c \in Callers : pc[c] \in HasJob => pc'[c] \in HasJob
  PROVE  JobType' /\ JobInv'
<1>1. \A i \in Callers :
        /\ job'[i] \in JobRecords /\ job'[i].tok = job[i].tok
        /\ job'[i].bridge = job[i].bridge /\ job'[i].prompts = job[i].prompts
        /\ job'[i].pc = job[i].pc \/ (job[i].pc = "turn" /\ job'[i].pc = "complete")
  <2> SUFFICES ASSUME NEW i \in Callers
               PROVE  /\ job'[i] \in JobRecords /\ job'[i].tok = job[i].tok
                      /\ job'[i].bridge = job[i].bridge
                      /\ job'[i].prompts = job[i].prompts
                      /\ \/ job'[i].pc = job[i].pc
                         \/ job[i].pc = "turn" /\ job'[i].pc = "complete"
    OBVIOUS
  <2>1. job[i] \in JobRecords
    BY DEF TypeInv, JobType, JobRecords
  <2>2. job'[i] = job[i] \/ (job[i].pc = "turn" /\ job'[i] = [job[i] EXCEPT !.pc = "complete"])
    BY DEF Cancelled
  <2> QED
    BY <2>1, <2>2 DEF JobRecords, JobPCs, Closing
<1>2. JobType'
  BY <1>1 DEF JobType, JobRecords, Cancelled
<1> SUFFICES ASSUME NEW i \in Callers
             PROVE  /\ job'[i].tok # None => sess'[job'[i].tok].status # "none"
                    /\ job'[i].bridge => job'[i].tok # None
                    /\ job'[i].pc \in {"pop", "rerun"} => job'[i].bridge
                    /\ pc'[i] \notin HasJob =>
                         job'[i].pc = "none" /\ job'[i].prompts = {}
  BY <1>2 DEF JobInv, Exists
<1>3. job[i].tok \in Tokens \cup {None}
  BY DEF TypeInv, JobType
<1> QED
  BY <1>1, <1>3 DEF TypeInv, JobInv, Grown, Exists

\* Every step keeps the jobs' fields, and their sessions.
LEMMA JobStep ==
  TypeInv /\ [Next]_vars => JobType' /\ JobInv'
<1> SUFFICES ASSUME TypeInv, [Next]_vars PROVE JobType' /\ JobInv'
  OBVIOUS
<1> DEFINE Kept == JobType' /\ JobInv'
<1>0. /\ Grown /\ JobType /\ JobInv /\ \A c \in Callers : job[c] \in JobRecords
      /\ \A c \in Callers : pc[c] \in HasJob => pc'[c] \in HasJob
  BY SessStep, JobsRemembered DEF TypeInv, JobType, JobRecords
<1>1. job' = job => Kept
  <2> SUFFICES ASSUME job' = job, NEW i \in Callers
               PROVE  /\ job[i].tok # None => sess'[job[i].tok].status # "none"
                      /\ pc'[i] \notin HasJob =>
                           job[i].pc = "none" /\ job[i].prompts = {}
    BY <1>0 DEF JobInv, Exists, JobType
  <2>1. job[i].tok \in Tokens \cup {None}
    BY <1>0 DEF JobType
  <2> QED
    BY <1>0, <2>1 DEF JobInv, Grown, Exists
<1>2. ASSUME NEW c \in Tokens, CreateJob(c) PROVE Kept
  <2>1. /\ pc[c] = "createjob" /\ pc'[c] \in HasJob /\ UNCHANGED <<sess, tok>>
        /\ job' = [job EXCEPT ![c] = [pc |-> "queued", stat |-> "pending",
                                      tok |-> tok[c], prompts |-> {text[c]},
                                      bridge |-> FALSE]]
    BY <1>2
    DEF CreateJob, NewJob, Goto, HasJob, store, locals, TypeInv, CallerType,
        Callers, Tokens
  <2>2. /\ c \in Callers /\ tok[c] \in Tokens \cup {None} /\ text[c] \in Prompts
        /\ tok[c] # None => Exists(tok[c])'
    BY <2>1 DEF TypeInv, CallerType, CallerInv, Callers, Tokens, Exists
  <2>3. PICK v \in JobRecords : /\ v.tok = tok[c] /\ v.bridge = FALSE /\ v.pc = "queued"
                                /\ job' = [job EXCEPT ![c] = v]
    BY <2>1, <2>2 DEF JobRecords, JobPCs, Working, Waiting
  <2>4. v.tok # None => Exists(v.tok)'
    BY <2>1, <2>2, <2>3 DEF Exists
  <2> QED
    BY <1>0, <2>1, <2>2, <2>3, <2>4, JobWritten
<1>3. ASSUME NEW r \in Resumes, ResumeData(r) PROVE Kept
  <2>1. /\ pc[r] = "r_data" /\ pc'[r] \in HasJob /\ UNCHANGED <<sess, tok>>
        /\ job' = [job EXCEPT ![r] = [pc |-> "none", stat |-> "pending",
                                      tok |-> tok[r], prompts |-> {text[r]},
                                      bridge |-> FALSE]]
    BY <1>3
    DEF ResumeData, NewJob, Goto, HasJob, store, locals, TypeInv, CallerType,
        Callers
  <2>2. /\ r \in Callers /\ tok[r] \in Tokens \cup {None} /\ text[r] \in Prompts
        /\ tok[r] # None => Exists(tok[r])'
    BY <2>1 DEF TypeInv, CallerType, CallerInv, Callers, Exists
  <2>3. PICK v \in JobRecords : /\ v.tok = tok[r] /\ v.bridge = FALSE /\ v.pc = "none"
                                /\ job' = [job EXCEPT ![r] = v]
    BY <2>1, <2>2 DEF JobRecords, JobPCs
  <2>4. v.tok # None => Exists(v.tok)'
    BY <2>1, <2>2, <2>3 DEF Exists
  <2> QED
    BY <1>0, <2>1, <2>2, <2>3, <2>4, JobWritten
<1>4. ASSUME NEW r \in Resumes, ResumePush(r) PROVE Kept
  <2>1. /\ r \in Callers /\ pc[r] \in HasJob /\ pc'[r] \in HasJob
        /\ job' = [job EXCEPT ![r].pc = "queued"] /\ UNCHANGED sess
    BY <1>0, <1>4 DEF ResumePush, Goto, HasJob, store, Callers
  <2>2. PICK v \in JobRecords :
          /\ v.tok = job[r].tok /\ v.bridge = job[r].bridge /\ v.pc = "queued"
          /\ job' = [job EXCEPT ![r] = v]
    BY <1>0, <2>1 DEF JobRecords, JobPCs, Working, Waiting, JobType
  <2>3. v.tok # None => Exists(v.tok)'
    BY <1>0, <2>1, <2>2 DEF Exists, JobInv
  <2>4. v.bridge => v.tok # None
    BY <1>0, <2>1, <2>2 DEF JobInv
  <2> QED
    BY <1>0, <2>1, <2>2, <2>3, <2>4, JobWritten
<1>5. ASSUME NEW c \in Tokens, Signal(c) PROVE Kept
  BY <1>0, <1>5, JobsCancelled DEF Signal
<1>6. ASSUME NEW j \in Callers, job[j].pc # "none", pc' = pc, NEW v \in JobRecords,
             job' = [job EXCEPT ![j] = v], v.tok = job[j].tok, v.bridge = job[j].bridge,
             v.pc \in {"pop", "rerun"} => v.bridge
      PROVE  Kept
  <2>1. v.bridge => v.tok # None
    BY <1>0, <1>6 DEF JobInv
  <2> QED
    BY <1>0, <1>6, <2>1, JobGoes
<1>7. {"setup", "wait", "fail", "pop", "rerun", "finish", "turn", "complete",
       "undedup", "unlock", "done", "dead", "queued", "lost"} \subseteq JobPCs
  BY DEF JobPCs, Working, Waiting, InLoop, Closing
<1>8. ASSUME NEW j \in Callers,
             \/ SetupFails(j) \/ TurnEnds(j) \/ TurnFails(j) \/ Rerun(j)
             \/ Finish(j) \/ Fail(j) \/ Undedup(j)
      PROVE  Kept
  <2>1. PICK p \in JobPCs : /\ job[j].pc # "none" /\ pc' = pc
                            /\ job' = [job EXCEPT ![j].pc = p]
                            /\ p \in {"pop", "rerun"} => job[j].bridge
    BY <1>7, <1>8
    DEF SetupFails, TurnEnds, TurnFails, Rerun, Finish, Fail, Undedup, JobGoto
  <2> DEFINE v == [job[j] EXCEPT !.pc = p]
  <2>2. v \in JobRecords /\ v.tok = job[j].tok /\ v.bridge = job[j].bridge /\ v.pc = p
    BY <1>0 DEF JobRecords
  <2>3. job' = [job EXCEPT ![j] = v]
    BY <2>1
  <2> HIDE DEF v
  <2> QED
    BY <1>6, <2>1, <2>2, <2>3
<1>9. ASSUME NEW j \in Callers, TakeJob(j) \/ Complete(j) \/ Reclaim(j) PROVE Kept
  <2>1. PICK p \in JobPCs, s \in {"pending", "processing", "ended"} :
          /\ job[j].pc # "none" /\ pc' = pc /\ p \notin {"pop", "rerun"}
          /\ job' = [job EXCEPT ![j].pc = p, ![j].stat = s]
    BY <1>7, <1>9 DEF TakeJob, Complete, Reclaim
  <2> DEFINE v == [job[j] EXCEPT !.pc = p, !.stat = s]
  <2>2. v \in JobRecords /\ v.tok = job[j].tok /\ v.bridge = job[j].bridge /\ v.pc = p
    <3>1. PICK u \in JobRecords : u = job[j]
      BY <1>0
    <3>2. LET w == [u EXCEPT !.pc = p, !.stat = s]
          IN  w \in JobRecords /\ w.tok = u.tok /\ w.bridge = u.bridge /\ w.pc = p
      BY <1>7 DEF JobRecords
    <3> QED
      BY <3>1, <3>2
  <2>3. job' = [job EXCEPT ![j] = v]
    BY <1>0, <2>1 DEF JobType
  <2> HIDE DEF v
  <2> QED
    BY <1>6, <2>1, <2>2, <2>3
<1>10. ASSUME NEW j \in Callers, Unlock(j) \/ Pop(j) \/ KillWorker(j) PROVE Kept
  <2>0. /\ text[j] \in Prompts \cup {None} /\ (job[j].pc # "none" => text[j] \in Prompts)
        /\ job[j].pc \in {"pop", "rerun"} => job[j].bridge /\ job[j].tok \in Tokens
        /\ \A t \in Tokens : inbox[t] \in SUBSET Prompts
    BY <1>0
    DEF TypeInv, CallerInv, CallerType, JobInv, HasJob, KeyType, JobType
  <2>1. PICK p \in JobPCs, q \in SUBSET Prompts :
          /\ job[j].pc # "none" /\ pc' = pc /\ (p \in {"pop", "rerun"} => job[j].bridge)
          /\ job' = [job EXCEPT ![j].pc = p, ![j].prompts = q]
    <3>1. CASE Unlock(j)
      BY <1>7, <3>1 DEF Unlock
    <3>2. CASE Pop(j)
      <4>1. /\ job[j].pc = "pop" /\ inbox[job[j].tok] \in SUBSET Prompts /\ job[j].bridge
            /\ pc' = pc
        BY <2>0, <3>2 DEF Pop
      <4>2. CASE inbox[job[j].tok] = {}
        <5>1. job' = [job EXCEPT ![j].pc = "finish"]
          BY <3>2, <4>2 DEF Pop
        <5>2. job[j].prompts \in SUBSET Prompts
          BY <1>0 DEF JobRecords
        <5>3. job' = [job EXCEPT ![j].pc = "finish", ![j].prompts = job[j].prompts]
          BY <1>0, <5>1 DEF JobType
        <5> QED
          BY <1>7, <4>1, <5>2, <5>3
      <4>3. CASE inbox[job[j].tok] # {}
        BY <1>7, <3>2, <4>1, <4>3 DEF Pop
      <4> QED
        BY <4>2, <4>3
    <3>3. CASE KillWorker(j)
      <4>1. job[j].pc # "none" /\ pc' = pc
        BY <3>3 DEF KillWorker, Working, Waiting, InLoop, Closing
      <4> QED
        BY <1>7, <2>0, <3>3, <4>1 DEF KillWorker
    <3> QED
      BY <1>10, <3>1, <3>2, <3>3
  <2> DEFINE v == [job[j] EXCEPT !.pc = p, !.prompts = q]
  <2>2. v \in JobRecords /\ v.tok = job[j].tok /\ v.bridge = job[j].bridge /\ v.pc = p
    <3>1. PICK u \in JobRecords : u = job[j]
      BY <1>0
    <3>2. LET w == [u EXCEPT !.pc = p, !.prompts = q]
          IN  w \in JobRecords /\ w.tok = u.tok /\ w.bridge = u.bridge /\ w.pc = p
      BY <1>7 DEF JobRecords
    <3> QED
      BY <3>1, <3>2
  <2>3. job' = [job EXCEPT ![j] = v]
    BY <1>0, <2>1 DEF JobType
  <2> HIDE DEF v
  <2> QED
    BY <1>6, <2>1, <2>2, <2>3
<1>11. ASSUME NEW j \in Callers, LoseJob(j) PROVE Kept
  <2>1. /\ job[j].pc # "none" /\ pc' = pc
        /\ job' = [job EXCEPT ![j].pc = "lost", ![j].stat = "none", ![j].prompts = {}]
    BY <1>11 DEF LoseJob
  <2> DEFINE v == [job[j] EXCEPT !.pc = "lost", !.stat = "none", !.prompts = {}]
  <2>2. v \in JobRecords /\ v.tok = job[j].tok /\ v.bridge = job[j].bridge /\ v.pc = "lost"
    <3>1. PICK u \in JobRecords : u = job[j]
      BY <1>0
    <3>2. LET w == [u EXCEPT !.pc = "lost", !.stat = "none", !.prompts = {}]
          IN  w \in JobRecords /\ w.tok = u.tok /\ w.bridge = u.bridge /\ w.pc = "lost"
      BY <1>7 DEF JobRecords
    <3> QED
      BY <3>1, <3>2
  <2>3. job' = [job EXCEPT ![j] = v]
    BY <1>0, <2>1 DEF JobType
  <2> HIDE DEF v
  <2> QED
    BY <1>6, <2>1, <2>2, <2>3
<1>12. ASSUME NEW j \in Callers, JobLock(j) \/ JobWaited(j) PROVE Kept
  <2>1. PICK b \in BOOLEAN : /\ b => job[j].tok # None
                             /\ job' = [job EXCEPT ![j].pc = "turn", ![j].bridge = b]
    BY <1>12 DEF JobLock, JobWaited, EnterLoop
  <2>2. pc' = pc /\ job[j].pc # "none"
    BY <1>12 DEF JobLock, JobWaited, EnterLoop
  <2> DEFINE v == [job[j] EXCEPT !.pc = "turn", !.bridge = b]
  <2>3. v \in JobRecords /\ v.tok = job[j].tok /\ v.bridge = b /\ v.pc = "turn"
    <3>1. PICK u \in JobRecords : u = job[j]
      BY <1>0
    <3>2. LET w == [u EXCEPT !.pc = "turn", !.bridge = b]
          IN  w \in JobRecords /\ w.tok = u.tok /\ w.bridge = b /\ w.pc = "turn"
      BY <1>7 DEF JobRecords
    <3> QED
      BY <3>1, <3>2
  <2>4. job' = [job EXCEPT ![j] = v]
    BY <1>0, <2>1 DEF JobType
  <2> HIDE DEF v
  <2> QED
    BY <1>0, <2>1, <2>2, <2>3, <2>4, JobGoes
<1>13. ASSUME NEW j \in Callers, JobBusy(j) PROVE Kept
  <2>1. /\ job[j].pc = "setup" /\ pc' = pc
        /\ job' = [Cancelled({wlock}) EXCEPT ![j].pc = "wait"]
    BY <1>13 DEF JobBusy
  <2>2. \A i \in Callers :
          \/ job'[i] = job[i]
          \/ job[i].pc = "turn" /\ job'[i] = [job[i] EXCEPT !.pc = "complete"]
          \/ job[i].pc = "setup" /\ job'[i] = [job[i] EXCEPT !.pc = "wait"]
    BY <2>1 DEF Cancelled
  <2>3. \A i \in Callers : /\ job'[i] \in JobRecords /\ job'[i].tok = job[i].tok
                           /\ job'[i].bridge = job[i].bridge
                           /\ job'[i].prompts = job[i].prompts
                           /\ job'[i].pc = job[i].pc \/ job'[i].pc \in {"complete", "wait"}
                           /\ job[i].pc = "none" => job'[i].pc = "none"
    <3> SUFFICES ASSUME NEW i \in Callers
                 PROVE  /\ job'[i] \in JobRecords /\ job'[i].tok = job[i].tok
                        /\ job'[i].bridge = job[i].bridge
                        /\ job'[i].prompts = job[i].prompts
                        /\ job'[i].pc = job[i].pc \/ job'[i].pc \in {"complete", "wait"}
                        /\ job[i].pc = "none" => job'[i].pc = "none"
      OBVIOUS
    <3>0. PICK u \in JobRecords : u = job[i]
      BY <1>0
    <3>1. PICK v : u = job[i] /\ v = job'[i]
      BY <3>0
    <3>2. CASE v = u
      BY <3>1, <3>2
    <3>3. CASE u.pc = "turn" /\ v = [u EXCEPT !.pc = "complete"]
      <4>1. /\ v \in JobRecords /\ v.tok = u.tok /\ v.bridge = u.bridge
            /\ v.prompts = u.prompts /\ v.pc = "complete"
        BY <1>7, <3>3 DEF JobRecords
      <4> QED
        BY <3>1, <3>3, <4>1
    <3>4. CASE u.pc = "setup" /\ v = [u EXCEPT !.pc = "wait"]
      <4>1. /\ v \in JobRecords /\ v.tok = u.tok /\ v.bridge = u.bridge
            /\ v.prompts = u.prompts /\ v.pc = "wait"
        BY <1>7, <3>4 DEF JobRecords
      <4> QED
        BY <3>1, <3>4, <4>1
    <3> QED
      BY <2>2, <3>1, <3>2, <3>3, <3>4
  <2>4. JobType'
    BY <2>1, <2>3 DEF JobType, JobRecords, Cancelled
  <2> SUFFICES ASSUME NEW i \in Callers
               PROVE  /\ job'[i].tok # None => sess'[job'[i].tok].status # "none"
                      /\ job'[i].bridge => job'[i].tok # None
                      /\ job'[i].pc \in {"pop", "rerun"} => job'[i].bridge
                      /\ pc'[i] \notin HasJob =>
                           job'[i].pc = "none" /\ job'[i].prompts = {}
    BY <2>4 DEF JobInv, Exists
  <2>5. job[i].tok \in Tokens \cup {None}
    BY <1>0 DEF JobType
  <2> QED
    BY <1>0, <2>1, <2>3, <2>5 DEF JobInv, Grown, Exists
<1>14. ASSUME NEW j \in Callers, StatusExpires(j) PROVE Kept
  <2>1. pc' = pc /\ job' = [job EXCEPT ![j].stat = "none"] /\ UNCHANGED sess
    BY <1>14 DEF StatusExpires, store
  <2>2. \A i \in Callers :
          job'[i] = IF i = j THEN [job[j] EXCEPT !.stat = "none"] ELSE job[i]
    BY <1>0, <2>1 DEF JobType
  <2>3. \A i \in Callers : /\ job'[i] \in JobRecords /\ job'[i].tok = job[i].tok
                           /\ job'[i].bridge = job[i].bridge
                           /\ job'[i].prompts = job[i].prompts
                           /\ job'[i].pc = job[i].pc
    BY <1>0, <2>2 DEF JobRecords
  <2>4. JobType'
    BY <1>0, <2>1, <2>3 DEF JobType, JobRecords
  <2> QED
    BY <1>0, <2>1, <2>3, <2>4 DEF JobInv, Exists
<1> HIDE DEF Kept
<1>15. ASSUME NEW c \in Tokens, Execute(c) \/ CoordinatorFails(c) PROVE Kept
  <2>1. CASE Signal(c) \/ CreateJob(c)
    BY <1>2, <1>5, <2>1
  <2>2. CASE ~(Signal(c) \/ CreateJob(c))
    <3>1. job' = job
      BY <1>15, <2>2
      DEF Execute, CoordinatorFails, Prepare, Setnx, DedupActive, DedupFind,
          DedupPush, DedupDelete, Active, LockInfo, Orphan, OrphanGetJob, GetJob,
          OrphanStatus, OrphanError, MarkError, QueuePush, Inject, Find, SetRun,
          Create, SetJob, Reads
    <3> QED
      BY <1>1, <3>1
  <2> QED
    BY <2>1, <2>2
<1>16. ASSUME NEW w \in Sweeps, Sweep(w) \/ SweepFails(w) PROVE Kept
  <2>1. job' = job
    BY <1>16
    DEF Sweep, SweepFails, SweepStart, Scan, SweepGetJob, SweepStatus,
        SweepLockInfo, SweepError, MarkError, Reads
  <2> QED
    BY <1>1, <2>1
<1>17. ASSUME NEW r \in Resumes, BrowserSends(r) \/ Resume(r) \/ ResumeFails(r)
       PROVE  Kept
  <2>1. CASE ResumeData(r) \/ ResumePush(r)
    BY <1>3, <1>4, <2>1
  <2>2. CASE ~(ResumeData(r) \/ ResumePush(r))
    <3>1. job' = job
      BY <1>17, <2>2
      DEF BrowserSends, Resume, ResumeFails, AcquireResume, CheckResumable,
          ResumeSetRun, ResumePop, ResumeSetJob, ReleaseResume
    <3> QED
      BY <1>1, <3>1
  <2> QED
    BY <2>1, <2>2
<1>18. ASSUME NEW j \in Callers,
              \/ Process(j) \/ SetupFails(j) \/ TurnFails(j) \/ KillWorker(j)
              \/ Reclaim(j) \/ LoseJob(j) \/ StatusExpires(j)
       PROVE  Kept
  BY <1>8, <1>9, <1>10, <1>11, <1>12, <1>13, <1>14, <1>18 DEF Process
<1>19. ASSUME \/ \E t \in Tokens : Age(t) \/ ResumeLockExpires(t)
              \/ DedupExpires \/ SweepLockExpires \/ WorktreeLockExpires
              \/ UNCHANGED vars
       PROVE  Kept
  <2>1. job' = job
    BY <1>19
    DEF Age, ResumeLockExpires, DedupExpires, SweepLockExpires,
        WorktreeLockExpires, vars
  <2> QED
    BY <1>1, <2>1
<1>20. Kept
  BY <1>15, <1>16, <1>17, <1>18, <1>19 DEF Next, Tokens
<1> QED
  BY <1>20 DEF Kept

\* Every step writes the keys of the session with values of their types.
LEMMA KeyStep ==
  TypeInv /\ [Next]_vars => KeyType'
<1> SUFFICES ASSUME TypeInv, [Next]_vars PROVE KeyType'
  OBVIOUS
<1>0. /\ KeyType /\ CallerType /\ CallerInv /\ JobType
      /\ Callers = Tokens \cup Resumes /\ Sweeps \subseteq Tokens
      /\ Resumes \subseteq Prompts
  BY DEF TypeInv, Callers, Tokens, Prompts
<1>1. ASSUME NEW c \in Tokens, Execute(c) \/ CoordinatorFails(c) PROVE KeyType'
  <2>1. CASE DedupPush(c) \/ QueuePush(c) \/ Inject(c)
    <3>1. text[c] \in Prompts
      BY <1>0, <2>1 DEF DedupPush, QueuePush, Inject, Goto, CallerInv
    <3>2. inbox' = [inbox EXCEPT ![tok[c]] = @ \cup {text[c]}]
      BY <2>1 DEF DedupPush, QueuePush, Inject, PushInbox
    <3>3. inbox' \in [Tokens -> SUBSET Prompts]
      BY <1>0, <3>1, <3>2 DEF KeyType
    <3> QED
      BY <1>0, <2>1, <3>3 DEF DedupPush, QueuePush, Inject, KeyType
  <2>2. CASE SetJob(c)
    BY <1>0, <2>2 DEF SetJob, SetJobId, KeyType
  <2>3. CASE Setnx(c) \/ DedupDelete(c)
    BY <1>0, <2>3 DEF Setnx, DedupDelete, KeyType
  <2>4. CASE ~(\/ DedupPush(c) \/ QueuePush(c) \/ Inject(c) \/ SetJob(c)
               \/ Setnx(c) \/ DedupDelete(c))
    <3>1. UNCHANGED <<dedup, jobKey, inbox, resumeLock, wlock, sweepLock>>
      BY <1>1, <2>4
      DEF Execute, CoordinatorFails, Prepare, DedupActive, DedupFind, Active,
          LockInfo, Orphan, OrphanGetJob, GetJob, OrphanStatus, OrphanError,
          MarkError, Signal, Find, SetRun, Create, CreateJob, Reads, store
    <3> QED
      BY <1>0, <3>1 DEF KeyType
  <2> QED
    BY <2>1, <2>2, <2>3, <2>4
<1>2. ASSUME NEW w \in Sweeps, Sweep(w) \/ SweepFails(w) PROVE KeyType'
  BY <1>0, <1>2
  DEF Sweep, SweepFails, SweepStart, Scan, SweepGetJob, SweepStatus,
      SweepLockInfo, SweepError, MarkError, Reads, store, KeyType
<1>3. ASSUME NEW r \in Resumes, BrowserSends(r) \/ Resume(r) \/ ResumeFails(r)
      PROVE  KeyType'
  <2>1. CASE BrowserSends(r)
    <3>1. PICK t \in Tokens : inbox' \in {inbox, [inbox EXCEPT ![t] = @ \cup {r}]}
      BY <2>1 DEF BrowserSends
    <3>2. inbox' \in [Tokens -> SUBSET Prompts]
      BY <1>0, <3>1 DEF KeyType
    <3> QED
      BY <1>0, <2>1, <3>2 DEF BrowserSends, KeyType
  <2>2. CASE AcquireResume(r) \/ ReleaseResume(r)
    BY <1>0, <2>2 DEF AcquireResume, ReleaseResume, KeyType
  <2>3. CASE ResumeSetJob(r) \/ ResumePop(r)
    BY <1>0, <2>3 DEF ResumeSetJob, SetJobId, ResumePop, KeyType
  <2>4. CASE \/ CheckResumable(r) \/ ResumeSetRun(r) \/ ResumeData(r)
             \/ ResumePush(r) \/ ResumeFails(r)
    BY <1>0, <2>4
    DEF CheckResumable, ResumeSetRun, ResumeData, ResumePush, ResumeFails, store,
        KeyType
  <2> QED
    BY <1>3, <2>1, <2>2, <2>3, <2>4 DEF Resume
<1>4. ASSUME NEW j \in Callers,
             \/ Process(j) \/ SetupFails(j) \/ TurnFails(j) \/ KillWorker(j)
             \/ Reclaim(j) \/ LoseJob(j) \/ StatusExpires(j)
      PROVE  KeyType'
  <2>1. CASE JobLock(j) \/ JobWaited(j) \/ Unlock(j) \/ Undedup(j)
    BY <1>0, <2>1 DEF JobLock, JobWaited, EnterLoop, Unlock, Undedup, KeyType
  <2>2. CASE Pop(j)
    BY <1>0, <2>2 DEF Pop, KeyType
  <2>3. CASE ~(JobLock(j) \/ JobWaited(j) \/ Unlock(j) \/ Undedup(j) \/ Pop(j))
    <3>1. UNCHANGED <<dedup, jobKey, inbox, resumeLock, wlock, sweepLock>>
      BY <1>4, <2>3
      DEF Process, SetupFails, TurnFails, KillWorker, Reclaim, LoseJob,
          StatusExpires, TakeJob, JobBusy, TurnEnds, Rerun, Finish, Fail,
          Complete, store
    <3> QED
      BY <1>0, <3>1 DEF KeyType
  <2> QED
    BY <2>1, <2>2, <2>3
<1>5. ASSUME \/ \E t \in Tokens : Age(t) \/ ResumeLockExpires(t)
             \/ DedupExpires \/ SweepLockExpires \/ WorktreeLockExpires
             \/ UNCHANGED vars
      PROVE  KeyType'
  BY <1>0, <1>5
  DEF Age, ResumeLockExpires, DedupExpires, SweepLockExpires,
      WorktreeLockExpires, vars, store, KeyType
<1> QED
  BY <1>1, <1>2, <1>3, <1>4, <1>5 DEF Next, Tokens

\* Every step keeps the histories, and the faults within the bound.
LEMMA HistoryStep ==
  TypeInv /\ [Next]_vars => HistoryType'
<1> SUFFICES ASSUME TypeInv, [Next]_vars PROVE HistoryType'
  OBVIOUS
<1>0. /\ HistoryType /\ (Fault => faults' \in 0..MaxEvents)
      /\ Callers = Tokens \cup Resumes /\ Sweeps \subseteq Tokens
      /\ Resumes \subseteq Prompts
      /\ \A j \in Callers : job[j].prompts \subseteq Prompts
      /\ \A t \in Tokens : inbox[t] \subseteq Prompts
      /\ \A t \in Tokens : resumeLock[t] \in Resumes \cup {None}
      /\ \A t : Outrun(t) \subseteq Sweeps
      /\ Robbed \subseteq Callers
  BY FaultCounted
  DEF TypeInv, Callers, Tokens, Prompts, JobType, KeyType, Outrun, Robbed
<1>1. ASSUME NEW c \in Tokens, Execute(c) \/ CoordinatorFails(c) PROVE HistoryType'
  <2>1. CASE Prepare(c) \/ CoordinatorFails(c)
    <3>1. text[c] \in Prompts
      BY <2>1
      DEF Prepare, CoordinatorFails, Follow, Creating, TypeInv, CallerInv,
          Callers, Tokens, Prompts
    <3> QED
      BY <1>0, <2>1, <3>1
      DEF Prepare, CoordinatorFails, excuses, HistoryType
  <2>2. CASE DedupDelete(c) \/ SetRun(c) \/ Create(c) \/ SetJob(c)
    BY <1>0, <2>2
    DEF DedupDelete, SetRun, SetRunning, Create, CreateSession, SetJob, prompts,
        excuses, history, HistoryType
  <2>3. CASE ~(\/ Prepare(c) \/ CoordinatorFails(c) \/ DedupDelete(c) \/ SetRun(c)
               \/ Create(c) \/ SetJob(c))
    BY <1>0, <1>1, <2>3
    DEF Execute, Setnx, DedupActive, DedupFind, DedupPush, Active,
        LockInfo, Orphan, OrphanGetJob, GetJob, OrphanStatus, OrphanError,
        MarkError, QueuePush, Inject, Signal, Find, CreateJob, Reads, history,
        prompts, excuses, HistoryType
  <2> QED
    BY <2>1, <2>2, <2>3
<1>2. ASSUME NEW w \in Sweeps, Sweep(w) \/ SweepFails(w) PROVE HistoryType'
  BY <1>0, <1>2
  DEF Sweep, SweepFails, SweepStart, Scan, SweepGetJob, SweepStatus,
      SweepLockInfo, SweepError, PassOver, MarkError, Reads, history, prompts,
      excuses, HistoryType
<1>3. ASSUME NEW r \in Resumes, BrowserSends(r) \/ Resume(r) \/ ResumeFails(r)
      PROVE  HistoryType'
  <2>1. CASE ResumePop(r)
    <3>1. tok[r] \in Tokens
      BY <2>1
      DEF ResumePop, Goto, TypeInv, CallerInv, CallerType, Callers, WithToken, Resuming
    <3> QED
      BY <1>0, <2>1, <3>1 DEF ResumePop, excuses, HistoryType
  <2>2. CASE ~ResumePop(r)
    BY <1>0, <1>3, <2>2
    DEF BrowserSends, Resume, ResumeFails, AcquireResume, CheckResumable,
        ResumeSetRun, SetRunning, ResumeData, ResumeSetJob, ResumePush,
        ReleaseResume, history, prompts, excuses, HistoryType
  <2> QED
    BY <2>1, <2>2
<1>4. ASSUME NEW j \in Callers,
             \/ Process(j) \/ SetupFails(j) \/ TurnFails(j) \/ KillWorker(j)
             \/ Reclaim(j) \/ LoseJob(j) \/ StatusExpires(j)
      PROVE  HistoryType'
  BY <1>0, <1>4
  DEF Process, SetupFails, TurnFails, KillWorker, Reclaim, LoseJob,
      StatusExpires, TakeJob, JobLock, JobBusy, JobWaited, EnterLoop, TurnEnds,
      Pop, Rerun, SetRunning, Finish, Fail, Complete, Undedup, Unlock, history,
      prompts, excuses, HistoryType
<1>5. ASSUME \/ \E t \in Tokens : Age(t) \/ ResumeLockExpires(t)
             \/ DedupExpires \/ SweepLockExpires \/ WorktreeLockExpires
             \/ UNCHANGED vars
      PROVE  HistoryType'
  BY <1>0, <1>5
  DEF Age, ResumeLockExpires, DedupExpires, SweepLockExpires,
      WorktreeLockExpires, vars, history, prompts, excuses, HistoryType
<1> QED
  BY <1>1, <1>2, <1>3, <1>4, <1>5 DEF Next, Tokens

\* The types of the session's keys, of the callers and of the jobs, with what
\* each step relies on in the session it works on.
THEOREM TypeInvariant == Spec => []TypeInv
<1>1. Init => TypeInv
  <2> SUFFICES ASSUME Init PROVE TypeInv
    OBVIOUS
  <2>1. SessType /\ SessionInv
    BY DEF Init, SessType, SessionInv, Exists, NoSession
  <2>2. CallerType /\ CallerInv
    BY StreamingAssumption
    DEF Init, CallerType, CallerInv, PCs, Callers, Tokens, Prompts, WithToken, Resuming
  <2>3. JobType /\ JobInv
    <3>1. NoJob \in JobRecords /\ NoJob.tok = None /\ ~NoJob.bridge
          /\ NoJob.pc = "none" /\ NoJob.prompts = {}
      BY DEF NoJob, JobRecords, JobPCs
    <3>2. \A j \in Callers : job[j] = NoJob
      BY DEF Init
    <3>3. JobType
      BY <3>1 DEF Init, JobType, JobRecords
    <3> QED
      BY <3>1, <3>2, <3>3 DEF JobInv
  <2>4. KeyType /\ HistoryType
    <3>1. KeyType
      BY DEF Init, KeyType
    <3>2. faults \in 0..MaxEvents
      BY StreamingAssumption DEF Init
    <3> QED
      BY <3>1, <3>2 DEF Init, HistoryType
  <2> QED
    BY <2>1, <2>2, <2>3, <2>4 DEF TypeInv
<1>2. TypeInv /\ [Next]_vars => TypeInv'
  BY SessStep, CallerStep, JobStep, KeyStep, HistoryStep DEF TypeInv
<1> QED
  BY <1>1, <1>2, PTL DEF Spec

\* Every key, caller and job of the session keeps its type; in particular every
\* job has real prompts and every recovered session the query it began with.
THEOREM TypeCorrect == Spec => []TypeOK
<1>1. TypeInv => TypeOK
  BY TypeParts DEF TypeInv
<1> QED
  BY <1>1, TypeInvariant, PTL

-----------------------------------------------------------------------------

\* Who creates a session and never lost the dedup key still holds it.
CreatorInv ==
  \A x \in Tokens :
    pc[x] \in Creating /\ ~Sessionless(x) /\ x \notin keyless => dedup = x

\* Nobody begins to create, and whoever loses the key is recorded.
LEMMA CreatorsKept ==
  ASSUME CreatorInv, keyless \subseteq keyless',
         dedup' = dedup \/ Robbed \subseteq keyless',
         \A x \in Tokens :
           pc'[x] \in Creating => \/ pc[x] \in Creating /\ pc[x] # "createjob"
                                  \/ pc[x] \in Creating /\ tok'[x] = tok[x]
                                  \/ pc'[x] = "createjob" /\ tok'[x] = None
                                  \/ x \in keyless',
         \A x \in Tokens : pc[x] = "createjob" /\ tok'[x] # tok[x] => pc'[x] \notin Creating,
         \A x \in Tokens : pc[x] = "createjob" /\ pc'[x] # pc[x] /\ pc'[x] \in Creating
                             => pc'[x] = "setjob" /\ tok[x] # None
  PROVE  CreatorInv'
<1> SUFFICES ASSUME NEW x \in Tokens, pc'[x] \in Creating,
                    ~(pc'[x] = "createjob" /\ tok'[x] = None), x \notin keyless'
             PROVE  dedup' = x
  BY DEF CreatorInv, Sessionless
<1>1. pc[x] \in Creating /\ ~Sessionless(x) /\ x \notin keyless
  BY DEF Sessionless
<1>2. dedup = x
  BY <1>1 DEF CreatorInv
<1> QED
  BY <1>1, <1>2 DEF Robbed, Callers, Tokens

\* Every step of every caller leaves the dedup key with the one that creates, or
\* records that it was lost.
LEMMA CreatorStep ==
  TypeInv /\ CreatorInv /\ [Next]_vars => CreatorInv'
<1> SUFFICES ASSUME TypeInv, CreatorInv, [Next]_vars PROVE CreatorInv'
  OBVIOUS
<1>0. CallerType /\ CallerInv /\ Tokens \subseteq Callers
  BY DEF TypeInv, Callers, Tokens
<1> DEFINE Still == \A x \in Tokens : pc'[x] = pc[x] /\ tok'[x] = tok[x]
<1>1. ASSUME keyless \subseteq keyless', dedup' = dedup \/ Robbed \subseteq keyless', Still
      PROVE  CreatorInv'
  BY <1>1, CreatorsKept
<1>2. ASSUME NEW c \in Tokens, Setnx(c) PROVE CreatorInv'
  <2>1. CASE dedup = None
    <3>1. /\ dedup' = c /\ UNCHANGED <<keyless, tok>> /\ pc[c] = "setnx"
          /\ pc' = [pc EXCEPT ![c] = "active"]
      BY <1>2, <2>1 DEF Setnx, Goto, history, excuses, locals
    <3>2. \A x \in Tokens \ {c} : ~(pc[x] \in Creating /\ ~Sessionless(x) /\ x \notin keyless)
      BY <2>1, StreamingAssumption DEF CreatorInv, Tokens
    <3> QED
      BY <1>0, <3>1, <3>2 DEF CreatorInv, Sessionless, CallerType
  <2>2. CASE dedup # None
    <3>1. /\ UNCHANGED <<dedup, keyless, tok>> /\ pc' = [pc EXCEPT ![c] = "d_active"]
      BY <1>2, <2>2 DEF Setnx, Goto, history, excuses, locals
    <3> QED
      BY <1>0, <3>1, CreatorsKept DEF Creating, CallerType
  <2> QED
    BY <2>1, <2>2
<1>3. ASSUME NEW c \in Tokens, DedupDelete(c) PROVE CreatorInv'
  <2>1. /\ keyless' = keyless \cup {c} \cup Robbed /\ tok' = tok
        /\ pc[c] = "d_delete" /\ pc' = [pc EXCEPT ![c] = "active"]
    BY <1>3 DEF DedupDelete, Goto, locals
  <2> QED
    BY <1>0, <2>1, CreatorsKept DEF Creating, CallerType
<1>4. ASSUME NEW c \in Tokens, Execute(c) \/ CoordinatorFails(c), ~Setnx(c), ~DedupDelete(c)
      PROVE  CreatorInv'
  <2>1. UNCHANGED <<dedup, keyless>>
    BY <1>4
    DEF Execute, CoordinatorFails, Prepare, DedupActive, DedupFind, DedupPush,
        Active, LockInfo, Orphan, OrphanGetJob, GetJob, OrphanStatus, OrphanError,
        MarkError, QueuePush, Inject, Signal, Find, SetRun, Create, CreateJob,
        SetJob, Reads, store, history, excuses
  <2>2. \A x \in Tokens \ {c} : pc'[x] = pc[x] /\ tok'[x] = tok[x]
    BY <1>0, <1>4
    DEF Execute, CoordinatorFails, Prepare, DedupActive, DedupFind, DedupPush,
        Active, LockInfo, Orphan, OrphanGetJob, GetJob, OrphanStatus, OrphanError,
        MarkError, QueuePush, Inject, Signal, Find, SetRun, Create, CreateJob,
        SetJob, Goto, locals, CallerType
  <2>3. \/ pc'[c] \notin Creating
        \/ pc[c] \in Creating \ {"createjob"}
        \/ pc[c] # "createjob" /\ pc'[c] = "createjob" /\ tok'[c] = None
        \/ pc[c] = "createjob" /\ pc'[c] = "setjob" /\ tok[c] # None /\ tok'[c] = tok[c]
    <3>1. CASE \/ Prepare(c) \/ DedupActive(c) \/ DedupFind(c) \/ DedupPush(c)
               \/ QueuePush(c) \/ Inject(c) \/ Signal(c) \/ SetJob(c)
      BY <1>0, <3>1
      DEF Prepare, DedupActive, DedupFind, DedupPush, QueuePush, Inject, Signal,
          SetJob, Goto, CallerType, Creating
    <3>2. CASE \/ Active(c) \/ LockInfo(c) \/ Orphan(c) \/ OrphanGetJob(c)
               \/ OrphanStatus(c) \/ OrphanError(c) \/ Find(c) \/ SetRun(c) \/ Create(c)
      BY <1>0, <3>2
      DEF Active, LockInfo, Orphan, OrphanGetJob, GetJob, OrphanStatus,
          OrphanError, Find, SetRun, Create, Goto, Creating
    <3>3. CASE CreateJob(c)
      BY <1>0, <3>3 DEF CreateJob, Goto, locals, CallerType, Creating
    <3>4. CASE CoordinatorFails(c)
      BY <1>0, <3>4 DEF CoordinatorFails, CallerType, Creating
    <3> QED
      BY <1>4, <3>1, <3>2, <3>3, <3>4 DEF Execute
  <2> QED
    BY <2>1, <2>2, <2>3, CreatorsKept DEF Creating
<1>5. ASSUME NEW w \in Sweeps, Sweep(w) \/ SweepFails(w) PROVE CreatorInv'
  <2>1. UNCHANGED <<dedup, keyless>>
    BY <1>5
    DEF Sweep, SweepFails, SweepStart, Scan, SweepGetJob, SweepStatus,
        SweepLockInfo, SweepError, MarkError, Reads, store, history, excuses
  <2>2. \A x \in Tokens \ {w} : pc'[x] = pc[x] /\ tok'[x] = tok[x]
    BY <1>0, <1>5
    DEF Sweep, SweepFails, SweepStart, Scan, SweepGetJob, SweepStatus,
        SweepLockInfo, SweepError, MarkError, PassOver, Goto, locals, CallerType
  <2>3. pc[w] \notin Creating /\ pc'[w] \notin Creating /\ w \in Tokens
    BY <1>0, <1>5
    DEF Sweep, SweepFails, SweepStart, Scan, SweepGetJob, SweepStatus,
        SweepLockInfo, SweepError, PassOver, Goto, CallerType, Creating,
        Sweeping, Tokens
  <2> QED
    BY <2>1, <2>2, <2>3, CreatorsKept DEF Creating
<1>6. ASSUME NEW r \in Resumes, BrowserSends(r) \/ Resume(r) \/ ResumeFails(r)
      PROVE  CreatorInv'
  <2>1. UNCHANGED <<dedup, keyless>>
    BY <1>6
    DEF BrowserSends, Resume, ResumeFails, AcquireResume, CheckResumable,
        ResumeSetRun, ResumePop, ResumeData, ResumeSetJob, ResumePush,
        ReleaseResume, store, history, excuses
  <2>2. \A x \in Callers \ {r} : pc'[x] = pc[x] /\ tok'[x] = tok[x]
    BY <1>0, <1>6
    DEF BrowserSends, Resume, ResumeFails, AcquireResume, CheckResumable,
        ResumeSetRun, ResumePop, ResumeData, ResumeSetJob, ResumePush,
        ReleaseResume, Goto, locals, CallerType
  <2>3. r \notin Tokens
    BY StreamingAssumption DEF Tokens
  <2> QED
    BY <1>0, <1>1, <2>1, <2>2, <2>3
<1>7. ASSUME NEW j \in Callers,
             \/ Process(j) \/ SetupFails(j) \/ TurnFails(j) \/ KillWorker(j)
             \/ Reclaim(j) \/ LoseJob(j) \/ StatusExpires(j)
      PROVE  CreatorInv'
  <2>1. UNCHANGED <<pc, tok>>
    BY <1>7
    DEF Process, SetupFails, TurnFails, KillWorker, Reclaim, LoseJob,
        StatusExpires, TakeJob, JobLock, JobBusy, JobWaited, EnterLoop, TurnEnds,
        Pop, Rerun, Finish, Fail, Complete, Undedup, Unlock, locals
  <2>2. keyless \subseteq keyless' /\ (dedup' = dedup \/ Robbed \subseteq keyless')
    BY <1>7
    DEF Process, SetupFails, TurnFails, KillWorker, Reclaim, LoseJob,
        StatusExpires, TakeJob, JobLock, JobBusy, JobWaited, EnterLoop, TurnEnds,
        Pop, Rerun, Finish, Fail, Complete, Undedup, Unlock, store, history, excuses
  <2> QED
    BY <1>1, <2>1, <2>2
<1>8. ASSUME \/ \E t \in Tokens : Age(t) \/ ResumeLockExpires(t)
             \/ DedupExpires \/ SweepLockExpires \/ WorktreeLockExpires
             \/ UNCHANGED vars
      PROVE  CreatorInv'
  <2>1. UNCHANGED <<pc, tok>>
    BY <1>8
    DEF Age, ResumeLockExpires, DedupExpires, SweepLockExpires,
        WorktreeLockExpires, vars, locals
  <2>2. keyless \subseteq keyless' /\ (dedup' = dedup \/ Robbed \subseteq keyless')
    BY <1>8
    DEF Age, ResumeLockExpires, DedupExpires, SweepLockExpires,
        WorktreeLockExpires, vars, store, history, excuses
  <2> QED
    BY <1>1, <2>1, <2>2
<1> QED
  BY <1>2, <1>3, <1>4, <1>5, <1>6, <1>7, <1>8 DEF Next, Tokens

\* session_dedup_key: of any number of requests and sweeps creating for the
\* thread at the same time, at most one still has the dedup key it took; the
\* others deleted it as stale or lost it.
THEOREM SingleCreator == Spec => []OneCreator
<1>1. Init => CreatorInv
  BY DEF Init, CreatorInv, Creating, Callers, Tokens
<1>2. CreatorInv => OneCreator
  BY DEF CreatorInv, OneCreator, Tokens
<1> QED
  BY <1>1, <1>2, CreatorStep, TypeInvariant, PTL DEF Spec

-----------------------------------------------------------------------------

\* Who resumes a session holds its resume lock, unless the lock expired.
ResumeInv ==
  \A r \in Resumes :
    pc[r] \in Resuming /\ r \notin lapsed => resumeLock[tok[r]] = r

\* Nobody takes or loses a resume lock.
LEMMA ResumesKept ==
  ASSUME ResumeInv, UNCHANGED <<resumeLock, lapsed>>,
         \A r \in Resumes :
           pc'[r] \in Resuming => pc[r] \in Resuming /\ tok'[r] = tok[r]
  PROVE  ResumeInv'
BY DEF ResumeInv

\* Every step leaves the resume lock with the one that resumes, or records that
\* it expired.
LEMMA ResumeStep ==
  TypeInv /\ ResumeInv /\ [Next]_vars => ResumeInv'
<1> SUFFICES ASSUME TypeInv, ResumeInv, [Next]_vars PROVE ResumeInv'
  OBVIOUS
<1>0. /\ CallerType /\ CallerInv /\ Resumes \subseteq Callers
      /\ resumeLock \in [Tokens -> Resumes \cup {None}]
      /\ None \notin Resumes /\ Tokens \cap Resumes = {}
  BY StreamingAssumption DEF TypeInv, KeyType, Callers, Tokens
<1>1. \A r \in Resumes : pc[r] \in Resuming \cup {"acquire", "release"} => tok[r] \in Tokens
  BY <1>0 DEF CallerType, CallerInv, WithToken
<1>2. ASSUME NEW r \in Resumes, AcquireResume(r) PROVE ResumeInv'
  <2>1. CASE resumeLock[tok[r]] # None
    BY <1>0, <1>2, <2>1, ResumesKept
    DEF AcquireResume, Goto, locals, excuses, CallerType, Resuming
  <2>2. CASE resumeLock[tok[r]] = None
    <3>1. /\ pc[r] = "acquire" /\ pc' = [pc EXCEPT ![r] = "check"]
          /\ resumeLock' = [resumeLock EXCEPT ![tok[r]] = r]
          /\ UNCHANGED <<tok, lapsed>>
      BY <1>2, <2>2 DEF AcquireResume, Goto, locals, excuses
    <3>2. \A q \in Resumes \ {r} : pc'[q] = pc[q]
      BY <1>0, <3>1 DEF CallerType
    <3>3. resumeLock'[tok[r]] = r
      BY <1>0, <1>1, <3>1
    <3>4. \A q \in Resumes \ {r} :
            pc[q] \in Resuming /\ q \notin lapsed => resumeLock'[tok[q]] = q
      BY <1>0, <1>1, <2>2, <3>1 DEF ResumeInv
    <3> QED
      BY <3>1, <3>2, <3>3, <3>4 DEF ResumeInv
  <2> QED
    BY <2>1, <2>2
<1>3. ASSUME NEW r \in Resumes, ReleaseResume(r) PROVE ResumeInv'
  <2>1. /\ pc[r] = "release" /\ pc' = [pc EXCEPT ![r] = "left"]
        /\ resumeLock' = IF resumeLock[tok[r]] = r
                         THEN [resumeLock EXCEPT ![tok[r]] = None] ELSE resumeLock
        /\ UNCHANGED <<tok, lapsed>>
    BY <1>3 DEF ReleaseResume, Goto, locals, history, excuses
  <2>2. \A q \in Resumes : pc'[q] \in Resuming => q # r /\ pc[q] \in Resuming
    BY <1>0, <2>1 DEF CallerType, Resuming
  <2>3. \A q \in Resumes \ {r} :
          pc[q] \in Resuming /\ q \notin lapsed => resumeLock'[tok[q]] = q
    BY <1>0, <1>1, <2>1 DEF ResumeInv
  <2> QED
    BY <2>1, <2>2, <2>3 DEF ResumeInv
<1>4. ASSUME NEW t \in Tokens, ResumeLockExpires(t) PROVE ResumeInv'
  <2>1. PICK r \in Resumes : r = resumeLock[t]
    BY <1>0, <1>4 DEF ResumeLockExpires
  <2>2. /\ resumeLock' = [resumeLock EXCEPT ![t] = None] /\ UNCHANGED <<pc, tok>>
        /\ lapsed \subseteq lapsed' /\ (pc[r] \in Resuming => r \in lapsed')
    BY <1>4, <2>1 DEF ResumeLockExpires, locals
  <2>3. \A q \in Resumes :
          pc[q] \in Resuming /\ q \notin lapsed' => resumeLock'[tok[q]] = q
    BY <1>0, <1>1, <2>1, <2>2 DEF ResumeInv
  <2> QED
    BY <2>2, <2>3 DEF ResumeInv
<1>5. ASSUME NEW r \in Resumes, BrowserSends(r) \/ Resume(r) \/ ResumeFails(r),
             ~AcquireResume(r), ~ReleaseResume(r)
      PROVE  ResumeInv'
  <2>1. UNCHANGED <<resumeLock, lapsed>>
    BY <1>5
    DEF BrowserSends, Resume, ResumeFails, CheckResumable, ResumeSetRun, ResumePop,
        ResumeData, ResumeSetJob, ResumePush, store, history, excuses
  <2>2. \A q \in Resumes \ {r} : pc'[q] = pc[q] /\ tok'[q] = tok[q]
    BY <1>0, <1>5
    DEF BrowserSends, Resume, ResumeFails, CheckResumable, ResumeSetRun, ResumePop,
        ResumeData, ResumeSetJob, ResumePush, Goto, locals, CallerType
  <2>3. pc'[r] \in Resuming => pc[r] \in Resuming /\ tok'[r] = tok[r]
    BY <1>0, <1>5
    DEF BrowserSends, Resume, ResumeFails, CheckResumable, ResumeSetRun, ResumePop,
        ResumeData, ResumeSetJob, ResumePush, Goto, locals, CallerType, Resuming
  <2> QED
    BY <2>1, <2>2, <2>3, ResumesKept
<1>6. ASSUME NEW c \in Tokens, Execute(c) \/ CoordinatorFails(c) PROVE ResumeInv'
  <2>1. UNCHANGED <<resumeLock, lapsed>>
    BY <1>6
    DEF Execute, CoordinatorFails, Prepare, Setnx, DedupActive, DedupFind,
        DedupPush, DedupDelete, Active, LockInfo, Orphan, OrphanGetJob, GetJob,
        OrphanStatus, OrphanError, MarkError, QueuePush, Inject, Signal, Find,
        SetRun, Create, CreateJob, SetJob, Reads, store, history, excuses
  <2>2. \A q \in Callers \ {c} : pc'[q] = pc[q] /\ tok'[q] = tok[q]
    BY <1>0, <1>6
    DEF Execute, CoordinatorFails, Prepare, Setnx, DedupActive, DedupFind,
        DedupPush, DedupDelete, Active, LockInfo, Orphan, OrphanGetJob, GetJob,
        OrphanStatus, OrphanError, MarkError, QueuePush, Inject, Signal, Find,
        SetRun, Create, CreateJob, SetJob, Goto, locals, CallerType
  <2> QED
    BY <1>0, <2>1, <2>2, ResumesKept
<1>7. ASSUME NEW w \in Sweeps, Sweep(w) \/ SweepFails(w) PROVE ResumeInv'
  <2>1. UNCHANGED <<resumeLock, lapsed>>
    BY <1>7
    DEF Sweep, SweepFails, SweepStart, Scan, SweepGetJob, SweepStatus,
        SweepLockInfo, SweepError, MarkError, Reads, store, history, excuses
  <2>2. \A q \in Callers \ {w} : pc'[q] = pc[q] /\ tok'[q] = tok[q]
    BY <1>0, <1>7
    DEF Sweep, SweepFails, SweepStart, Scan, SweepGetJob, SweepStatus,
        SweepLockInfo, SweepError, MarkError, PassOver, Goto, locals, CallerType
  <2>3. w \notin Resumes
    BY StreamingAssumption
  <2> QED
    BY <1>0, <2>1, <2>2, <2>3, ResumesKept
<1>8. ASSUME NEW j \in Callers,
             \/ Process(j) \/ SetupFails(j) \/ TurnFails(j) \/ KillWorker(j)
             \/ Reclaim(j) \/ LoseJob(j) \/ StatusExpires(j)
      PROVE  ResumeInv'
  <2>1. UNCHANGED <<pc, tok, resumeLock, lapsed>>
    BY <1>8
    DEF Process, SetupFails, TurnFails, KillWorker, Reclaim, LoseJob,
        StatusExpires, TakeJob, JobLock, JobBusy, JobWaited, EnterLoop, TurnEnds,
        Pop, Rerun, Finish, Fail, Complete, Undedup, Unlock, locals, store,
        history, excuses
  <2> QED
    BY <2>1, ResumesKept
<1>9. ASSUME \/ \E t \in Tokens : Age(t)
             \/ DedupExpires \/ SweepLockExpires \/ WorktreeLockExpires
             \/ UNCHANGED vars
      PROVE  ResumeInv'
  <2>1. UNCHANGED <<pc, tok, resumeLock, lapsed>>
    BY <1>9
    DEF Age, DedupExpires, SweepLockExpires, WorktreeLockExpires, vars, store,
        locals, history, excuses
  <2> QED
    BY <2>1, ResumesKept
<1> QED
  BY <1>2, <1>3, <1>4, <1>5, <1>6, <1>7, <1>8, <1>9 DEF Next, Tokens

\* Two resumes of one session overlap only if the lock of one of them expired.
THEOREM SingleResume == Spec => []OneResume
<1>1. Init => ResumeInv
  BY DEF Init, ResumeInv, Callers, Resuming
<1>2. ResumeInv => OneResume
  BY DEF ResumeInv, OneResume
<1> QED
  BY <1>1, <1>2, TypeInvariant, ResumeStep, PTL DEF Spec

-----------------------------------------------------------------------------

\* A job that has given its prompts to a turn, or dropped them.
HasRun == {"turn", "pop", "finish", "fail", "complete", "undedup", "unlock"}

\* What a job j does to the jobs, the inboxes and the prompts' history.
JobsGoOn ==
  /\ UNCHANGED <<pc, tok, shown, refused>> /\ ran \subseteq ran' /\ dropped \subseteq dropped'
  /\ \A i \in Callers :
       /\ job'[i].tok = job[i].tok
       /\ job[i].pc = "none" => job'[i].pc = "none"
       /\ job'[i].pc \in Open => job[i].pc \in Open
       /\ \/ /\ job'[i].prompts = job[i].prompts
             /\ job'[i].pc \in HasRun
                  => job[i].pc \in HasRun \/ job[i].prompts \subseteq ran' \cup dropped'
          \/ /\ job'[i].pc \notin HasRun
             /\ job[i].pc \in HasRun \/ job[i].prompts \subseteq job'[i].prompts \cup dropped'
  /\ \A t \in Tokens : \/ inbox[t] \subseteq inbox'[t]
                       \/ \E i \in Callers : inbox[t] \subseteq job'[i].prompts

\* Job j gets place p and prompts q, and keeps its session.
Wrote(j, p, q) ==
  /\ \A i \in Callers \ {j} : job'[i] = job[i]
  /\ job'[j].tok = job[j].tok /\ job'[j].pc = p /\ job'[j].prompts = q

\* Writing fields of one job.
LEMMA FieldsWritten ==
  ASSUME JobType, NEW j \in Callers, NEW p, NEW s, NEW q, NEW b
  PROVE  /\ job' = [job EXCEPT ![j].pc = p] => Wrote(j, p, job[j].prompts)
         /\ job' = [job EXCEPT ![j].pc = p, ![j].stat = s]
              => Wrote(j, p, job[j].prompts)
         /\ job' = [job EXCEPT ![j].pc = p, ![j].bridge = b]
              => Wrote(j, p, job[j].prompts)
         /\ job' = [job EXCEPT ![j].stat = s] => Wrote(j, job[j].pc, job[j].prompts)
         /\ job' = [job EXCEPT ![j].pc = p, ![j].prompts = q] => Wrote(j, p, q)
         /\ job' = [job EXCEPT ![j].pc = p, ![j].stat = s, ![j].prompts = q]
              => Wrote(j, p, q)
<1>1. job[j] \in JobRecords
  BY DEF JobType, JobRecords
<1>2. ASSUME NEW w, job' = [job EXCEPT ![j] = w], w.tok = job[j].tok
      PROVE  Wrote(j, w.pc, w.prompts)
  BY <1>2 DEF Wrote, JobType
<1>3. ASSUME job' = [job EXCEPT ![j].pc = p]
      PROVE  Wrote(j, p, job[j].prompts)
  <2>1. PICK u \in JobRecords : u = job[j]
    BY <1>1
  <2> DEFINE w == [u EXCEPT !.pc = p]
  <2>2. w.tok = u.tok /\ w.pc = p /\ w.prompts = u.prompts
    BY DEF JobRecords
  <2>3. job' = [job EXCEPT ![j] = w]
    BY <1>3, <2>1 DEF JobType
  <2> HIDE DEF w
  <2> QED
    BY <1>2, <2>1, <2>2, <2>3
<1>4. ASSUME job' = [job EXCEPT ![j].pc = p, ![j].stat = s]
      PROVE  Wrote(j, p, job[j].prompts)
  <2>1. PICK u \in JobRecords : u = job[j]
    BY <1>1
  <2> DEFINE w == [u EXCEPT !.pc = p, !.stat = s]
  <2>2. w.tok = u.tok /\ w.pc = p /\ w.prompts = u.prompts
    BY DEF JobRecords
  <2>3. job' = [job EXCEPT ![j] = w]
    BY <1>4, <2>1 DEF JobType
  <2> HIDE DEF w
  <2> QED
    BY <1>2, <2>1, <2>2, <2>3
<1>5. ASSUME job' = [job EXCEPT ![j].pc = p, ![j].bridge = b]
      PROVE  Wrote(j, p, job[j].prompts)
  <2>1. PICK u \in JobRecords : u = job[j]
    BY <1>1
  <2> DEFINE w == [u EXCEPT !.pc = p, !.bridge = b]
  <2>2. w.tok = u.tok /\ w.pc = p /\ w.prompts = u.prompts
    BY DEF JobRecords
  <2>3. job' = [job EXCEPT ![j] = w]
    BY <1>5, <2>1 DEF JobType
  <2> HIDE DEF w
  <2> QED
    BY <1>2, <2>1, <2>2, <2>3
<1>6. ASSUME job' = [job EXCEPT ![j].stat = s]
      PROVE  Wrote(j, job[j].pc, job[j].prompts)
  <2>1. PICK u \in JobRecords : u = job[j]
    BY <1>1
  <2> DEFINE w == [u EXCEPT !.stat = s]
  <2>2. w.tok = u.tok /\ w.pc = u.pc /\ w.prompts = u.prompts
    BY DEF JobRecords
  <2>3. job' = [job EXCEPT ![j] = w]
    BY <1>6, <2>1 DEF JobType
  <2> HIDE DEF w
  <2> QED
    BY <1>2, <2>1, <2>2, <2>3
<1>7. ASSUME job' = [job EXCEPT ![j].pc = p, ![j].prompts = q]
      PROVE  Wrote(j, p, q)
  <2>1. PICK u \in JobRecords : u = job[j]
    BY <1>1
  <2> DEFINE w == [u EXCEPT !.pc = p, !.prompts = q]
  <2>2. w.tok = u.tok /\ w.pc = p /\ w.prompts = q
    BY DEF JobRecords
  <2>3. job' = [job EXCEPT ![j] = w]
    BY <1>7, <2>1 DEF JobType
  <2> HIDE DEF w
  <2> QED
    BY <1>2, <2>1, <2>2, <2>3
<1>8. ASSUME job' = [job EXCEPT ![j].pc = p, ![j].stat = s, ![j].prompts = q]
      PROVE  Wrote(j, p, q)
  <2>1. PICK u \in JobRecords : u = job[j]
    BY <1>1
  <2> DEFINE w == [u EXCEPT !.pc = p, !.stat = s, !.prompts = q]
  <2>2. w.tok = u.tok /\ w.pc = p /\ w.prompts = q
    BY DEF JobRecords
  <2>3. job' = [job EXCEPT ![j] = w]
    BY <1>8, <2>1 DEF JobType
  <2> HIDE DEF w
  <2> QED
    BY <1>2, <2>1, <2>2, <2>3
<1> QED
  BY <1>3, <1>4, <1>5, <1>6, <1>7, <1>8

\* Job j keeps its prompts.
LEMMA JobMovesOn ==
  ASSUME JobType, NEW j \in Callers, NEW p, Wrote(j, p, job[j].prompts),
         UNCHANGED <<pc, tok, shown, refused, inbox>>,
         ran \subseteq ran', dropped \subseteq dropped',
         job[j].pc = "none" => p = "none",
         p \in Open => job[j].pc \in Open,
         p \in HasRun => job[j].pc \in HasRun \/ job[j].prompts \subseteq ran' \cup dropped'
  PROVE  JobsGoOn
<1>1. \A i \in Callers :
        job'[i].tok = job[i].tok /\ job'[i].prompts = job[i].prompts
        /\ job'[i].pc = IF i = j THEN p ELSE job[i].pc
  BY DEF Wrote
<1> QED
  BY <1>1 DEF JobsGoOn

\* Job j gives up its prompts.
LEMMA JobMovesOff ==
  ASSUME JobType, NEW j \in Callers, NEW p, NEW q, Wrote(j, p, q), p \notin HasRun,
         UNCHANGED <<pc, tok, shown, refused>>,
         ran \subseteq ran', dropped \subseteq dropped',
         job[j].pc # "none", p \in Open => job[j].pc \in Open,
         job[j].pc \in HasRun \/ job[j].prompts \subseteq q \cup dropped',
         \A t \in Tokens : inbox[t] \subseteq inbox'[t] \/ inbox[t] \subseteq q
  PROVE  JobsGoOn
<1>1. \A i \in Callers \ {j} : job'[i] = job[i]
  BY DEF Wrote
<1>2. job'[j].tok = job[j].tok /\ job'[j].pc = p /\ job'[j].prompts = q
  BY DEF Wrote
<1> QED
  BY <1>1, <1>2 DEF JobsGoOn

\* A job in another place has the same session and prompts.
LEMMA PlaceWritten ==
  ASSUME JobType, NEW p
  PROVE  \A i \in Callers :
           LET v == [job[i] EXCEPT !.pc = p]
           IN  v.tok = job[i].tok /\ v.prompts = job[i].prompts /\ v.pc = p
<1> SUFFICES ASSUME NEW i \in Callers
             PROVE  LET v == [job[i] EXCEPT !.pc = p]
                    IN  v.tok = job[i].tok /\ v.prompts = job[i].prompts /\ v.pc = p
  OBVIOUS
<1>1. PICK u \in JobRecords : u = job[i]
  BY DEF JobType, JobRecords
<1>2. LET v == [u EXCEPT !.pc = p]
      IN  v.tok = u.tok /\ v.prompts = u.prompts /\ v.pc = p
  BY DEF JobRecords
<1> QED
  BY <1>1, <1>2

\* What the steps of a job do to the jobs, the inboxes and the prompts.
LEMMA JobEffect ==
  ASSUME TypeInv, NEW j \in Callers,
         \/ Process(j) \/ SetupFails(j) \/ TurnFails(j) \/ KillWorker(j)
         \/ Reclaim(j) \/ LoseJob(j) \/ StatusExpires(j)
  PROVE  JobsGoOn
<1>0. JobType
  BY DEF TypeInv
<1>1. CASE TurnEnds(j) \/ TurnFails(j) \/ Finish(j) \/ Fail(j) \/ Undedup(j)
  <2>1. PICK p : /\ job[j].pc \in HasRun /\ p \in HasRun \ {"none", "turn"}
                 /\ job' = [job EXCEPT ![j].pc = p] /\ (p \in Open => job[j].pc \in Open)
    BY <1>1
    DEF TurnEnds, TurnFails, Finish, Fail, Undedup, JobGoto, HasRun, Open, Working,
        Waiting, InLoop
  <2>2. UNCHANGED <<pc, tok, prompts, inbox>>
    BY <1>1
    DEF TurnEnds, TurnFails, Finish, Fail, Undedup, store, locals, history
  <2>3. Wrote(j, p, job[j].prompts)
    BY <1>0, <2>1, FieldsWritten
  <2> QED
    BY <1>0, <2>1, <2>2, <2>3, JobMovesOn DEF prompts, HasRun
<1>2. CASE TakeJob(j) \/ Complete(j) \/ Reclaim(j)
  <2>1. PICK p, s : /\ job' = [job EXCEPT ![j].pc = p, ![j].stat = s]
                    /\ p \in Open => job[j].pc \in Open
                    /\ p \in HasRun => job[j].pc \in HasRun
                    /\ job[j].pc # "none"
    BY <1>2
    DEF TakeJob, Complete, Reclaim, HasRun, Open, Working, Waiting, InLoop
  <2>2. UNCHANGED <<pc, tok, prompts, inbox>>
    BY <1>2 DEF TakeJob, Complete, Reclaim, store, locals, history
  <2>3. Wrote(j, p, job[j].prompts)
    BY <1>0, <2>1, FieldsWritten
  <2> QED
    BY <1>0, <2>1, <2>2, <2>3, JobMovesOn DEF prompts
<1>3. CASE JobLock(j) \/ JobWaited(j)
  <2>1. PICK b : job' = [job EXCEPT ![j].pc = "turn", ![j].bridge = b]
    BY <1>3 DEF JobLock, JobWaited, EnterLoop
  <2>2. /\ UNCHANGED <<pc, tok, shown, refused, dropped, inbox>>
        /\ ran' = ran \cup job[j].prompts /\ job[j].pc \in Open /\ job[j].pc # "none"
    BY <1>3
    DEF JobLock, JobWaited, EnterLoop, locals, Open, Working, Waiting
  <2>3. Wrote(j, "turn", job[j].prompts)
    BY <1>0, <2>1, FieldsWritten
  <2> QED
    BY <1>0, <2>2, <2>3, JobMovesOn
<1>4. CASE SetupFails(j) \/ Rerun(j)
  <2>1. PICK p : job' = [job EXCEPT ![j].pc = p]
    BY <1>4 DEF SetupFails, Rerun, JobGoto
  <2>2. /\ UNCHANGED <<pc, tok, shown, refused, inbox>>
        /\ ran \subseteq ran' /\ dropped \subseteq dropped'
        /\ job[j].prompts \subseteq ran' \cup dropped'
        /\ job[j].pc \in Open /\ job[j].pc # "none"
    BY <1>4
    DEF SetupFails, Rerun, JobGoto, store, locals, Open, Working, Waiting, InLoop
  <2>3. Wrote(j, p, job[j].prompts)
    BY <1>0, <2>1, FieldsWritten
  <2> QED
    BY <1>0, <2>2, <2>3, JobMovesOn
<1>5. CASE StatusExpires(j)
  <2>1. /\ UNCHANGED <<pc, tok, prompts, inbox>> /\ job' = [job EXCEPT ![j].stat = "none"]
    BY <1>5 DEF StatusExpires, store, locals, history
  <2>2. Wrote(j, job[j].pc, job[j].prompts)
    BY <1>0, <2>1, FieldsWritten
  <2> QED
    BY <1>0, <2>1, <2>2, JobMovesOn DEF prompts
<1>6. CASE JobBusy(j)
  <2>1. /\ UNCHANGED <<pc, tok, prompts, inbox>> /\ job[j].pc = "setup"
        /\ job' = [Cancelled({wlock}) EXCEPT ![j].pc = "wait"]
    BY <1>6 DEF JobBusy, store, locals, history
  <2>2. \A i \in Callers :
          \/ job'[i] = job[i]
          \/ job[i].pc = "turn" /\ job'[i] = [job[i] EXCEPT !.pc = "complete"]
          \/ job[i].pc = "setup" /\ job'[i] = [job[i] EXCEPT !.pc = "wait"]
    BY <2>1 DEF Cancelled
  <2>3. \A i \in Callers :
          /\ job'[i].tok = job[i].tok /\ job'[i].prompts = job[i].prompts
          /\ \/ job'[i].pc = job[i].pc
             \/ job[i].pc = "turn" /\ job'[i].pc = "complete"
             \/ job[i].pc = "setup" /\ job'[i].pc = "wait"
    <3>1. \A i \in Callers :
            LET v == [job[i] EXCEPT !.pc = "complete"]
            IN  v.tok = job[i].tok /\ v.prompts = job[i].prompts /\ v.pc = "complete"
      BY <1>0, PlaceWritten, Zenon
    <3>2. \A i \in Callers :
            LET v == [job[i] EXCEPT !.pc = "wait"]
            IN  v.tok = job[i].tok /\ v.prompts = job[i].prompts /\ v.pc = "wait"
      BY <1>0, PlaceWritten, Zenon
    <3> SUFFICES ASSUME NEW i \in Callers
                 PROVE  /\ job'[i].tok = job[i].tok /\ job'[i].prompts = job[i].prompts
                        /\ \/ job'[i].pc = job[i].pc
                           \/ job[i].pc = "turn" /\ job'[i].pc = "complete"
                           \/ job[i].pc = "setup" /\ job'[i].pc = "wait"
      OBVIOUS
    <3>3. CASE job'[i] = job[i]
      BY <3>3
    <3>4. CASE job[i].pc = "turn" /\ job'[i] = [job[i] EXCEPT !.pc = "complete"]
      BY <3>1, <3>4, Zenon
    <3>5. CASE job[i].pc = "setup" /\ job'[i] = [job[i] EXCEPT !.pc = "wait"]
      BY <3>2, <3>5, Zenon
    <3> QED
      BY <2>2, <3>3, <3>4, <3>5
  <2> QED
    BY <2>1, <2>3
    DEF JobsGoOn, prompts, HasRun, Open, Working, Waiting, InLoop
<1>7. CASE Unlock(j) \/ LoseJob(j)
  <2>1. CASE Unlock(j)
    <3>1. /\ UNCHANGED <<pc, tok, prompts, inbox>> /\ job[j].pc = "unlock"
          /\ job' = [job EXCEPT ![j].pc = "done", ![j].prompts = {}]
      BY <2>1 DEF Unlock, locals, history
    <3>2. Wrote(j, "done", {})
      BY <1>0, <3>1, FieldsWritten
    <3> QED
      BY <1>0, <3>1, <3>2, JobMovesOff
      DEF prompts, HasRun, Open, Working, Waiting, InLoop
  <2>2. CASE LoseJob(j)
    <3>1. /\ UNCHANGED <<pc, tok, ran, shown, refused, inbox>> /\ job[j].pc # "none"
          /\ job' = [job EXCEPT ![j].pc = "lost", ![j].stat = "none", ![j].prompts = {}]
          /\ dropped' = dropped \cup job[j].prompts
      BY <2>2 DEF LoseJob, store, locals
    <3>2. Wrote(j, "lost", {})
      BY <1>0, <3>1, FieldsWritten
    <3> QED
      BY <1>0, <3>1, <3>2, JobMovesOff DEF HasRun, Open, Working, Waiting, InLoop
  <2> QED
    BY <1>7, <2>1, <2>2
<1>8. CASE KillWorker(j)
  <2> DEFINE finished == job[j].pc \in {"undedup", "unlock"}
             place == IF finished THEN "done" ELSE "dead"
             left == IF finished THEN {} ELSE {text[j]}
  <2>1. /\ UNCHANGED <<pc, tok, ran, shown, refused, inbox>>
        /\ job[j].pc \in Working \cup Closing
        /\ job' = [job EXCEPT ![j].pc = place, ![j].prompts = left]
        /\ dropped' = dropped \cup (job[j].prompts \ left)
    BY <1>8 DEF KillWorker, store, locals
  <2>2. /\ job[j].pc # "none" /\ place \notin HasRun
        /\ place \in Open => job[j].pc \in Open
    BY <2>1 DEF HasRun, Open, Working, Waiting, InLoop, Closing
  <2> HIDE DEF place, left
  <2>3. Wrote(j, place, left)
    BY <1>0, <2>1, FieldsWritten
  <2> QED
    BY <1>0, <2>1, <2>2, <2>3, JobMovesOff
<1>9. CASE Pop(j)
  <2>1. /\ UNCHANGED <<pc, tok, prompts>> /\ job[j].pc = "pop"
        /\ inbox' = [inbox EXCEPT ![job[j].tok] = {}]
    BY <1>9 DEF Pop, locals, history
  <2>2. CASE inbox[job[j].tok] = {}
    <3>1. /\ job' = [job EXCEPT ![j].pc = "finish"]
          /\ \A t \in Tokens : inbox'[t] = inbox[t]
      BY <1>9, <2>1, <2>2 DEF Pop, TypeInv, KeyType
    <3>2. Wrote(j, "finish", job[j].prompts)
      BY <1>0, <3>1, FieldsWritten
    <3>3. \A i \in Callers :
            /\ job'[i].tok = job[i].tok /\ job'[i].prompts = job[i].prompts
            /\ job'[i].pc = IF i = j THEN "finish" ELSE job[i].pc
      BY <3>2 DEF Wrote
    <3> QED
      BY <2>1, <3>1, <3>3
      DEF JobsGoOn, prompts, HasRun, Open, Working, InLoop
  <2>3. CASE inbox[job[j].tok] # {}
    <3>1. PICK q : q = inbox[job[j].tok]
      OBVIOUS
    <3>2. job' = [job EXCEPT ![j].pc = "rerun", ![j].prompts = q]
      BY <1>9, <2>3, <3>1 DEF Pop
    <3>3. Wrote(j, "rerun", q)
      BY <1>0, <3>2, FieldsWritten
    <3>4. \A t \in Tokens : inbox[t] \subseteq inbox'[t] \/ inbox[t] \subseteq q
      BY <2>1, <3>1 DEF TypeInv, KeyType
    <3> QED
      BY <1>0, <2>1, <3>3, <3>4, JobMovesOff
      DEF prompts, HasRun, Open, Working, InLoop
  <2> QED
    BY <2>2, <2>3
<1> QED
  BY <1>1, <1>2, <1>3, <1>4, <1>5, <1>6, <1>7, <1>8, <1>9 DEF Process

-----------------------------------------------------------------------------

\* Prompt c has had its turn or its end, waits in an inbox, or is a job's.
Accounted(c) ==
  \/ c \in ran \cup shown \cup refused \cup dropped
  \/ \E t \in Tokens : c \in inbox[t]
  \/ \E j \in Callers : c \in job[j].prompts

\* The callers that have handed their prompt on.
Settled == {"created", "injected", "queued", "forwarded", "left", "setjob",
            "signal", "release", "r_setjob", "r_push"}

\* Every prompt handed on is accounted for, and a job gives up its prompts only
\* after it ran or dropped them.
AccountInv ==
  /\ \A c \in Prompts : pc[c] \in Settled => Accounted(c)
  /\ \A j \in Callers : job[j].pc \in HasRun => job[j].prompts \subseteq ran \cup dropped

\* The history of the prompts only grows.
Recorded ==
  ran \subseteq ran' /\ shown \subseteq shown' /\ refused \subseteq refused'
  /\ dropped \subseteq dropped'

\* Prompts handed on stay where they are.
LEMMA AccountsKept ==
  ASSUME AccountInv, Recorded,
         \A t \in Tokens : inbox[t] \subseteq inbox'[t] \cup shown',
         \A j \in Callers : /\ job[j].prompts \subseteq job'[j].prompts
                            /\ job'[j].pc \in HasRun =>
                                 job[j].pc \in HasRun /\ job'[j].prompts = job[j].prompts,
         \A c \in Prompts : pc'[c] \in Settled => pc[c] \in Settled \/ Accounted(c)'
  PROVE  AccountInv'
<1>1. \A c \in Prompts : Accounted(c) => Accounted(c)'
  BY DEF Accounted, Recorded
<1>2. \A c \in Prompts : pc'[c] \in Settled => Accounted(c)'
  BY <1>1 DEF AccountInv
<1>3. \A j \in Callers : job'[j].pc \in HasRun => job'[j].prompts \subseteq ran' \cup dropped'
  BY DEF AccountInv, Recorded
<1> QED
  BY <1>2, <1>3 DEF AccountInv

\* The steps of a job lose no prompt.
LEMMA AccountsOfJobs ==
  ASSUME AccountInv, JobsGoOn PROVE AccountInv'
<1>1. \A i \in Callers : job[i].prompts \subseteq job'[i].prompts \cup ran' \cup dropped'
  BY DEF AccountInv, JobsGoOn
<1>2. ASSUME NEW c \in Prompts, Accounted(c) PROVE Accounted(c)'
  <2>1. CASE c \in ran \cup shown \cup refused \cup dropped
    BY <2>1 DEF JobsGoOn, Accounted
  <2>2. CASE \E t \in Tokens : c \in inbox[t]
    BY <2>2 DEF JobsGoOn, Accounted
  <2>3. CASE \E i \in Callers : c \in job[i].prompts
    BY <1>1, <2>3 DEF Accounted
  <2> QED
    BY <1>2, <2>1, <2>2, <2>3 DEF Accounted
<1>3. \A i \in Callers : job'[i].pc \in HasRun => job'[i].prompts \subseteq ran' \cup dropped'
  BY DEF AccountInv, JobsGoOn
<1> QED
  BY <1>2, <1>3 DEF AccountInv, JobsGoOn

\* Every step keeps every prompt that was handed on.
LEMMA AccountStep ==
  TypeInv /\ AccountInv /\ [Next]_vars => AccountInv'
<1> SUFFICES ASSUME TypeInv, AccountInv, [Next]_vars PROVE AccountInv'
  OBVIOUS
<1>0. /\ CallerType /\ CallerInv /\ JobType /\ JobInv
      /\ inbox \in [Tokens -> SUBSET Prompts] /\ Prompts \subseteq Callers
      /\ Tokens \subseteq Callers /\ Resumes \subseteq Callers
  BY DEF TypeInv, KeyType, Callers, Prompts, Tokens
<1>1. ASSUME NEW c \in Tokens, DedupPush(c) \/ QueuePush(c) \/ Inject(c) PROVE AccountInv'
  <2>1. /\ UNCHANGED <<job, prompts>> /\ PushInbox(c) /\ tok[c] \in Tokens
        /\ \E p : pc' = [pc EXCEPT ![c] = p]
    BY <1>0, <1>1
    DEF DedupPush, QueuePush, Inject, Goto, history, CallerType, CallerInv, WithToken
  <2>2. \A t \in Tokens : inbox[t] \subseteq inbox'[t]
    BY <1>0, <2>1 DEF PushInbox
  <2>3. c \in Prompts => c \in inbox'[tok[c]]
    BY <1>0, <2>1 DEF PushInbox, CallerInv
  <2>4. c \in Prompts => Accounted(c)'
    BY <2>1, <2>3 DEF Accounted
  <2>5. \A x \in Prompts \ {c} : pc'[x] = pc[x]
    BY <1>0, <2>1 DEF CallerType
  <2> QED
    BY <2>1, <2>2, <2>4, <2>5, AccountsKept DEF Recorded, prompts
<1>2. ASSUME NEW c \in Tokens, Signal(c) PROVE AccountInv'
  <2>1. /\ UNCHANGED <<inbox, prompts>> /\ job' = Cancelled(Callers)
        /\ pc[c] = "signal" /\ pc' = [pc EXCEPT ![c] = "injected"]
    BY <1>2 DEF Signal, Goto, store, history
  <2>2. \A i \in Callers :
          /\ job'[i].prompts = job[i].prompts
          /\ job'[i].pc \in HasRun => job[i].pc \in HasRun
    <3> SUFFICES ASSUME NEW i \in Callers
                 PROVE  /\ job'[i].prompts = job[i].prompts
                        /\ job'[i].pc \in HasRun => job[i].pc \in HasRun
      OBVIOUS
    <3>1. \/ job'[i] = job[i]
          \/ job[i].pc = "turn" /\ job'[i] = [job[i] EXCEPT !.pc = "complete"]
      BY <2>1 DEF Cancelled
    <3>2. LET v == [job[i] EXCEPT !.pc = "complete"]
          IN  v.tok = job[i].tok /\ v.prompts = job[i].prompts /\ v.pc = "complete"
      BY <1>0, PlaceWritten, Zenon
    <3> QED
      BY <3>1, <3>2 DEF HasRun
  <2>3. \A x \in Prompts : pc'[x] \in Settled => pc[x] \in Settled
    BY <1>0, <2>1 DEF CallerType, Settled
  <2> QED
    BY <2>1, <2>2, <2>3, AccountsKept DEF Recorded, prompts
<1>3. ASSUME NEW c \in Callers, NEW place \in {"none", "queued"}, NewJob(c, place),
             pc[c] \notin HasJob, UNCHANGED <<inbox, prompts>>,
             \E p : pc' = [pc EXCEPT ![c] = p]
      PROVE  AccountInv'
  <2>1. job[c].prompts = {} /\ (c \in Prompts => text[c] = c)
    BY <1>0, <1>3 DEF JobInv, CallerInv
  <2>2. /\ \A j \in Callers \ {c} : job'[j] = job[j]
        /\ job'[c].prompts = {text[c]} /\ job'[c].pc = place
    BY <1>0, <1>3 DEF NewJob, JobType
  <2>3. c \in Prompts => Accounted(c)'
    BY <2>1, <2>2 DEF Accounted
  <2>4. \A x \in Prompts \ {c} : pc'[x] = pc[x]
    BY <1>0, <1>3 DEF CallerType
  <2>5. \A j \in Callers : /\ job[j].prompts \subseteq job'[j].prompts
                           /\ job'[j].pc \in HasRun =>
                                job[j].pc \in HasRun /\ job'[j].prompts = job[j].prompts
    BY <2>1, <2>2 DEF HasRun
  <2> QED
    BY <1>3, <2>3, <2>4, <2>5, AccountsKept DEF Recorded, prompts
<1>4. ASSUME NEW c \in Tokens, CreateJob(c) PROVE AccountInv'
  <2>1. /\ NewJob(c, "queued") /\ pc[c] = "createjob" /\ UNCHANGED <<inbox, prompts>>
        /\ \E p : pc' = [pc EXCEPT ![c] = p]
    BY <1>4 DEF CreateJob, Goto, store, history
  <2> QED
    BY <1>0, <1>3, <2>1 DEF HasJob
<1>5. ASSUME NEW r \in Resumes, ResumeData(r) PROVE AccountInv'
  <2>1. /\ NewJob(r, "none") /\ pc[r] = "r_data" /\ UNCHANGED <<inbox, prompts>>
        /\ \E p : pc' = [pc EXCEPT ![r] = p]
    BY <1>5 DEF ResumeData, Goto, store, history
  <2> QED
    BY <1>0, <1>3, <2>1 DEF HasJob
<1>6. ASSUME NEW r \in Resumes, ResumePush(r) PROVE AccountInv'
  <2>1. /\ pc[r] = "r_push" /\ pc' = [pc EXCEPT ![r] = "release"]
        /\ UNCHANGED <<inbox, prompts>> /\ job' = [job EXCEPT ![r].pc = "queued"]
    BY <1>6 DEF ResumePush, Goto, store, history
  <2>2. Wrote(r, "queued", job[r].prompts)
    BY <1>0, <2>1, FieldsWritten, Zenon
  <2>3. \A j \in Callers : /\ job'[j].prompts = job[j].prompts
                           /\ job'[j].pc \in HasRun => job[j].pc \in HasRun
    BY <2>2 DEF Wrote, HasRun
  <2>4. \A x \in Prompts : pc'[x] \in Settled => pc[x] \in Settled
    BY <1>0, <2>1 DEF CallerType, Settled
  <2> QED
    BY <2>1, <2>3, <2>4, AccountsKept DEF Recorded, prompts
<1>7. ASSUME NEW r \in Resumes, ResumePop(r) PROVE AccountInv'
  <2>1. /\ pc' = [pc EXCEPT ![r] = "r_data"] /\ UNCHANGED <<job, ran, refused, dropped>>
        /\ inbox' = [inbox EXCEPT ![tok[r]] = {}] /\ shown' = shown \cup inbox[tok[r]]
    BY <1>7 DEF ResumePop, Goto
  <2>2. \A t \in Tokens : inbox[t] \subseteq inbox'[t] \cup shown'
    BY <1>0, <2>1
  <2>3. \A x \in Prompts : pc'[x] \in Settled => pc[x] \in Settled
    BY <1>0, <2>1 DEF CallerType, Settled
  <2> QED
    BY <2>1, <2>2, <2>3, AccountsKept DEF Recorded
<1>8. ASSUME NEW r \in Resumes, BrowserSends(r) PROVE AccountInv'
  <2>1. PICK t \in Tokens :
          \/ UNCHANGED <<inbox, refused>> /\ pc' = [pc EXCEPT ![r] = "acquire"]
          \/ inbox' = [inbox EXCEPT ![t] = @ \cup {r}] /\ UNCHANGED refused
             /\ pc' = [pc EXCEPT ![r] = "forwarded"]
          \/ UNCHANGED inbox /\ refused' = refused \cup {r}
             /\ pc' = [pc EXCEPT ![r] = "forwarded"]
    BY <1>8 DEF BrowserSends, Goto
  <2>2. UNCHANGED <<job, ran, shown, dropped>>
    BY <1>8 DEF BrowserSends
  <2>3. \A u \in Tokens : inbox[u] \subseteq inbox'[u]
    BY <1>0, <2>1
  <2>4. pc'[r] \in Settled => Accounted(r)'
    <3>1. pc'[r] = "acquire" \/ r \in inbox'[t] \/ r \in refused'
      BY <1>0, <2>1 DEF CallerType
    <3> QED
      BY <3>1 DEF Accounted, Settled
  <2>5. \A x \in Prompts \ {r} : pc'[x] = pc[x]
    BY <1>0, <2>1 DEF CallerType
  <2> QED
    BY <2>1, <2>2, <2>3, <2>4, <2>5, AccountsKept DEF Recorded
<1>9. ASSUME NEW r \in Resumes,
             \/ AcquireResume(r) \/ CheckResumable(r) \/ ResumeSetRun(r)
             \/ ResumeSetJob(r) \/ ReleaseResume(r) \/ ResumeFails(r)
      PROVE  AccountInv'
  <2>1. UNCHANGED <<job, inbox>> /\ Recorded
    BY <1>9
    DEF AcquireResume, CheckResumable, ResumeSetRun, ResumeSetJob, ReleaseResume,
        ResumeFails, Recorded, store, history, prompts
  <2>2. \A x \in Prompts \ {r} : pc'[x] = pc[x]
    BY <1>0, <1>9
    DEF AcquireResume, CheckResumable, ResumeSetRun, ResumeSetJob, ReleaseResume,
        ResumeFails, Goto, CallerType
  <2>3. pc'[r] \in Settled => pc[r] \in Settled \/ r \in refused' \cup dropped'
    BY <1>0, <1>9
    DEF AcquireResume, CheckResumable, ResumeSetRun, ResumeSetJob, ReleaseResume,
        ResumeFails, Goto, CallerType, Settled
  <2> QED
    BY <2>1, <2>2, <2>3, AccountsKept DEF Accounted
<1>10. ASSUME NEW c \in Tokens, Execute(c) \/ CoordinatorFails(c),
              ~DedupPush(c), ~QueuePush(c), ~Inject(c), ~Signal(c), ~CreateJob(c)
       PROVE  AccountInv'
  <2>1. UNCHANGED <<job, inbox>> /\ Recorded
    BY <1>10
    DEF Execute, CoordinatorFails, Prepare, Setnx, DedupActive, DedupFind,
        DedupDelete, Active, LockInfo, Orphan, OrphanGetJob, GetJob, OrphanStatus,
        OrphanError, MarkError, Find, SetRun, Create, SetJob, Reads, Recorded,
        store, history, prompts
  <2>2. \A x \in Prompts \ {c} : pc'[x] = pc[x]
    BY <1>0, <1>10
    DEF Execute, CoordinatorFails, Prepare, Setnx, DedupActive, DedupFind,
        DedupDelete, Active, LockInfo, Orphan, OrphanGetJob, GetJob, OrphanStatus,
        OrphanError, Find, SetRun, Create, SetJob, Goto, CallerType
  <2>3. pc'[c] \in Settled => pc[c] \in Settled
    BY <1>0, <1>10
    DEF Execute, CoordinatorFails, Prepare, Setnx, DedupActive, DedupFind,
        DedupDelete, Active, LockInfo, Orphan, OrphanGetJob, GetJob, OrphanStatus,
        OrphanError, Find, SetRun, Create, SetJob, Goto, CallerType, Settled
  <2> QED
    BY <2>1, <2>2, <2>3, AccountsKept
<1>11. ASSUME NEW w \in Sweeps, Sweep(w) \/ SweepFails(w) PROVE AccountInv'
  <2>1. UNCHANGED <<job, inbox>> /\ Recorded
    BY <1>11
    DEF Sweep, SweepFails, SweepStart, Scan, SweepGetJob, SweepStatus,
        SweepLockInfo, SweepError, MarkError, Reads, Recorded, store, history, prompts
  <2>2. \A x \in Callers \ {w} : pc'[x] = pc[x]
    BY <1>0, <1>11
    DEF Sweep, SweepFails, SweepStart, Scan, SweepGetJob, SweepStatus,
        SweepLockInfo, SweepError, PassOver, Goto, CallerType
  <2>3. w \notin Prompts
    BY StreamingAssumption DEF Prompts
  <2> QED
    BY <1>0, <2>1, <2>2, <2>3, AccountsKept
<1>12. ASSUME NEW j \in Callers,
              \/ Process(j) \/ SetupFails(j) \/ TurnFails(j) \/ KillWorker(j)
              \/ Reclaim(j) \/ LoseJob(j) \/ StatusExpires(j)
       PROVE  AccountInv'
  BY <1>12, JobEffect, AccountsOfJobs
<1>13. ASSUME \/ \E t \in Tokens : Age(t) \/ ResumeLockExpires(t)
              \/ DedupExpires \/ SweepLockExpires \/ WorktreeLockExpires
              \/ UNCHANGED vars
       PROVE  AccountInv'
  <2>1. UNCHANGED <<pc, job, inbox, prompts>>
    BY <1>13
    DEF Age, ResumeLockExpires, DedupExpires, SweepLockExpires,
        WorktreeLockExpires, vars, store, history
  <2> QED
    BY <2>1, AccountsKept DEF Recorded, prompts
<1> QED
  BY <1>1, <1>2, <1>4, <1>5, <1>6, <1>7, <1>8, <1>9, <1>10, <1>11, <1>12, <1>13
  DEF Next, Tokens, Resume

\* Every prompt that was accepted has run, waits in an inbox, belongs to a job
\* that is still to run, was only displayed, or went down with a process.
THEOREM NoPromptLost == Spec => []PromptsAccounted
<1>1. Init => AccountInv
  <2> SUFFICES ASSUME Init PROVE AccountInv
    OBVIOUS
  <2>1. \A j \in Callers : pc[j] = "new" /\ job[j].pc = "none"
    BY DEF Init, NoJob
  <2> QED
    BY <2>1 DEF AccountInv, Settled, HasRun, Prompts, Callers
<1>2. AccountInv => PromptsAccounted
  BY DEF AccountInv, Accounted, Settled, PromptsAccounted
<1> QED
  BY <1>1, <1>2, TypeInvariant, AccountStep, PTL DEF Spec

-----------------------------------------------------------------------------

\* The sweep has found no job, and has not yet marked the session.
Judging == {"s_lock", "s_error"}

\* The callers that are about to create a job of their session.
Near == {"createjob", "r_pop", "r_data", "r_setjob", "r_push"}

\* Session t has a job that is not completed, or is about to get one.
Coming(t) ==
  \/ \E j \in Callers : job[j].tok = t /\ job[j].pc \in Open
  \/ \E c \in Callers : tok[c] = t /\ pc[c] \in Near

\* A resume's job belongs to the session it resumes; and a session that a sweep
\* is about to mark has no job and gets none, unless the sweep was outrun or blind.
SpareInv ==
  /\ \A r \in Resumes : pc[r] \in {"r_setjob", "r_push"} => job[r].tok = tok[r]
  /\ \A w \in Sweeps :
       pc[w] \in Judging /\ w \notin restarted \cup blind => ~Coming(tok[w])

\* A step that gives a session a job outruns the sweeps that judge it.
LEMMA SpareMoves ==
  ASSUME \A i \in Callers, t \in Tokens :
           job'[i].pc \in Open /\ job'[i].tok = t => Coming(t),
         \A c \in Callers, t \in Tokens :
           pc'[c] \in Near /\ tok'[c] = t => Coming(t) \/ Outrun(t) \subseteq restarted',
         \A r \in Resumes : pc'[r] \in {"r_setjob", "r_push"} => job'[r].tok = tok'[r],
         \A w \in Sweeps :
           pc'[w] \in Judging /\ w \notin restarted' \cup blind' =>
             /\ tok'[w] = tok[w] /\ tok[w] \in Tokens /\ pc[w] \in Sweeping
             /\ ~Coming(tok[w])
  PROVE  SpareInv'
<1> SUFFICES ASSUME NEW w \in Sweeps, pc'[w] \in Judging, w \notin restarted' \cup blind',
                    Coming(tok[w])'
             PROVE  FALSE
  BY DEF SpareInv
<1>1. PICK t \in Tokens : t = tok[w] /\ t = tok'[w] /\ ~Coming(t) /\ w \in Outrun(t)
  BY DEF Outrun
<1>2. \/ \E j \in Callers : job'[j].tok = t /\ job'[j].pc \in Open
      \/ \E c \in Callers : tok'[c] = t /\ pc'[c] \in Near
  BY <1>1 DEF Coming
<1> QED
  BY <1>1, <1>2

\* One caller moves, and no job becomes open.
LEMMA SpareKept ==
  ASSUME TypeInv, SpareInv, NEW c \in Callers,
         \A x \in Callers \ {c} : pc'[x] = pc[x] /\ tok'[x] = tok[x],
         \A i \in Callers : job'[i].tok = job[i].tok /\ (job'[i].pc \in Open => job[i].pc \in Open),
         restarted \subseteq restarted' \cup {c}, blind \subseteq blind' \cup {c},
         pc'[c] \in Judging => /\ pc[c] \in Judging /\ tok'[c] = tok[c]
                               /\ restarted \subseteq restarted' /\ blind \subseteq blind',
         pc'[c] \in Near => \/ pc[c] \in Near /\ tok'[c] = tok[c]
                            \/ tok'[c] = None
                            \/ Outrun(tok'[c]) \subseteq restarted',
         pc'[c] \in {"r_setjob", "r_push"} => /\ pc[c] \in {"r_setjob", "r_push"}
                                              /\ tok'[c] = tok[c]
  PROVE  SpareInv'
<1>0. /\ Sweeps \subseteq Callers /\ Resumes \subseteq Callers /\ None \notin Tokens
      /\ Judging \subseteq Sweeping
  BY StreamingAssumption DEF Callers, Tokens, Judging, Sweeping
<1>1. \A i \in Callers, t \in Tokens :
        job'[i].pc \in Open /\ job'[i].tok = t => Coming(t)
  BY DEF Coming
<1>2. \A x \in Callers, t \in Tokens :
        pc'[x] \in Near /\ tok'[x] = t => Coming(t) \/ Outrun(t) \subseteq restarted'
  BY <1>0 DEF Coming
<1>3. \A r \in Resumes : pc'[r] \in {"r_setjob", "r_push"} => job'[r].tok = tok'[r]
  BY <1>0 DEF SpareInv
<1>4. \A w \in Sweeps :
        pc'[w] \in Judging /\ w \notin restarted' \cup blind' =>
          pc[w] \in Judging /\ w \notin restarted \cup blind /\ tok'[w] = tok[w]
  BY <1>0
<1>5. \A w \in Sweeps : pc[w] \in Judging => tok[w] \in Tokens
  BY <1>0 DEF TypeInv, CallerType, CallerInv, WithToken, Judging
<1> QED
  BY <1>0, <1>1, <1>2, <1>3, <1>4, <1>5, SpareMoves DEF SpareInv

\* Every step spares the sessions the sweeps may not mark.
LEMMA SpareStep ==
  TypeInv /\ SpareInv /\ [Next]_vars => SpareInv'
<1> SUFFICES ASSUME TypeInv, SpareInv, [Next]_vars PROVE SpareInv'
  OBVIOUS
<1>0. /\ CallerType /\ CallerInv /\ JobType /\ Judging \subseteq Sweeping
      /\ Tokens \subseteq Callers /\ Resumes \subseteq Callers /\ Sweeps \subseteq Callers
      /\ Sweeps \subseteq Tokens /\ Tokens \cap Resumes = {} /\ None \notin Tokens
  BY StreamingAssumption DEF TypeInv, Callers, Tokens, Judging, Sweeping
<1>1. \A w \in Sweeps : pc[w] \in Sweeping \ {"scan"} => tok[w] \in Tokens
  BY <1>0 DEF CallerType, CallerInv, WithToken, Sweeping
<1>2. ASSUME NEW c \in Tokens, CreateJob(c) PROVE SpareInv'
  <2>1. /\ NewJob(c, "queued") /\ pc[c] = "createjob" /\ UNCHANGED <<tok, restarted, blind>>
        /\ \/ pc' = [pc EXCEPT ![c] = "created"] \/ pc' = [pc EXCEPT ![c] = "setjob"]
    BY <1>2 DEF CreateJob, Goto, locals, history, excuses
  <2>2. /\ \A x \in Callers \ {c} : pc'[x] = pc[x] /\ job'[x] = job[x]
        /\ pc'[c] \in {"created", "setjob"} /\ job'[c].tok = tok[c]
    BY <1>0, <2>1 DEF CallerType, NewJob, JobType
  <2>3. \A t \in Tokens : tok[c] = t => Coming(t)
    BY <1>0, <2>1 DEF Coming, Near
  <2>4. \A i \in Callers, t \in Tokens :
          job'[i].pc \in Open /\ job'[i].tok = t => Coming(t)
    BY <2>2, <2>3 DEF Coming
  <2>5. \A x \in Callers, t \in Tokens : pc'[x] \in Near /\ tok'[x] = t => Coming(t)
    BY <2>1, <2>2 DEF Coming, Near
  <2>6. \A w \in Sweeps : pc'[w] \in Judging => pc[w] \in Judging
    BY <1>0, <2>2 DEF Judging
  <2>7. \A r \in Resumes : pc'[r] \in {"r_setjob", "r_push"} => job'[r].tok = tok'[r]
    BY <1>0, <2>1, <2>2 DEF SpareInv
  <2>8. \A w \in Sweeps : pc[w] \in Judging => tok[w] \in Tokens
    BY <1>1 DEF Judging, Sweeping
  <2> QED
    BY <1>0, <2>1, <2>4, <2>5, <2>6, <2>7, <2>8, SpareMoves DEF SpareInv
<1>3. ASSUME NEW r \in Resumes, ResumeData(r) \/ ResumePush(r) PROVE SpareInv'
  <2>1. UNCHANGED <<tok, restarted, blind>> /\ pc[r] \in Near
        /\ \E p \in {"r_setjob", "release"} : pc' = [pc EXCEPT ![r] = p]
    BY <1>3 DEF ResumeData, ResumePush, Goto, locals, history, excuses, Near
  <2>2. /\ \A x \in Callers \ {r} : pc'[x] = pc[x] /\ job'[x] = job[x]
        /\ job'[r].tok = tok[r]
    <3>1. CASE ResumeData(r)
      BY <1>0, <3>1 DEF ResumeData, Goto, CallerType, NewJob, JobType
    <3>2. CASE ResumePush(r)
      <4>1. job' = [job EXCEPT ![r].pc = "queued"] /\ pc[r] = "r_push"
        BY <3>2 DEF ResumePush, Goto
      <4>2. Wrote(r, "queued", job[r].prompts)
        BY <1>0, <4>1, FieldsWritten, Zenon
      <4>3. job[r].tok = tok[r]
        BY <4>1 DEF SpareInv
      <4> QED
        BY <1>0, <2>1, <4>2, <4>3 DEF Wrote, CallerType
    <3> QED
      BY <1>3, <3>1, <3>2
  <2>3. \A t \in Tokens : tok[r] = t => Coming(t)
    BY <1>0, <2>1 DEF Coming
  <2>4. \A i \in Callers, t \in Tokens :
          job'[i].pc \in Open /\ job'[i].tok = t => Coming(t)
    BY <2>2, <2>3 DEF Coming
  <2>5. \A x \in Callers, t \in Tokens : pc'[x] \in Near /\ tok'[x] = t => Coming(t)
    BY <2>1, <2>2, <2>3 DEF Coming
  <2>6. \A w \in Sweeps : pc'[w] = pc[w]
    BY <1>0, <2>2
  <2>7. \A q \in Resumes : pc'[q] \in {"r_setjob", "r_push"} => job'[q].tok = tok'[q]
    BY <1>0, <2>1, <2>2 DEF SpareInv
  <2>8. \A w \in Sweeps : pc[w] \in Judging => tok[w] \in Tokens
    BY <1>1 DEF Judging, Sweeping
  <2> QED
    BY <1>0, <2>1, <2>4, <2>5, <2>6, <2>7, <2>8, SpareMoves DEF SpareInv
<1>4. ASSUME NEW w \in Sweeps, SweepGetJob(w) \/ SweepStatus(w), pc'[w] = "s_lock"
      PROVE  SpareInv'
  <2>1. /\ UNCHANGED <<tok, job, restarted>> /\ pc' = [pc EXCEPT ![w] = "s_lock"]
        /\ pc[w] \in {"s_getjob", "s_jobstatus"}
        /\ blind' = IF Unfinished(tok[w]) THEN blind \cup {w} ELSE blind
    BY <1>0, <1>4
    DEF SweepGetJob, SweepStatus, PassOver, Goto, locals, history, excuses, CallerType
  <2>2. ~Unfinished(tok[w]) => ~Coming(tok[w])
    BY DEF Unfinished, Coming, Near, Resuming
  <2>3. \A x \in Callers \ {w} : pc'[x] = pc[x]
    BY <1>0, <2>1 DEF CallerType
  <2>4. \A i \in Callers, t \in Tokens :
          job'[i].pc \in Open /\ job'[i].tok = t => Coming(t)
    BY <2>1 DEF Coming
  <2>5. \A x \in Callers, t \in Tokens : pc'[x] \in Near /\ tok'[x] = t => Coming(t)
    BY <1>4, <2>1, <2>3 DEF Coming, Near
  <2>6. \A r \in Resumes : pc'[r] \in {"r_setjob", "r_push"} => job'[r].tok = tok'[r]
    BY <1>0, <2>1, <2>3 DEF SpareInv
  <2>7. \A v \in Sweeps : pc'[v] \in Judging => pc[v] \in Sweeping \ {"scan"}
    BY <1>0, <2>1, <2>3 DEF Judging, Sweeping
  <2>8. \A v \in Sweeps :
          pc'[v] \in Judging /\ v \notin restarted' \cup blind' => ~Coming(tok[v])
    BY <1>0, <2>1, <2>2, <2>3 DEF SpareInv
  <2> QED
    BY <1>1, <2>1, <2>4, <2>5, <2>6, <2>7, <2>8, SpareMoves
<1>5. ASSUME NEW w \in Sweeps, Sweep(w) \/ SweepFails(w),
             ~((SweepGetJob(w) \/ SweepStatus(w)) /\ pc'[w] = "s_lock")
      PROVE  SpareInv'
  <2>1. job' = job
    BY <1>5
    DEF Sweep, SweepFails, SweepStart, Scan, SweepGetJob, SweepStatus,
        SweepLockInfo, SweepError, MarkError, Reads
  <2>2. \A x \in Callers \ {w} : pc'[x] = pc[x] /\ tok'[x] = tok[x]
    BY <1>0, <1>5
    DEF Sweep, SweepFails, SweepStart, Scan, SweepGetJob, SweepStatus,
        SweepLockInfo, SweepError, MarkError, PassOver, Goto, locals, CallerType
  <2>3. restarted \subseteq restarted' \cup {w} /\ blind \subseteq blind' \cup {w}
    BY <1>5
    DEF Sweep, SweepFails, SweepStart, Scan, SweepGetJob, SweepStatus,
        SweepLockInfo, SweepError, MarkError, PassOver, Reads, history, excuses
  <2>4. pc'[w] \in Judging => /\ pc[w] \in Judging /\ tok'[w] = tok[w]
                              /\ restarted \subseteq restarted' /\ blind \subseteq blind'
    BY <1>0, <1>5
    DEF Sweep, SweepFails, SweepStart, Scan, SweepGetJob, SweepStatus,
        SweepLockInfo, SweepError, MarkError, PassOver, Goto, locals, CallerType,
        Judging, history, excuses
  <2>5. pc'[w] \notin Near
    BY <1>0, <1>5
    DEF Sweep, SweepFails, SweepStart, Scan, SweepGetJob, SweepStatus,
        SweepLockInfo, SweepError, PassOver, Goto, CallerType, Near
  <2>6. w \in Callers /\ {"r_setjob", "r_push"} \subseteq Near
    BY <1>0 DEF Near
  <2> QED
    BY <2>1, <2>2, <2>3, <2>4, <2>5, <2>6, SpareKept
<1>6. ASSUME NEW c \in Tokens, Signal(c) PROVE SpareInv'
  <2>1. /\ job' = Cancelled(Callers) /\ UNCHANGED <<tok, restarted, blind>>
        /\ pc' = [pc EXCEPT ![c] = "injected"]
    BY <1>6 DEF Signal, Goto, locals, history, excuses
  <2>2. \A i \in Callers :
          job'[i].tok = job[i].tok /\ (job'[i].pc \in Open => job[i].pc \in Open)
    <3> SUFFICES ASSUME NEW i \in Callers
                 PROVE  /\ job'[i].tok = job[i].tok
                        /\ job'[i].pc \in Open => job[i].pc \in Open
      OBVIOUS
    <3>1. \/ job'[i] = job[i]
          \/ job[i].pc = "turn" /\ job'[i] = [job[i] EXCEPT !.pc = "complete"]
      BY <2>1 DEF Cancelled
    <3>2. LET v == [job[i] EXCEPT !.pc = "complete"]
          IN  v.tok = job[i].tok /\ v.prompts = job[i].prompts /\ v.pc = "complete"
      BY <1>0, PlaceWritten, Zenon
    <3> QED
      BY <3>1, <3>2 DEF Open, Working, InLoop
  <2>3. /\ \A x \in Callers \ {c} : pc'[x] = pc[x]
        /\ pc'[c] \notin Judging \cup Near \cup {"r_setjob", "r_push"}
    BY <1>0, <2>1 DEF CallerType, Judging, Near
  <2> QED
    BY <1>0, <2>1, <2>2, <2>3, SpareKept
<1>7. ASSUME NEW c \in Tokens, Execute(c) \/ CoordinatorFails(c),
             ~CreateJob(c), ~Signal(c)
      PROVE  SpareInv'
  <2>1. job' = job /\ restarted \subseteq restarted' /\ blind' = blind
    BY <1>7
    DEF Execute, CoordinatorFails, Prepare, Setnx, DedupActive, DedupFind,
        DedupPush, DedupDelete, Active, LockInfo, Orphan, OrphanGetJob, GetJob,
        OrphanStatus, OrphanError, MarkError, QueuePush, Inject, Find, SetRun,
        SetRunning, Create, CreateSession, SetJob, Reads, history, excuses
  <2>2. \A x \in Callers \ {c} : pc'[x] = pc[x] /\ tok'[x] = tok[x]
    BY <1>0, <1>7
    DEF Execute, CoordinatorFails, Prepare, Setnx, DedupActive, DedupFind,
        DedupPush, DedupDelete, Active, LockInfo, Orphan, OrphanGetJob, GetJob,
        OrphanStatus, OrphanError, MarkError, QueuePush, Inject, Find, SetRun,
        Create, SetJob, Goto, locals, CallerType
  <2>3. /\ pc'[c] \notin Judging \cup {"r_setjob", "r_push"}
        /\ pc'[c] \in Near => tok'[c] = None \/ (Create(c) /\ tok'[c] = tok[c])
    BY <1>0, <1>7
    DEF Execute, CoordinatorFails, Prepare, Setnx, DedupActive, DedupFind,
        DedupPush, DedupDelete, Active, LockInfo, Orphan, OrphanGetJob, GetJob,
        OrphanStatus, OrphanError, MarkError, QueuePush, Inject, Find, SetRun,
        Create, SetJob, Goto, locals, CallerType, Near, Judging
  <2>4. Create(c) => Outrun(tok[c]) \subseteq restarted'
    BY DEF Create, CreateSession
  <2>5. Create(c) /\ tok'[c] = tok[c] => Outrun(tok'[c]) \subseteq restarted'
    BY <2>4
  <2> QED
    BY <1>0, <2>1, <2>2, <2>3, <2>5, SpareKept
<1>8. ASSUME NEW r \in Resumes, BrowserSends(r) \/ Resume(r) \/ ResumeFails(r),
             ~ResumeData(r), ~ResumePush(r)
      PROVE  SpareInv'
  <2>1. job' = job /\ restarted \subseteq restarted' /\ blind' = blind
    BY <1>8
    DEF BrowserSends, Resume, ResumeFails, AcquireResume, CheckResumable,
        ResumeSetRun, SetRunning, ResumePop, ResumeSetJob, ReleaseResume,
        history, excuses
  <2>2. \A x \in Callers \ {r} : pc'[x] = pc[x] /\ tok'[x] = tok[x]
    BY <1>0, <1>8
    DEF BrowserSends, Resume, ResumeFails, AcquireResume, CheckResumable,
        ResumeSetRun, ResumePop, ResumeSetJob, ReleaseResume, Goto, locals,
        CallerType
  <2>3. /\ pc'[r] \notin Judging
        /\ pc'[r] \in Near => tok'[r] = tok[r] /\ (pc[r] \in Near \/ ResumeSetRun(r))
        /\ pc'[r] \in {"r_setjob", "r_push"} =>
             pc[r] \in {"r_setjob", "r_push"} /\ tok'[r] = tok[r]
    BY <1>0, <1>8
    DEF BrowserSends, Resume, ResumeFails, AcquireResume, CheckResumable,
        ResumeSetRun, ResumePop, ResumeSetJob, ReleaseResume, Goto, locals,
        CallerType, Near, Judging
  <2>4. ResumeSetRun(r) => Outrun(tok[r]) \subseteq restarted'
    BY DEF ResumeSetRun, SetRunning
  <2>5. ResumeSetRun(r) /\ tok'[r] = tok[r] => Outrun(tok'[r]) \subseteq restarted'
    BY <2>4
  <2> QED
    BY <1>0, <2>1, <2>2, <2>3, <2>5, SpareKept
<1>9. ASSUME NEW j \in Callers,
             \/ Process(j) \/ SetupFails(j) \/ TurnFails(j) \/ KillWorker(j)
             \/ Reclaim(j) \/ LoseJob(j) \/ StatusExpires(j)
      PROVE  SpareInv'
  <2>1. JobsGoOn
    BY <1>9, JobEffect
  <2>2. restarted \subseteq restarted' /\ blind' = blind
    BY <1>9
    DEF Process, SetupFails, TurnFails, KillWorker, Reclaim, LoseJob,
        StatusExpires, TakeJob, JobLock, JobBusy, JobWaited, EnterLoop, TurnEnds,
        Pop, Rerun, SetRunning, Finish, Fail, Complete, Undedup, Unlock,
        history, excuses
  <2>3. UNCHANGED <<pc, tok>> /\ \A i \in Callers :
          job'[i].tok = job[i].tok /\ (job'[i].pc \in Open => job[i].pc \in Open)
    BY <2>1 DEF JobsGoOn
  <2> QED
    BY <2>2, <2>3, SpareKept
<1>10. ASSUME \/ \E t \in Tokens : Age(t) \/ ResumeLockExpires(t)
              \/ DedupExpires \/ SweepLockExpires \/ WorktreeLockExpires
              \/ UNCHANGED vars
       PROVE  SpareInv'
  <2>1. UNCHANGED <<pc, tok, job, restarted, blind>>
    BY <1>10
    DEF Age, ResumeLockExpires, DedupExpires, SweepLockExpires,
        WorktreeLockExpires, vars, locals, history, excuses
  <2> QED
    BY <2>1 DEF SpareInv, Coming
<1> QED
  BY <1>2, <1>3, <1>4, <1>5, <1>6, <1>7, <1>8, <1>9, <1>10 DEF Next, Tokens

\* The sweep never marks a session with a live job as failed, unless the session
\* was set running after the scan or the check could not see its job.
THEOREM LiveSessionsSpared == Spec => SweepSparesLive
<1>1. Init => SpareInv
  BY DEF Init, SpareInv, Judging, Callers
<1>2. SpareInv => [\A w \in Sweeps :
                     pc[w] = "s_error" /\ pc'[w] = "process" /\ LiveJob(tok[w])
                       => w \in restarted \cup blind]_vars
  BY DEF SpareInv, Judging, Coming, LiveJob, Open
<1> QED
  BY <1>1, <1>2, TypeInvariant, SpareStep, PTL DEF Spec, SweepSparesLive

=============================================================================
