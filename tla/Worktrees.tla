----------------------------- MODULE Worktrees -----------------------------
(***************************************************************************)
(* The git worktree of one conversation: jobs that reuse or create it      *)
(* (reuse_or_create_worktree, configure_git) one at a time under the       *)
(* worktree lock, the cleanup requests a sandbox worker pops, which take   *)
(* no lock, and the orphan sweep.                                          *)
(*                                                                         *)
(* One action is one git command or one removal of files.  A git command   *)
(* may fail (bounded by MaxFails); except for "worktree add" and the       *)
(* validity test of configure_git the code goes on regardless.             *)
(***************************************************************************)
EXTENDS Naturals, FiniteSets

CONSTANTS
  Jobs,
  Cleanups,    \* kinds of requests that come: subset of {"thread", "branch"}
  NoJob,
  MaxFails     \* bound: failing git commands and dying jobs

TreesAssumption ==
  NoJob \notin Jobs /\ Cleanups \subseteq {"thread", "branch"} /\ MaxFails \in Nat

VARIABLES
  dir,         \* the worktree's directory: absent, valid or broken
  registered,  \* git knows the worktree
  head,        \* its HEAD: detached, or on a branch the agent made
  holder,      \* the worktree lock
  tpc,         \* where each job is
  resumes,     \* session_mode is resume or continue
  creds,       \* jobs whose credential file exists
  mapped,      \* session:map of the conversation
  archived,    \* its transcript was copied to the archive
  todo,        \* agent:worktree:cleanup
  cpc,         \* where the worker that handles a cleanup request is
  kind,        \* the request it handles
  sweeper,     \* _orphan_cleanup_loop
  pulled,      \* history: jobs whose worktree a cleanup removed under them
  refused,     \* history: jobs for which git failed to prune or to add
  fails

treeVars == <<dir, registered, head, holder, tpc, resumes, creds, mapped, archived,
              todo, cpc, kind, sweeper, pulled, refused, fails>>

InTree  == {"check", "fetch", "remove", "files", "prune", "add", "fallback",
            "configure", "work", "save"}

TreesTypeOK ==
  /\ dir \in {"absent", "valid", "broken"}
  /\ registered \in BOOLEAN /\ head \in {"detached", "branch"}
  /\ holder \in Jobs \cup {NoJob}
  /\ tpc \in [Jobs -> InTree \cup {"new", "failed", "ended", "dead"}]
  /\ resumes \in [Jobs -> BOOLEAN]
  /\ creds \subseteq Jobs /\ mapped \in BOOLEAN /\ archived \in BOOLEAN
  /\ todo \subseteq Cleanups /\ cpc \in {"idle", "archive", "test", "git", "files", "close"}
  /\ kind \in {"thread", "branch"}
  /\ sweeper \in {"start", "returned"}
  /\ pulled \subseteq Jobs /\ refused \subseteq Jobs /\ fails \in 0..MaxFails

TreesInit ==
  /\ dir = "absent" /\ registered = FALSE /\ head = "detached" /\ holder = NoJob
  /\ tpc = [j \in Jobs |-> "new"] /\ resumes \in [Jobs -> BOOLEAN]
  /\ creds = {} /\ mapped = FALSE /\ archived = FALSE
  /\ todo = Cleanups /\ cpc = "idle" /\ kind = "thread" /\ sweeper = "start"
  /\ pulled = {} /\ refused = {} /\ fails = 0

-----------------------------------------------------------------------------
(* A job: _setup_worktree with its lock, reuse_or_create_worktree.         *)

tree    == <<dir, registered, head>>
cleaner == <<todo, cpc, kind, sweeper>>

Advance(j, from, to) == tpc[j] = from /\ tpc' = [tpc EXCEPT ![j] = to]
GitFails == fails < MaxFails /\ fails' = fails + 1

AcquireTree(j) ==
  /\ holder = NoJob /\ holder' = j
  /\ Advance(j, "new", "check")
  /\ UNCHANGED <<tree, resumes, creds, mapped, archived, cleaner, pulled, refused, fails>>

\* The three cases at the top of reuse_or_create_worktree.
Check(j) ==
  /\ Advance(j, "check", IF dir = "absent" THEN "prune"
                         ELSE IF resumes[j] THEN "fetch" ELSE "remove")
  /\ UNCHANGED <<tree, holder, resumes, creds, mapped, archived, cleaner, pulled,
                 refused, fails>>

\* _fetch_and_checkout: fetch, checkout and merge may all fail quietly; an
\* invalid repository raises, and the worktree is made anew.
Fetch(j) ==
  /\ Advance(j, "fetch", CASE dir = "valid" -> "configure"
                           [] dir = "broken" -> "remove"
                           [] dir = "absent" -> "prune")
  /\ \/ head' = (IF dir = "valid" THEN "detached" ELSE head) /\ UNCHANGED fails
     \/ dir = "valid" /\ GitFails /\ UNCHANGED head
  /\ UNCHANGED <<dir, registered, holder, resumes, creds, mapped, archived, cleaner,
                 pulled, refused>>

\* git worktree remove --force
RemoveTree ==
  /\ registered' = FALSE
  /\ dir' = IF registered THEN "absent" ELSE dir

RemoveOld(j) ==
  /\ Advance(j, "remove", "files")
  /\ \/ RemoveTree /\ UNCHANGED fails
     \/ GitFails /\ UNCHANGED <<dir, registered>>
  /\ UNCHANGED <<head, holder, resumes, creds, mapped, archived, cleaner, pulled, refused>>

RemoveFiles(j) ==
  /\ Advance(j, "files", "prune")
  /\ dir' = "absent"
  /\ UNCHANGED <<registered, head, holder, resumes, creds, mapped, archived, cleaner,
                 pulled, refused, fails>>

\* Mutant: stale registrations stay.
PruneNothing(j) ==
  /\ Advance(j, "prune", "add")
  /\ UNCHANGED <<tree, holder, resumes, creds, mapped, archived, cleaner, pulled,
                 refused, fails>>

\* git worktree prune forgets a worktree whose directory is missing.
Prune(j) ==
  /\ Advance(j, "prune", "add")
  /\ \/ /\ registered' = (registered /\ dir # "absent")
        /\ UNCHANGED <<refused, fails>>
     \/ GitFails /\ refused' = refused \cup {j} /\ UNCHANGED registered
  /\ UNCHANGED <<dir, head, holder, resumes, creds, mapped, archived, cleaner, pulled>>

\* git worktree add --detach, on the ref and then on the default branch: it
\* wants a path that is neither on disk nor registered, and a ref that exists.
AddTree(j, from, otherwise) ==
  /\ tpc[j] = from
  /\ \/ /\ dir = "absent" /\ ~registered
        /\ dir' = "valid" /\ registered' = TRUE /\ head' = "detached"
        /\ tpc' = [tpc EXCEPT ![j] = "configure"]
        /\ UNCHANGED <<refused, fails>>
     \/ /\ dir # "absent" \/ registered
        /\ tpc' = [tpc EXCEPT ![j] = otherwise]
        /\ UNCHANGED <<tree, refused, fails>>
     \/ /\ GitFails /\ refused' = refused \cup {j}
        /\ tpc' = [tpc EXCEPT ![j] = otherwise]
        /\ UNCHANGED tree
  /\ UNCHANGED <<holder, resumes, creds, mapped, archived, cleaner, pulled>>

Add(j)      == AddTree(j, "add", "fallback")
Fallback(j) == AddTree(j, "fallback", "failed")

\* configure_git: not a repository, and the job fails.
Configure(j) ==
  /\ Advance(j, "configure", IF dir = "valid" THEN "work" ELSE "failed")
  /\ creds' = IF dir = "valid" THEN creds \cup {j} ELSE creds
  /\ UNCHANGED <<tree, holder, resumes, mapped, archived, cleaner, pulled, refused, fails>>

\* The agent's turns; it may check out a branch.
Work(j) ==
  /\ Advance(j, "work", "save")
  /\ head' \in IF dir = "valid" THEN {head, "branch"} ELSE {head}
  /\ UNCHANGED <<dir, registered, holder, resumes, creds, mapped, archived, cleaner,
                 pulled, refused, fails>>

\* _save_session, then _cleanup: the lock and the credential file go, the
\* worktree of a persistent session stays.
Save(j) ==
  /\ Advance(j, "save", "ended")
  /\ mapped' = TRUE /\ holder' = NoJob /\ creds' = creds \ {j}
  /\ UNCHANGED <<tree, resumes, archived, cleaner, pulled, refused, fails>>

\* A job that failed goes through _cleanup too.
JobCleanup(j) ==
  /\ tpc[j] = "failed" /\ holder = j
  /\ holder' = NoJob /\ creds' = creds \ {j}
  /\ UNCHANGED <<tree, tpc, resumes, mapped, archived, cleaner, pulled, refused, fails>>

\* A killed job keeps its file, and its lock until that expires; killed in
\* "worktree add" it may leave half a worktree.
JobDies(j) ==
  /\ tpc[j] \in InTree /\ GitFails
  /\ tpc' = [tpc EXCEPT ![j] = "dead"]
  /\ \/ /\ tpc[j] = "add" /\ dir = "absent" /\ ~registered
        /\ dir' = "broken" /\ registered' \in BOOLEAN
     \/ UNCHANGED <<dir, registered>>
  /\ UNCHANGED <<head, holder, resumes, creds, mapped, archived, cleaner, pulled, refused>>

LockExpires ==
  /\ holder \in Jobs /\ tpc[holder] = "dead" /\ holder' = NoJob
  /\ UNCHANGED <<tree, tpc, resumes, creds, mapped, archived, cleaner, pulled, refused,
                 fails>>

-----------------------------------------------------------------------------
(* _process_cleanup_requests.                                              *)

job == <<holder, tpc, resumes, creds>>
Go(from, to) == cpc = from /\ cpc' = to

CleanupPop ==
  /\ \E k \in todo :
       /\ Go("idle", IF k = "thread" THEN "archive" ELSE "test")
       /\ kind' = k /\ todo' = todo \ {k}
  /\ UNCHANGED <<tree, job, mapped, archived, sweeper, pulled, refused, fails>>

\* archive_transcript for the sessions of the thread; thread_dir.exists().
Archive ==
  /\ Go("archive", IF dir = "absent" THEN "close" ELSE "git")
  /\ archived' = (archived \/ mapped)
  /\ UNCHANGED <<tree, job, mapped, todo, kind, sweeper, pulled, refused, fails>>

\* cleanup_worktrees_by_branch compares the branch with the name of HEAD.
BranchTest ==
  /\ Go("test", IF dir = "valid" /\ head = "branch" THEN "git" ELSE "idle")
  /\ UNCHANGED <<tree, job, mapped, archived, todo, kind, sweeper, pulled, refused, fails>>

Pulled == IF dir' = dir \/ holder = NoJob THEN pulled ELSE pulled \cup {holder}

\* _deregister_worktree: its failure is logged.
Deregister ==
  /\ Go("git", "files")
  /\ \/ RemoveTree /\ UNCHANGED fails
     \/ GitFails /\ UNCHANGED <<dir, registered>>
  /\ pulled' = Pulled
  /\ UNCHANGED <<head, job, mapped, archived, todo, kind, sweeper, refused>>

CleanFiles ==
  /\ Go("files", IF kind = "thread" THEN "close" ELSE "idle")
  /\ dir' = "absent"
  /\ pulled' = Pulled
  /\ UNCHANGED <<registered, head, job, mapped, archived, todo, kind, sweeper, refused,
                 fails>>

\* close_session
Close ==
  /\ Go("close", "idle")
  /\ mapped' = FALSE
  /\ UNCHANGED <<tree, job, archived, todo, kind, sweeper, pulled, refused, fails>>

\* The record's TTL.
RecordExpires ==
  /\ mapped /\ mapped' = FALSE
  /\ UNCHANGED <<tree, job, archived, cleaner, pulled, refused, fails>>

\* main starts the loop before the queue's first use has connected it: the
\* client it hands over is None, and the loop returns.
OrphanLoop ==
  /\ sweeper = "start" /\ sweeper' = "returned"
  /\ UNCHANGED <<tree, job, mapped, archived, todo, cpc, kind, pulled, refused, fails>>

JobNext(j) ==
  \/ AcquireTree(j) \/ Check(j) \/ Fetch(j) \/ RemoveOld(j) \/ RemoveFiles(j) \/ Prune(j)
  \/ Add(j) \/ Fallback(j) \/ Configure(j) \/ Work(j) \/ Save(j) \/ JobCleanup(j)

CleanerNext ==
  CleanupPop \/ Archive \/ BranchTest \/ Deregister \/ CleanFiles \/ Close

TreesNext ==
  \/ \E j \in Jobs : JobNext(j) \/ JobDies(j)
  \/ LockExpires \/ CleanerNext \/ RecordExpires \/ OrphanLoop

TreesSpec == TreesInit /\ [][TreesNext]_treeVars

\* Every worker goes on, locks and records expire, the loop is started.
TreesFairness ==
  /\ \A j \in Jobs : WF_treeVars(JobNext(j))
  /\ WF_treeVars(LockExpires) /\ WF_treeVars(CleanerNext)
  /\ WF_treeVars(RecordExpires) /\ WF_treeVars(OrphanLoop)

-----------------------------------------------------------------------------
(* Properties.                                                             *)

\* Whatever earlier jobs and cleanups left behind (half a worktree, files
\* without a registration, a registration without files), the agent works in a
\* valid checkout that git knows, and reuse_or_create_worktree fails only when
\* git's prune or add does; a cleanup request may still remove the worktree
\* under the job.
WorktreeReady ==
  \A j \in Jobs :
    /\ tpc[j] = "work" => (dir = "valid" /\ registered) \/ j \in pulled
    /\ tpc[j] = "failed" => j \in refused \cup pulled

\* _orphan_cleanup_loop: "Periodically scan for and remove orphan worktrees."
Orphan == dir # "absent" /\ ~mapped /\ holder = NoJob
OrphansRemoved == Orphan ~> ~Orphan

=============================================================================
