----------------------------- MODULE Scheduler -----------------------------
(* The scheduler service: instances that each derive the same cron job     *)
(* from workflows.yaml, share a dedup lock in Redis, and publish one       *)
(* request per repository and tick; one-shot jobs that agents ask for; and *)
(* the hot reload of the configuration.                                    *)
(*                                                                         *)
(* One scheduled workflow on repos ["*"].  Time is counted in minutes, the *)
(* precision of the lock's key.  The installation walk returns one page    *)
(* per repository; a page that fails ends the walk with what it has.       *)
EXTENDS Integers, Sequences, FiniteSets, SequencesExt

CONSTANTS Instances,
          Installed,   \* repositories of the installation, in page order
          Calls,       \* calls of the schedule_one_shot_task tool
          TickAt,      \* minute of the cron tick
          Ttl,         \* TRIGGER_DEDUP_TTL_SECONDS = MISFIRE_GRACE_SECONDS, in minutes
          NoTick,
          MaxMinute, MaxFailures \* bounds

SchedAssumption ==
  /\ Installed \in Seq(Range(Installed))
  /\ MaxMinute \in Nat /\ TickAt \in 0 .. MaxMinute /\ Ttl \in Nat /\ MaxFailures \in Nat

VARIABLES minute,
          cron,     \* has the instance a registered cron job?
          due,      \* the instance's tick that has come and has not fired yet
          task,     \* trigger_workflow of the instance: where it stands
          stamp,    \* timestamp_str of the running trigger_workflow
          rest,     \* repositories it has still to serve
          lock,     \* scheduler:lock:<repo>:<stamp>, as the minute it expires
          history,  \* scheduler:runs:<repo>: the runs recorded
          cache,    \* _installation_repos_cache
          store,    \* one-shot jobs in the instance's in-memory job store
          call,     \* a tool call: "new", "asked", "ok", "failed"
          sent,     \* history: published ticks
          overrun,  \* history: a lock was asked for a stamp older than the TTL
          failures

schedVars == <<minute, cron, due, task, stamp, rest, lock, history, cache, store, call,
               sent, overrun, failures>>

Repos == Range(Installed)
Stamps == 0 .. MaxMinute
Sends == [tick : Stamps, repo : Repos, stamp : Stamps, by : Instances]

SchedTypeOK ==
  /\ minute \in Stamps
  /\ cron \in [Instances -> BOOLEAN] /\ due \in [Instances -> Stamps \cup {NoTick}]
  /\ task \in [Instances -> {"idle", "resolve", "lock", "record", "publish"}]
  /\ stamp \in [Instances -> Stamps]
  /\ rest \in [Instances -> Seq(Repos)]
  /\ lock \in [Repos \X Stamps -> 0 .. MaxMinute + Ttl]
  /\ history \subseteq Repos \X Stamps
  /\ cache \in [Instances -> SUBSET Repos]
  /\ store \in [Instances -> SUBSET Calls] /\ call \in [Calls -> {"new", "asked", "ok", "failed"}]
  /\ sent \subseteq Sends /\ overrun \in BOOLEAN /\ failures \in 0 .. MaxFailures

SchedInit ==
  /\ minute = 0 /\ cron = [i \in Instances |-> TRUE]
  /\ due = [i \in Instances |-> NoTick] /\ task = [i \in Instances |-> "idle"]
  /\ stamp = [i \in Instances |-> 0] /\ rest = [i \in Instances |-> <<>>]
  /\ lock = [k \in Repos \X Stamps |-> 0]
  /\ history = {} /\ cache = [i \in Instances |-> {}]
  /\ store = [i \in Instances |-> {}] /\ call = [c \in Calls |-> "new"]
  /\ sent = {} /\ overrun = FALSE /\ failures = 0

SchedFault == failures < MaxFailures /\ failures' = failures + 1

\* A minute passes.  The tick comes to every instance with its cron job.
PassMinute ==
  /\ minute < MaxMinute /\ minute' = minute + 1
  /\ due' = [i \in Instances |->
               IF minute' = TickAt /\ cron[i] THEN TickAt ELSE due[i]]
  /\ UNCHANGED <<cron, task, stamp, rest, lock, history, cache, store, call, sent,
                 overrun, failures>>

\* A busy loop recovers its tick within misfire_grace_time and runs
\* trigger_workflow, whose workflow is there and enabled.
TriggerWorkflow(i) ==
  /\ due[i] # NoTick /\ minute - due[i] <= Ttl /\ task[i] = "idle"
  /\ task' = [task EXCEPT ![i] = "resolve"]
  /\ due' = [due EXCEPT ![i] = NoTick]
  /\ UNCHANGED <<minute, cron, stamp, rest, lock, history, cache, store, call, sent,
                 overrun, failures>>

\* A later tick is a misfire and is dropped.
Misfire(i) ==
  /\ due[i] # NoTick /\ minute - due[i] > Ttl
  /\ due' = [due EXCEPT ![i] = NoTick]
  /\ UNCHANGED <<minute, cron, task, stamp, rest, lock, history, cache, store, call, sent,
                 overrun, failures>>

\* get_installation_repositories: every page, or the pages before one that
\* failed.
Walk(repos) ==
  \/ repos = Installed /\ UNCHANGED failures
  \/ SchedFault /\ \E n \in 0 .. Len(Installed) - 1 : repos = SubSeq(Installed, 1, n)

\* _resolve_repositories, then the lock's timestamp: the minute in which the
\* walk ended, not the minute of the tick.
ResolveRepositories(i) ==
  /\ task[i] = "resolve"
  /\ \E n \in 0 .. Len(Installed) :
       LET repos == SubSeq(Installed, 1, n) IN
       /\ Walk(repos)
       /\ rest' = [rest EXCEPT ![i] = repos]
       /\ task' = [task EXCEPT ![i] = IF repos = <<>> THEN "idle" ELSE "lock"]
  /\ stamp' = [stamp EXCEPT ![i] = minute]
  /\ UNCHANGED <<minute, cron, due, lock, history, cache, store, call, sent, overrun>>

\* The loop's next repository, or its end.
NextRepo(i) ==
  /\ rest' = [rest EXCEPT ![i] = Tail(@)]
  /\ task' = [task EXCEPT ![i] = IF Tail(rest[i]) = <<>> THEN "idle" ELSE "lock"]

\* Mutant: SET without NX.
AcquireUnlocked(i) ==
  /\ task[i] = "lock" /\ task' = [task EXCEPT ![i] = "record"]
  /\ overrun' = (overrun \/ minute >= stamp[i] + Ttl)
  /\ UNCHANGED <<minute, cron, due, stamp, rest, lock, history, cache, store, call, sent,
                 failures>>

\* SET NX EX on the lock of this workflow, repository and minute: the holder
\* goes on, another instance skips the repository.
AcquireMinute(i) ==
  LET key == <<Head(rest[i]), stamp[i]>> IN
  /\ task[i] = "lock"
  /\ \/ /\ lock[key] > minute /\ NextRepo(i) /\ UNCHANGED lock
     \/ /\ lock[key] <= minute /\ lock' = [lock EXCEPT ![key] = minute + Ttl]
        /\ task' = [task EXCEPT ![i] = "record"] /\ UNCHANGED rest
  /\ overrun' = (overrun \/ minute >= stamp[i] + Ttl)
  /\ UNCHANGED <<minute, cron, due, stamp, history, cache, store, call, sent, failures>>

\* The SET raises, outside the try: trigger_workflow ends with the repositories
\* that are left unserved.
AcquireFails(i) ==
  /\ task[i] = "lock" /\ SchedFault
  /\ task' = [task EXCEPT ![i] = "idle"] /\ rest' = [rest EXCEPT ![i] = <<>>]
  /\ UNCHANGED <<minute, cron, due, stamp, lock, history, cache, store, call, sent, overrun>>

\* scheduler:last_run and scheduler:runs (LPUSH, LTRIM to the last runs) are
\* written before the request is published.
Record(i) ==
  /\ task[i] = "record" /\ task' = [task EXCEPT ![i] = "publish"]
  /\ history' = history \cup {<<Head(rest[i]), stamp[i]>>}
  /\ UNCHANGED <<minute, cron, due, stamp, rest, lock, cache, store, call, sent, overrun,
                 failures>>

PublishTick(i) ==
  /\ task[i] = "publish"
  /\ sent' = sent \cup {[tick |-> TickAt, repo |-> Head(rest[i]), stamp |-> stamp[i], by |-> i]}
  /\ NextRepo(i)
  /\ UNCHANGED <<minute, cron, due, stamp, lock, history, cache, store, call, overrun, failures>>

\* An error of either is logged; the lock stays, so this repository misses
\* the tick on every instance, and the loop goes on.
PublishTickFails(i) ==
  /\ task[i] \in {"record", "publish"} /\ SchedFault /\ NextRepo(i)
  /\ UNCHANGED <<minute, cron, due, stamp, lock, history, cache, store, call, sent, overrun>>

-----------------------------------------------------------------------------
(* Hot reload and restart.                                                 *)

\* watch_workflows_config finds another mtime: load_schedules removes every
\* job, the one-shot jobs too, and registers the cron job anew for its next
\* tick.  A tick that was due is gone.
LoadSchedules(i) ==
  /\ SchedFault
  /\ cron' = [cron EXCEPT ![i] = TRUE] /\ due' = [due EXCEPT ![i] = NoTick]
  /\ store' = [store EXCEPT ![i] = {}]
  /\ UNCHANGED <<minute, task, stamp, rest, lock, history, cache, call, sent, overrun>>

\* The edited file does not parse: the jobs are removed before the engine is
\* built, the error is logged, and the mtime is not noted, so that the next
\* poll tries again.
LoadFails(i) ==
  /\ SchedFault
  /\ cron' = [cron EXCEPT ![i] = FALSE] /\ due' = [due EXCEPT ![i] = NoTick]
  /\ store' = [store EXCEPT ![i] = {}]
  /\ UNCHANGED <<minute, task, stamp, rest, lock, history, cache, call, sent, overrun>>

\* Five seconds later, with the file mended.
Reload(i) ==
  /\ ~cron[i] /\ cron' = [cron EXCEPT ![i] = TRUE]
  /\ UNCHANGED <<minute, due, task, stamp, rest, lock, history, cache, store, call, sent,
                 overrun, failures>>

\* stop, or a crash, then start: only Redis survives.
RestartScheduler(i) ==
  /\ SchedFault
  /\ cron' = [cron EXCEPT ![i] = TRUE] /\ due' = [due EXCEPT ![i] = NoTick]
  /\ task' = [task EXCEPT ![i] = "idle"] /\ rest' = [rest EXCEPT ![i] = <<>>]
  /\ cache' = [cache EXCEPT ![i] = {}] /\ store' = [store EXCEPT ![i] = {}]
  /\ UNCHANGED <<minute, stamp, lock, history, call, sent, overrun>>

-----------------------------------------------------------------------------
(* One-shot jobs.                                                          *)

\* schedule_one_shot_task: without a repository, or with a run_at or delay it
\* cannot read, the tool refuses the call itself.
ToolCall(c) ==
  /\ call[c] = "new"
  /\ \E p \in {"asked", "failed"} : call' = [call EXCEPT ![c] = p]
  /\ UNCHANGED <<minute, cron, due, task, stamp, rest, lock, history, cache, store, sent,
                 overrun, failures>>

\* POST /schedule/one-shot is refused before the repository is looked up: the
\* token, the run_at or the workflow is not acceptable.
RefuseOneShot(c) ==
  /\ call[c] = "asked" /\ call' = [call EXCEPT ![c] = "failed"]
  /\ UNCHANGED <<minute, cron, due, task, stamp, rest, lock, history, cache, store, sent,
                 overrun, failures>>

\* add_job with a DateTrigger and a job id of its own.
AddOneShot(c, i) == store' = [store EXCEPT ![i] = @ \cup {c}]

\* The answer of 200 reaches the tool, or its timeout comes first and it
\* reports a failure; the fallback address has no scheduler.
CallSchedulerApi(c) == \E p \in {"ok", "failed"} : call' = [call EXCEPT ![c] = p]

\* The repository r is in scope if the cached installation list, or a fresh
\* walk (cached unless it is empty), has it.
ScheduleOneShot(c, i, r) ==
  /\ call[c] = "asked"
  /\ \E n \in 0 .. Len(Installed) :
       LET known == IF cache[i] # {} THEN cache[i] ELSE Range(SubSeq(Installed, 1, n)) IN
       /\ IF cache[i] # {} THEN n = 0 /\ UNCHANGED failures ELSE Walk(SubSeq(Installed, 1, n))
       /\ cache' = [cache EXCEPT ![i] = known]
       /\ IF r \in known THEN AddOneShot(c, i) /\ CallSchedulerApi(c)
          ELSE call' = [call EXCEPT ![c] = "failed"] /\ UNCHANGED store
  /\ UNCHANGED <<minute, cron, due, task, stamp, rest, lock, history, sent, overrun>>

\* The cached list is older than INSTALLATION_REPOS_TTL.
CacheExpires(i) ==
  /\ cache[i] # {} /\ cache' = [cache EXCEPT ![i] = {}]
  /\ UNCHANGED <<minute, cron, due, task, stamp, rest, lock, history, store, call, sent,
                 overrun, failures>>

\* trigger_one_shot_workflow: the job leaves the store and is published, or
\* the failure is logged.
TriggerOneShot(c, i) ==
  /\ c \in store[i] /\ store' = [store EXCEPT ![i] = @ \ {c}]
  /\ UNCHANGED <<minute, cron, due, task, stamp, rest, lock, history, cache, call, sent,
                 overrun, failures>>

SchedNext ==
  \/ PassMinute
  \/ \E c \in Calls : ToolCall(c) \/ RefuseOneShot(c)
  \/ \E i \in Instances :
       \/ TriggerWorkflow(i) \/ Misfire(i) \/ ResolveRepositories(i) \/ AcquireMinute(i)
       \/ AcquireFails(i)
       \/ Record(i) \/ PublishTick(i) \/ PublishTickFails(i)
       \/ LoadSchedules(i) \/ LoadFails(i) \/ Reload(i) \/ RestartScheduler(i) \/ CacheExpires(i)
       \/ \E c \in Calls : TriggerOneShot(c, i) \/ \E r \in Repos : ScheduleOneShot(c, i, r)

SchedSpec == SchedInit /\ [][SchedNext]_schedVars

-----------------------------------------------------------------------------
(* Properties.                                                             *)

\* However many instances run, two requests of one tick for a repository carry
\* different minute stamps (a tick recovered in a later minute has another
\* lock), unless some trigger_workflow was still walking its repositories when
\* the lock of its own stamp had run out.
OnePerStamp ==
  \/ overrun
  \/ \A a, b \in sent : a.repo = b.repo /\ a.stamp = b.stamp => a.by = b.by
=============================================================================
