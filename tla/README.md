# A TLA+ model of the Claude Code GitHub agent

The repository is a set of Python services that turn GitHub webhooks into runs
of the Claude Agent SDK. The services share one Redis instance and a few
directories, and nothing else: every agreement between them is a sequence of
single Redis commands with an `await` between any two. This project models those
sequences, model-checks them with TLC and proves their safety properties, and the
refinement of the queue's contract, with TLAPS. Paths below are relative to `src/`.

## 1. The system

### Data flow

    GitHub -> webhook -> agent-requests -> coordinator (agent_worker)
                 |            ^               |  session, dedup key, sync request,
                 | push    scheduler          |  job
                 v                            v
          agent:sync:requests           agent:jobs:pending
                 |                            |
             repo_sync  --events, keys-->  sandbox_executor  <--> browser, via
           (bare clones)                 (worktree, SDK loop)     session_service
                                              |
                                   memory and retrospector queues, Langfuse

### Inventory

| Component (source) | State | Operations | What must hold |
|---|---|---|---|
| Job queue (`shared/job_queue.py`) | pending list, processing set, data/status/backup/result keys with TTLs, dead-letter list | `create_job`, `get_next_job`, `complete_job`, `reclaim_stale_jobs` | one copy of a job, run once, recoverable after a crash, truthful status, nothing lost, nothing stuck |
| Sandbox worker (`services/sandbox_executor/sandbox_worker.py`) | none of its own | reclaim, cleanup requests, pull, process; orphan loop | survives errors; orphans are removed |
| Job processor (`services/sandbox_executor/processor.py`) | phase, SDK turn, events, inbox of the session | `process`: lock, setup, SDK loop, save, complete, cleanup | one run per worktree, follow-ups are not lost, every run ends and cleans up |
| Worktree lock (`shared/worktree_lock.py`) | lock key with TTL, pending-prompt slot, cancel channel | acquire, release, wait, signal | mutual exclusion, release by the owner only |
| Control channel and stream (`shared/session_stream.py`) | pub/sub subscriptions, capped history | interrupt, inject, publish | a message is stored once, a connected browser misses none |
| Coordinator (`services/agent_worker/`) | session dedup key, recovery-sweep lock | dedup, inject or queue a follow-up, create session and job, recover stale sessions | one creator per thread, no live session recovered, no dead one left |
| Session store (`shared/session_store.py`) | records, session hashes, lookup keys, inboxes, TTLs | create, find, status changes, inbox, close, expire | a session is found, no key lives for ever |
| Session service (`services/session_service/`) | resume lock with a nonce, websocket tasks, subscriber counters | resume, websocket | one resume at a time, every message accounted for |
| Repo sync (`services/repo_sync/sync_worker.py`, `wait_for_repo_sync` in `shared/queue.py`) | request list, lock, completion keys, events, bare clone | clone or fetch, publish; wait | one git at a time in a clone, a job finds a finished clone, waits end |
| Webhook (`services/webhook/`, `shared/webhook_dedup.py`) | delivery claims with TTL | claim, route, publish, release | a delivery is queued once, a failed one can be retried |
| Workflow engine, flags, payload (`workflows/engine.py`, `payload_extractor.py`) | event and command tables | match, filter, resolve ref and thread | a delivery starts what the configuration says, on the right ref |
| Scheduler (`services/scheduler/`, `mcp_servers/scheduler/`) | APScheduler jobs, minute locks, installation cache | load, hot reload, trigger, one-shot | one request per repository and minute |
| Rate limiter (`shared/rate_limiter.py`) | sliding window per key | acquire of both backends | the limit holds in every window |
| Worktree manager (`shared/worktree_manager.py`) | directories, git registrations | reuse, create, prune, clean up | a job gets a clean worktree, not one removed under it |
| SDK executor (`shared/sdk_executor.py`) | message pump, in-flight tasks, pending result | stream, close, retry, time out | not closed while the agent still owes something |
| Post-processing, DLQ, memory and retrospector workers | buffer, two lists, two DLQs | capture, flush, pop, process, retry | one job per transcript and event, bounded retries, nothing lost |
| Transcript and Langfuse hooks (`shared/transcript_writer.py`, `hooks/langfuse_hook.py`) | transcripts, `langfuse_state.json` and its lock | append, copy, read, emit, save | a turn is traced once, no line skipped |
| Others: GitHub tokens, thread history, repository map, MCP proxy and servers, configuration, plugins, browser client | mostly none | formatting, parsing, forwarding | see section 8 |

### What is hard here

* **Separate commands.** Almost no operation on Redis is a transaction (a session's
  creation and the rate limiter's count are); a killed process, an exception or another
  process may come between any two commands.
* **TTLs as failure detectors.** A job is taken for abandoned when its data key
  has expired, a lock for free when its key has. Neither is renewed while the
  owner is alive.
* **Pub/sub.** Cancel signals, stream messages and sync events reach only who is
  subscribed at that moment.
* **Check, then act.** Locks are seen free and then acquired, channels are
  subscribed to after the state was read, the inbox is found empty before the
  listener is stopped, a session is looked up before it is created.
* **Partial completion.** Completion, reclaim, close, publication to several
  workflows and cleanup are several steps of which any may be the last.

`PROJECT.json` lists these as hazards, each at its line, with the properties
that would catch it.

## 2. Modules

| Module | Models | Checked by |
|---|---|---|
| `JobQueue` | the job queue under the coordinator and the worker loop | `MCJobQueue`, `MCLiveness` |
| `JobLife` | abstract: what a caller of the queue may rely on, by job id and status | refined by `JobQueue` |
| `JobProcessor` | runs of the job processor on one worktree, the worktree lock, the control channel, follow-ups | `MCJobProcessor` |
| `RepoSync` | the sync of one repository: requests, sync workers, waiting jobs | `MCRepoSync`, `MCLiveness` |
| `StreamingSession` | the sessions of one thread: webhook requests in the coordinator, the recovery sweep, browser resumes, the jobs they create, the dedup, resume, sweep and worktree locks | `MCStreamingSession`, `MCLiveness` |
| `BrowserFeed` | publication of a session's messages, its history and the browsers' websockets | `MCComponents` |
| `SessionKeys` | the Redis keys of one session and their TTLs under requests, a job, close and expire | `MCComponents` |
| `Worktrees` | one worktree: jobs that make and use it, cleanup requests, the orphan loop | `MCComponents`, `MCWorktrees` |
| `SdkTurn` | one `execute_sdk`: the CLI, background tasks, retries and time-outs | `MCComponents` |
| `WebhookDelivery` | deliveries with GitHub's redeliveries, claims, publication | `MCComponents` |
| `EventRouting` | from a delivery to its jobs: commands, flags, triggers, filters, ref, thread type | `MCComponents` |
| `BackgroundWorkers` | hooks and the buffer of a run, the flush, both workers with retries and DLQs | `MCComponents` |
| `Scheduler` | scheduler instances, minute locks, the repository walk, hot reload, one-shot jobs | `MCComponents` |
| `RateLimiter` | both backends with concurrent callers and a clock | `MCComponents` |
| `TranscriptTrace` | transcripts, the transcript hook and concurrent Langfuse hook processes | `MCComponents` |
| `Subsequences` | what a loop that skips entries of a list leaves of it; used by `EventRouting`, `BackgroundWorkers`, `TranscriptTrace` | `MCComponents` |
| `JobQueueProofs`, `JobProcessorProofs`, `RepoSyncProofs`, `StreamingSessionProofs` | theorems about the module of that name | tlapm |
| `KeyProofs` | theorems about `WebhookDelivery`, `RateLimiter`, `SessionKeys` and `Scheduler` | tlapm |
| `ObserverProofs` | theorems about `BrowserFeed` and `TranscriptTrace` | tlapm |
| `JobPathProofs` | theorems about `EventRouting`, `Worktrees`, `SdkTurn` and `BackgroundWorkers` | tlapm |
| `ComponentsProofs` | theorems about `MCComponents`: it implements each of its components | tlapm |

One action is one Redis command (or one git command, or one event of the asyncio
loop) together with the local code up to the next one. A TTL is an action that may
remove its key at any time. A crash returns a process to its start and leaves
Redis as it is. Variables marked *history* are not in the program; properties use
them to say "unless ... has happened". In the other modules' view a component is an
input: `StreamingSession` for example has a job as `queued`, `running` or over,
which is what `JobLife` grants, and `JobQueue` is shown to implement `JobLife`.

**JobQueue.** `creation[j]` is how far `create_job` has got; `data`, `status`,
`pending`, `processing`, `backup`, `results`, `deadLetter` are the Redis keys and
collections; `pc[w]`, `job[w]`, `todo[w]` are a worker's position, its job, and the
snapshot of the processing set it is going through. `Abandon` is a killed worker
or an error that leaves `get_next_job`; `CompleteFails` an error in `complete_job`,
after which `_handle_error` calls it once more (`final`). The `:ts` key is never read
by the code and is left out. The refinement (`LifeOf`) maps a job to `new`, `queued`,
`taken`, `running` or `over` from `creation`, `pending`, `started` and `results`, its
status to itself and `expired` to `late`.

**JobProcessor.** All runs have the same worktree. `lock` is the job id in the
lock's key and `owner` (history) the run that wrote it; `pendingPrompt` is the slot;
`inbox` the session's follow-ups; `current[r]` the prompts of the run's turn. `mail`
is the set of runs the cancel message has reached; `ctl[r]`, `ctlMail[r]` are the
control channel of a streaming run. `LeaveTurn`, `Supersede`, `AutoContinue`,
`LeaveLoop` follow the code after a turn in order. Git, the setup commands and
context generation are `Prepare` or `PrepareFails`.

**RepoSync.** `upstream` and `cache` count the commits of each ref at GitHub and in
the bare clone; `dir` is absent, partial or ok. `queue`, `complete`, `lock` are the
Redis keys; `spc`, `sref` a sync worker; `pc`, `mail`, `late` a waiting job. The
time-out is looked at only when a message arrives, as in the code; `ReadTimeout` is
the Redis client's `socket_timeout`.

**StreamingSession.** A thread has one lookup key and, over time, several sessions
named after the caller that made them. `dedup`, `lookup`, `sess`, `jobKey`, `inbox`,
`resumeLock`, `wlock` and `sweepLock` are the Redis keys; `pc[c]` the place of a
caller (a webhook request, a pass of the sweep that calls `process` itself, or a
browser's resume); `text`, `ran`, `shown`, `refused`, `dropped` (history) follow every
prompt. `Age` lets a session's `last_run` become older than
`STREAMING_SESSION_STALE_SECONDS`. A job is *open* (`Open`) until `complete_job` has
stored its status, so also while its worker is dead and nobody has reclaimed it: the
check of the sweep must find it then too.

**SessionKeys** keeps, per key, its value and in `lasting` the keys without a TTL.
**BrowserFeed** has a message's three commands (push, trim, publish), a browser's
connection (history, counter, subscription) and its reconnections as separate steps.
**Worktrees** separates git's registration from the directory, because the code
removes and prunes them by different commands. **SdkTurn** has the CLI (external) on
one side of `wire` and the pump and consumer of `_stream_session` on the other.
**WebhookDelivery** has a handler per redelivery, and the deduplicator's one client,
which a failed claim drops under the other handlers. **BackgroundWorkers** has
`buffer` (the hooks'), `flushing` (what the flush has still to enqueue), and for each
worker its `list`, its `hand` and its `dlq`; `over` and `lost` (history) take what left
them. **Scheduler** has a
clock in minutes, and a trigger's stamp separate from its tick. **RateLimiter** has a
clock and the two `acquire` loops. **EventRouting** is mostly operators; its one
variable of the program is the engine's command table. **TranscriptTrace** counts
positions in half lines, so that a read may meet a half-written line.

**MCComponents and MCLiveness.** The components they put side by side share no
variable, and no property relates two of them; `Init` selects one and the others
stay in their first state. The behaviours are those of each component alone, and one
run covers them all. `MCComponents` extends the ten modules, so the properties it
checks are the very definitions the theorems state; they hold in a first state. That
its behaviours are behaviours of each component is itself proved
(`ComponentsImplement`), so that what is proved of a component holds of the
composition that the run checks.

## 3. Runs

| Run | Instance | Shows |
|---|---|---|
| `JobQueueSafety` | 2 jobs, 2 workers, 1 failure, symmetric | within a job's TTL: one copy, at most one execution, recoverable; nothing is lost without a failure; the queue implements `JobLife` |
| `JobQueueCrashLoss` (violation) | 1 job, 1 worker, 1 failure | a kill between BLPOP and SADD loses the job |
| `JobProcessorSafety` | 2 runs with a follow-up, a stop command, 1 auto-continue and leaking channels, or 3 runs and a crash | mutual exclusion within the TTL, follow-ups and prompts accounted for, duplicates only by leaked channels, a release frees one's own lock |
| `JobProcessorLiveness` | 2 runs, stop command, 1 crash | every run ends and every live holder releases |
| `JobProcessorFollowUp` (violation) | 1 run, 1 follow-up | a cancelled turn does not lead to the follow-up's turn |
| `RepoSyncSafety` | 1 job, 2 refs, 2 sync workers, 1 push, 1 failure | one git at a time within the TTL, a job finds a finished clone, its answer is under way unless it was missed or dropped |
| `RepoSyncStale` (violation) | 2 jobs, 1 push | a job goes on with commits older than its sync |
| `StreamingSafety` | any 3 of: 2 requests, 1 sweep, 2 resumes, faults | one creator and one resume at a time while their keys live, every accepted prompt accounted for, the sweep spares sessions with a live job |
| `Liveness` | job queue: 1 job, 2 workers, 1 failure; repo sync: 1 job, 1 worker, 1 push, 1 failure; sessions: 1 request, 1 sweep, 3 events | every job settles, every wait ends, every request is taken, a session without a job is recovered |
| `Components` | see below | one property or two for each of the ten components |
| `RoutedAsConfigured` (violation) | 2 deliveries | the engine's command table grows |
| `OrphansRemoved` (violation) | 1 job, 1 failure, fair | an abandoned worktree stays for ever |

`Components`: `BrowserFeed` with 2 browsers, a streamed and a typed message, a history
of 1 and 1 dropped connection; `SessionKeys` with 2 requests and 1 expiry; `Worktrees`
with 2 jobs, both kinds of cleanup and 2 failures; `SdkTurn` with 2 background tasks
and 2 retries; `WebhookDelivery` with a delivery, 3 tries, 2 workflows and 2 faults;
`BackgroundWorkers` with 2 transcripts, 2 hooks, 2 retries and 2 faults; `Scheduler`
with 2 instances, 2 repositories, 3 minutes, a one-shot call and 1 fault;
`RateLimiter` with 2 callers, a limit of 1 and a window of 2 in 4 units of time;
`EventRouting` with 2 deliveries out of every form of event, command, flag and sender,
against a configuration with every form of trigger; `TranscriptTrace` with 2 hook
processes, 2 lines per transcript and 1 fault.

**Bounds.** Two workers (callers, instances, browsers) are what it takes for every
race of a component: a reclaimer and an owner, two reclaimers, a holder and a
waiter, a request and a sweep. A third run appears where two waiters must meet:
the constraint `Small` of `MCJobProcessor` leaves three runs and a crash without messages, or two
runs with messages and channels and no crash, since the product of both is out of
reach; the theorems of section 5 cover the product. One failure per behaviour is
placed at every step in turn. `MaxContinues` = 1 lets a run reach and exceed its last
auto-continue, `MaxRequests` = 1 and two callers the limit of a window, `HistoryMax` = 1 the
trim of the history, `MaxJobRetries` = 2 the last retry and the dead letter.
`StreamingSession`'s `MaxEvents` = 3 counts callers that start and faults: two callers
race while a key expires, or three callers meet. A job restarted or left by its worker
while the sweep looks at it takes more events than that; the theorem
`LiveSessionsSpared` covers them.

**Deadlock.** The queue never stops (a worker can always reclaim or time out) and
is checked for deadlock. The others describe finitely many runs, jobs or requests
and end when those have ended, so they are not.

**Fairness.** Weak fairness of each process's next step: asyncio resumes every
task whose command has answered, and commands have time-outs. Beyond that, that
time passes: `JobQueue` assumes `ExpireData`, `RepoSync` that the lock key of a dead
worker expires and that a silent connection is closed by the client,
`StreamingSession` that a stale session ages, that the sweep's and the worktree's
lock expire, and that a job left by a dead worker is reclaimed or lost, `Worktrees`
that locks and records expire. Nothing is assumed of failures, pushes or new
requests, and `JobProcessor` assumes nothing of the lock's TTL.

## 4. What the violations mean

* `shared/job_queue.py` promises an atomic move from pending to processing and the
  architecture document that jobs survive crashes; between BLPOP and the backup
  they do not.
* The follow-up protocol (inbox, then cancel signal) meets a loop that treats
  every cancel signal as "superseded" and leaves without reading the inbox.
* The completion key of the repository sync answers for syncs of the past hour.
* `get_workflow_for_command` hands out the engine's own list, and the webhook
  handler appends to it.
* The orphan loop is started with the Redis client of a queue that has not
  connected, which is `None`, and returns at once.

### Other observations

These follow from the models (most of them are the "unless" of a property) and
have no run of their own.

* Queue: a job that waits and runs longer than its data key's TTL is re-queued
  while its worker lives (`job_queue.py:385`).
* Lock: its TTL of 600 s is not renewed, so a long turn may share its worktree with
  the next job: `MutexWithinTTL` needs its premise. A superseded run leaves
  `process()` without `_save_session`, although its result says "session saved for
  continuation".
* Sync: the event of an in-flight sync may be published between the look at the lock
  and the subscription (`queue.py:315`).
* Sessions: `set_running` renews the hash and not the lookup key; the stale cleanup
  of `find_session` may delete a lookup key another caller has just written;
  `set_completed` after a close recreates a hash without a TTL; `save_session` revives
  a closed record; `handle_resume` shows the messages it drains from the inbox, but
  only the resuming message becomes the job's prompt.
* Browser: after a disconnect the Redis side of the websocket listens on until the
  next message, so the counter falls late.
* Worktrees: `cleanup_thread` takes no worktree lock; `cleanup_branch` compares the
  branch with the `HEAD` of detached worktrees.
* Webhook: without Redis the claim fails open; the release after a failed publication
  lets the retry publish the earlier workflows again; a handler that dies keeps the
  claim; the cleanup gate leaves out discussions, which `_build_cleanup_message`
  handles. The query the webhook passes on no longer begins with the command, so the
  coordinator's pattern for session flags (`docs/WORKFLOWS.md:63`), which wants it, does
  not match; and only the first line of a query is kept.
* Workers: the memory worker pops before it processes; the retrospector swallows SDK
  failures, and after SIGTERM keeps popping messages and drops them;
  `RedisQueue._reconnect` calls `close`, which ends the subscribe loop.
* Rate limiter: the Redis backend counts and then adds, so concurrent callers may
  exceed the limit by one each.
* Scheduler: the lock's minute is the minute of execution and not the tick's; the
  lock is kept when the publication fails; a hot reload drops one-shot jobs and a due
  tick, and an invalid file all jobs; a partial list of repositories is cached; the
  tool reports a failure for a job that was scheduled when the answer is late.
* SDK: a retry of `execute_sdk` runs a session again that may already have acted.
* Tracing: an entry is noted before it is written, so a failed write is never
  repeated; the subagent's lines are copied into the main transcript and traced
  twice, once for each agent; a turn split over two reads loses the lines of the second;
  after its time-out the lock is not waited for.

## 5. Proofs

Every invariant and every action property that a passing run checks is also a
theorem, for arbitrary sets of jobs, workers, runs, refs, callers, browsers and
messages and arbitrary bounds. The theorems rest on the assumptions of their modules
alone:

| Module | Assumption | Says |
|---|---|---|
| `JobQueue`, `JobProcessor`, `RepoSync`, `SessionKeys` | `JobQueueAssumption`, `JobProcessorAssumption`, `RepoSyncAssumption`, `KeysAssumption` | the "none" values are not among the real ones, the bounds are naturals |
| `StreamingSession` | `StreamingAssumption` | requests, sweeps and resumes are disjoint and finitely many |
| `WebhookDelivery` | `HookAssumption`; `HookBounds` for `HookTyped` | a delivery has at least one workflow to start; GitHub tries finitely often, the faults are bounded |
| `RateLimiter` | `RateAssumption` | finitely many callers, at least one; the limit is at least 1, as `config.py` asks of every configured limit; window and clock are naturals |
| `Scheduler` | `SchedAssumption` | the installation's repositories are a sequence; the tick lies within the bounded clock |
| `BrowserFeed` | `FeedAssumption`; `FeedBounds` for `FeedTyped` | streamed and typed messages differ; both, and the browsers, are finitely many |
| `TranscriptTrace` | `TraceAssumption` | "none" is no number |
| `BackgroundWorkers` | `WorkAssumption` | a job may be tried at least once |
| `Worktrees` | `TreesAssumption` | "none" is no job; a cleanup is one of a thread or of a branch |
| `SdkTurn` | `TurnAssumption` for `TurnTyped` | the query may be tried at least once |
| `EventRouting` | `RouteAssumption` for `RouteTyped` and `WorkflowsStartedOnce` | the configuration, a YAML mapping, lists a workflow once |

`JobQueue`, `JobProcessor`, `RepoSync` and `StreamingSession` state theirs with ASSUME;
those of the components are definitions, which the theorems assume and `MCComponents`
asserts, so TLC evaluates them all. `RoutesAgree` and `ResultClosesQuiet` need none.

**Type correctness** is proved of every module, and is more than a type where the
code bounds its state only through the way it runs. `HookTyped`: one attempt of a
delivery queues its note, and each workflow's job, at most once, so there are no more
of each than attempts. `RateTyped`: a caller that finds no room waits for a time that
was noted, and its wait ends within a window of the clock; the deque it looks into is
not empty there because the limit is at least 1 (with a limit of 0, which
`shared/config.py:258-263` rules out, `requests[0]` would raise). That there is a least
noted time is shown by well-founded induction on the naturals (`LeastTime`).
`FeedTyped`: a history exceeds its cap only by the messages that browsers typed, which
are never trimmed, or whose trim is still to come or failed, and the subscriber count
is never above the browsers that hold it. `TraceTyped`: offsets, turns and marks stay
within their transcripts, and one process at a time is in the locked part unless one
went on without the lock. `RouteTyped`: however often the command table was appended
to in place, a job is one of a configured workflow, with a thread type, ref, tier and
session mode that the agent worker knows. `WorkTyped` and `TurnTyped` bound the
attempts at a message and at a query.

**JobQueueProofs.** `QueueInv` is the inductive invariant: a job within its TTL
that has been queued has its data key (`DataWithinTTL`), so no reclaim gets past
its EXISTS check (`WorkerKnows`); a started job never returns to the list
(`StartedStaysOut`) and keeps its mark and backup. `SingleCopyWithinTTL` alone is
not inductive, because a reclaimer already past the check would re-queue the job.
From it follow `SingleCopy`, `RunIsRecoverable`, `DeadLetterJustified` and the
action property `NoRerun`. `StatusInv` adds how far each worker has got with the
status key (`StatusTruthful`). `NoLossInv` is separate, for it speaks of expired
jobs: while nothing has failed, a worker that is about to remove a processing mark
has the job re-queued before, or it holds the job's result (`NoLoss`).
`JobLifeRefined`: under `LifeOf` the first state is one of `JobLife`, and every step is
one of its actions or a stutter. It needs all these invariants together and `LifeInv`:
a queued job within its TTL has a status, and who completes a job finds a status from
which `JobLife` lets it finish.

**JobProcessorProofs.** `TypeInv` adds to the type that a run's number of turns fits
its place in the loop. `LockInv`: while no live holder's lock expired, a run past
its acquire is the `owner`, so two of them are equal (`Mutex`). `ReleaseOwn` uses
that job ids are run once: the id in the key then identifies the run that wrote
it. `PromptInv` follows a prompt from the slot to the run that takes it
(`PromptAccounted`); `FollowUps` follows a message from the inbox into a turn.
`NoDuplicates`: while the history is clean (no lock expired, no channel left by a
superseded, failed or non-streaming run) at most one live run has a control channel
(`ChannelInv`, `OneLiveChannel`), a message is under way to it once, and not once more
when it is in the inbox (`MailInvStep`).

**RepoSyncProofs.** `LockInv`: the worker between acquire and release is the lock's
holder until the TTL runs out (`OneSync`). `CloneInv`: a directory in state
partial belongs to a worker that is cloning or was killed, every completion key
and every delivered completion event was written when the clone was finished, and
no worker clones into a finished directory (`CloneReady`). `AnswerInv` extends
`AnswerComes` to jobs that have asked but not subscribed (`Answers`); its steps
need that appending to and popping from the list moves a request and never drops
it.

**StreamingSessionProofs.** `TypeInv` ties each step to the session it writes: a
caller at work on a token has one whose hash existed. `CreatorInv`: who creates for
the thread has its own value in the dedup key, or lost the key to an expiry or to a
caller that found it stale (`SingleCreator`). `ResumeInv`: the same for the nonce in
the resume lock (`SingleResume`). `AccountInv` follows a prompt through inbox, job and
history, and says that a job gives up only prompts that ran (`NoPromptLost`).
`SpareInv`: between the sweep's scan and its mark, a session that it is about to mark
has no open job and nobody about to create one, unless the exception the property
names has happened (`LiveSessionsSpared`, an action property).

**KeyProofs.** A delivery's claim has let one handler in, unless it was bypassed,
given back or expired (`OneEntered`); the queue holds what that handler has published
(`QueuedByOne`), hence `DeliveryQueuedOnce`. `RetryNotRefused` is the converse side: a
claim without a handler was stranded (`ClaimOwned`). `WindowBound` counts, with the
grants of a window, the callers between the Redis count and the add: the invariant
bounds both together for every window, the one the clock is in and the past ones.
`EveryKeyExpires` and `SessionsFound` are inductive only together: when
a lookup key expires, the hash it led to must expire with it or have no TTL.
`TickDeduplicated`: a repository and a stamp have one owner, and its lock lives as
long as the stamp may be asked for again (`LockCovers`), since no stamp lies in the
future (`StampPast`).

**ObserverProofs.** `FeedsComplete`: what was pushed is in the history or was
trimmed (`HistoryHolds`), and the browser has read it, has it in its mailbox, or is
excused. `TurnsTracedOnce`: turns sent before lie below the saved offset and number
(`SentSaved`), turns of the process at work between that and what it will save
(`Sending`), provided the lock holds.

**JobPathProofs.** `RoutesAgree` compares two case distinctions of different services
on every event. `WorkflowsStartedOnce`: one delivery queues at most one job for a
workflow, although the table grows. Its invariant is that no row of the table names a
workflow twice (`TableOnce`), which the in-place append keeps because the handler
leaves out of the triggers' list what the command's list has; the filters only drop
entries (`FilteredOnce`). Two workflows of one delivery are therefore distinct, as
`WebhookDelivery` takes them to be. One command listed twice by one workflow, which the
configuration's schema does not refuse, is outside: the model's configuration is a set
of commands per workflow. `TreesReady`: the place of the lock's holder says what it has made of
the directory (`TreeStages`), and a valid directory is registered. `ResultClosesQuiet`
is about messages still on the wire: for a position of the wire, the invariant says
what the consumer will know there, and that a result comes after the end of every
task that started before it (`ResultsHeld`). `JobsAccounted`: each step of a worker
takes one copy of one job from one place and puts it into another (`PlacesCounted`,
`ListGains`, `ListLoses`, `DeadGain`, `HandMoves`, `GoneGains`); the flush makes exactly one
copy of each worker's and key's last job, because the first places of the keys are
counted off once each (`NthOnce`) and the buffer's last entry of a key is that of the
last firing (`Buffered`).

**ComponentsProofs.** `ComponentsImplement`: a step of the composition is a step of the
component that was selected and changes no variable of another. `ComponentsTyped` and
`ComponentsSafe` carry the ten type invariants and the twelve safety invariants over to
the composition, for all values of all components' constants at once.

Each invariant was checked by TLC on a small instance before it was proved.

## 6. Only model-checked

* Liveness: `EveryJobSettles`, `EveryRunEnds`, `HolderReleases`, `EveryWaitEnds`,
  `RequestsDrain`, `ZombieRecovered`. Fairness needs ENABLED, which the prover does
  not handle; TLC checks them on the instances above.
* That the code violates five statements of its documentation and tests (section 4):
  these are behaviours, which TLC finds.

`Subsequences` is there for the prover. Its `Nth`, `Picked` and `Filtered` choose
positions by their rank, where the community modules' `SetToSortSeq` or `SelectSeq`
would say the same by recursion: a recursive definition cannot be unfolded for every
length.

## 7. What is left of the plan

* `Scheduler`: nothing says that a one-shot job survives a hot reload (the hazard at
  `scheduler.py:110`): the code removes it, and no document or test speaks of it, so
  there is no statement to hold it to.
* `StreamingSession`'s jobs as instances of `JobLife` was planned and is not done,
  because it is not a refinement step by step: `StreamingSession` takes a job and
  reports it running in one step, announces and enqueues it in one, and settles several
  jobs of a thread with one signal, where `JobLife` has one step for each. What it uses
  of the contract is stated in section 2, and that the queue keeps the contract is
  `JobLifeRefined`.
* `EventRouting` could take each workflow's commands as a list instead of a set, to
  speak of a command that one workflow lists twice.

## 8. Not modelled

What the agent itself does, git's internals and GitHub's API are outside: they
appear as nondeterministic outcomes. Prompt templates, thread history, syntax trees
and repository maps, most MCP servers, REST views, the options the SDK factory builds
and the browser's interface transform or forward text and share no state with the
protocols above. The legacy lookup key (without a thread type), which only old data
uses, Google Pub/Sub, the resending of a command whose answer timed out
(`retry_on_timeout`), the GitHub token cache (a double refresh is harmless) and
`services/session_service/bridge.py` (used by tests alone) are left out. `PROJECT.json`
lists every component with its status and the reason.
