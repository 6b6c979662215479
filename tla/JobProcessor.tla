---------------------------- MODULE JobProcessor ----------------------------
(***************************************************************************)
(* The jobs of one persistent worktree: JobProcessor.process               *)
(* (services/sandbox_executor/processor.py) with the WorktreeLock and its  *)
(* cancel channel (shared/worktree_lock.py), the ControlChannel of the     *)
(* streaming session (shared/session_stream.py) and the coordinator's      *)
(* _inject_into_running_session (request_processor.py).                    *)
(*                                                                         *)
(* Each run is one sandbox worker executing one job id; the queue may hand *)
(* one job id to two runs (see JobQueue).  Every `await' that reaches      *)
(* Redis ends an action.  complete_job is one step here: JobQueue has its  *)
(* commands.  The `status' and `session_id' fields of the lock value are   *)
(* written and never read by the code, so the lock is just the job id.     *)
(***************************************************************************)
EXTENDS Naturals, Sequences, FiniteSets

CONSTANTS
  Runs,          \* executions of process(), each on a worker of its own
  Jobs,          \* job ids; a job id also stands for the job's prompt
  JobOf,         \* the job id of a run
  Msgs,          \* follow-up messages from GitHub comments or the browser
  Stop,          \* the browser's stop_agent command
  Browser,       \* what the browser may send: messages and Stop
  Setups,        \* outcomes of the streaming setup to consider
  None,          \* a Redis key that does not exist
  MaxContinues,  \* MAX_AUTO_CONTINUES
  MaxCrashes     \* bound: workers killed and channels dropped in a behaviour

ASSUME JobProcessorAssumption ==
  /\ JobOf \in [Runs -> Jobs]
  /\ None \notin Jobs \cup Runs
  /\ Stop \notin Msgs
  /\ Browser \subseteq Msgs \cup {Stop}
  /\ Setups \subseteq {"none", "streaming", "leaked"}
  /\ Jobs \cap Msgs = {}
  /\ MaxContinues \in Nat
  /\ MaxCrashes \in Nat

VARIABLES
  lock,          \* lock:worktree:{key}, the holder's job id or None
  owner,         \* history: the run that wrote the lock, None if free
  pendingPrompt, \* pending:{key}, the job id whose prompt is stored, or None
  inbox,         \* session:inbox:{token}
  saved,         \* history: the runs whose session was saved
  pc,            \* the next step of each run
  held,          \* WorktreeLock._lock_acquired
  mail,          \* runs with an undelivered message on the cancel channel
  current,       \* the prompts and messages of the turn a run is about to do
  interrupted,   \* the local `interrupted'
  userInt,       \* user_interrupt_event
  sdk,           \* the SDK task of the turn
  result,        \* the local `result' is not None
  turns,         \* continue_count
  outcome,       \* status passed to complete_job
  streaming,     \* the run's streaming_bridge is not None
  ctl,           \* the run's ControlChannel: off, connecting or subscribed
  ctlMail,       \* its undelivered messages
  ctlPushed,     \* _dispatch has pushed the message, not yet set the event
  injecting,     \* follow-ups pushed to interrupt a run, not yet signalled
  sent,          \* history: messages handed to the system
  stored,        \* history: messages that reached the inbox
  ran,           \* history: prompts and messages a turn was started with
  waiters,       \* history: runs that stored a pending prompt
  lockExpired,   \* history: the lock's TTL ran out under a live holder
  crashes        \* history: killed runs and dropped channels

lockVars == <<lock, owner>>
turnVars == <<current, interrupted, userInt, sdk, result, turns>>
ctlVars  == <<streaming, ctl, ctlMail, ctlPushed>>
envVars  == <<injecting, sent, stored, lockExpired, crashes>>
vars == <<lockVars, pendingPrompt, inbox, saved, pc, held, mail, turnVars,
          outcome, ctlVars, envVars, ran, waiters>>

\* process() from the first acquired lock to the end of the SDK loop.
UsingPCs == {"take_pending", "prepare", "turn", "sdk", "after", "teardown",
             "save"}
EndPCs   == {"complete", "release", "done", "dead"}
PCs      == {"idle", "acquire", "set_pending", "signal", "wait", "reacquire"}
              \cup UsingPCs \cup EndPCs

Using(r) == pc[r] \in UsingPCs

\* Runs inside `async with cancel_subscription'.
Subscribed == {r \in Runs : pc[r] = "sdk"}

TypeOK ==
  /\ lock \in Jobs \cup {None}
  /\ owner \in Runs \cup {None}
  /\ pendingPrompt \in Jobs \cup {None}
  /\ inbox \in Seq(Msgs)
  /\ saved \subseteq Runs
  /\ pc \in [Runs -> PCs]
  /\ held \in [Runs -> BOOLEAN]
  /\ mail \subseteq Runs
  /\ current \in [Runs -> SUBSET (Jobs \cup Msgs)]
  /\ interrupted \in [Runs -> BOOLEAN]
  /\ userInt \in [Runs -> BOOLEAN]
  /\ sdk \in [Runs -> {"off", "running", "result", "cancelled", "raised"}]
  /\ result \in [Runs -> BOOLEAN]
  /\ turns \in [Runs -> 0..(MaxContinues + 1)]
  /\ outcome \in [Runs -> {"none", "success", "error", "superseded",
                           "cancelled"}]
  /\ streaming \in [Runs -> BOOLEAN]
  /\ ctl \in [Runs -> {"off", "connecting", "on"}]
  /\ ctlMail \in [Runs -> Seq(Msgs \cup {Stop})]
  /\ ctlPushed \in [Runs -> BOOLEAN]
  /\ injecting \subseteq Msgs
  /\ sent \subseteq Msgs \cup {Stop}
  /\ stored \subseteq Msgs
  /\ ran \subseteq Jobs \cup Msgs
  /\ waiters \subseteq Runs
  /\ lockExpired \in BOOLEAN
  /\ crashes \in 0..MaxCrashes

Init ==
  /\ lock = None
  /\ owner = None
  /\ pendingPrompt = None
  /\ inbox = <<>>
  /\ saved = {}
  /\ pc = [r \in Runs |-> "idle"]
  /\ held = [r \in Runs |-> FALSE]
  /\ mail = {}
  /\ current = [r \in Runs |-> {}]
  /\ interrupted = [r \in Runs |-> FALSE]
  /\ userInt = [r \in Runs |-> FALSE]
  /\ sdk = [r \in Runs |-> "off"]
  /\ result = [r \in Runs |-> FALSE]
  /\ turns = [r \in Runs |-> 0]
  /\ outcome = [r \in Runs |-> "none"]
  /\ streaming = [r \in Runs |-> FALSE]
  /\ ctl = [r \in Runs |-> "off"]
  /\ ctlMail = [r \in Runs |-> <<>>]
  /\ ctlPushed = [r \in Runs |-> FALSE]
  /\ injecting = {}
  /\ sent = {}
  /\ stored = {}
  /\ ran = {}
  /\ waiters = {}
  /\ lockExpired = FALSE
  /\ crashes = 0

Goto(r, from, to) ==
  /\ pc[r] = from
  /\ pc' = [pc EXCEPT ![r] = to]

\* An exception reaches process()'s except clause.
Fail(r, from) ==
  /\ Goto(r, from, "complete")
  /\ outcome' = [outcome EXCEPT ![r] = "error"]

-----------------------------------------------------------------------------
(* _setup_worktree.                                                        *)

\* get_next_job handed the job to a worker; its prompt is job_data["prompt"].
StartRun(r) ==
  /\ Goto(r, "idle", "acquire")
  /\ current' = [current EXCEPT ![r] = {JobOf[r]}]
  /\ UNCHANGED <<lockVars, pendingPrompt, inbox, saved, held, mail, interrupted,
                 userInt, sdk, result, turns, outcome, ctlVars, envVars, ran,
                 waiters>>

\* The SET NX of WorktreeLock.acquire.
SetLock(r) ==
  /\ lock' = JobOf[r]
  /\ owner' = r
  /\ held' = [held EXCEPT ![r] = TRUE]

\* Mutant: the lock is set without NX.
AcquireForced(r) ==
  /\ SetLock(r)
  /\ Goto(r, "acquire", "prepare")
  /\ UNCHANGED <<pendingPrompt, inbox, saved, mail, turnVars, outcome, ctlVars,
                 envVars, ran, waiters>>

\* acquire(timeout=0).
Acquire(r) ==
  /\ \/ /\ lock = None
        /\ SetLock(r)
        /\ Goto(r, "acquire", "prepare")
     \/ /\ lock # None
        /\ Goto(r, "acquire", "set_pending")
        /\ UNCHANGED <<lockVars, held>>
  /\ UNCHANGED <<pendingPrompt, inbox, saved, mail, turnVars, outcome, ctlVars,
                 envVars, ran, waiters>>

\* set_pending_prompt: one slot, overwritten by the latest waiter.
SetPendingPrompt(r) ==
  /\ Goto(r, "set_pending", "signal")
  /\ pendingPrompt' = JobOf[r]
  /\ waiters' = waiters \cup {r}
  /\ UNCHANGED <<lockVars, inbox, saved, held, mail, turnVars, outcome, ctlVars,
                 envVars, ran>>

\* send_cancel_signal: PUBLISH reaches the runs subscribed now, nobody else.
SendCancelSignal(r) ==
  /\ Goto(r, "signal", "wait")
  /\ mail' = mail \cup Subscribed
  /\ UNCHANGED <<lockVars, pendingPrompt, inbox, saved, held, turnVars, outcome,
                 ctlVars, envVars, ran, waiters>>

\* wait_for_release polls the lock once a second ...
SeeRelease(r) ==
  /\ Goto(r, "wait", "reacquire")
  /\ lock = None
  /\ UNCHANGED <<lockVars, pendingPrompt, inbox, saved, held, mail, turnVars,
                 outcome, ctlVars, envVars, ran, waiters>>

\* ... for 300 seconds: "Timeout waiting for worktree lock".
WaitTimeout(r) ==
  /\ Fail(r, "wait")
  /\ lock # None
  /\ UNCHANGED <<lockVars, pendingPrompt, inbox, saved, held, mail, turnVars,
                 ctlVars, envVars, ran, waiters>>

\* The second acquire; somebody else may have been faster.
Reacquire(r) ==
  /\ \/ /\ lock = None
        /\ SetLock(r)
        /\ Goto(r, "reacquire", "take_pending")
        /\ UNCHANGED outcome
     \/ /\ lock # None
        /\ Fail(r, "reacquire")
        /\ UNCHANGED <<lockVars, held>>
  /\ UNCHANGED <<pendingPrompt, inbox, saved, mail, turnVars, ctlVars, envVars,
                 ran, waiters>>

\* Mutant: the result is used without checking that there was one.
TakePendingUnchecked(r) ==
  /\ Goto(r, "take_pending", "prepare")
  /\ current' = [current EXCEPT ![r] = {pendingPrompt}]
  /\ pendingPrompt' = None
  /\ UNCHANGED <<lockVars, inbox, saved, held, mail, interrupted, userInt, sdk,
                 result, turns, outcome, ctlVars, envVars, ran, waiters>>

\* get_pending_prompt (GET and DEL in one script): the stored prompt, whoever
\* stored it, replaces the job's own.
TakePendingPrompt(r) ==
  /\ Goto(r, "take_pending", "prepare")
  /\ current' = IF pendingPrompt = None THEN current
                ELSE [current EXCEPT ![r] = {pendingPrompt}]
  /\ pendingPrompt' = None
  /\ UNCHANGED <<lockVars, inbox, saved, held, mail, interrupted, userInt, sdk,
                 result, turns, outcome, ctlVars, envVars, ran, waiters>>

\* Worktree, git credentials, repository setup, context; then the streaming
\* setup of _execute_sdk_loop starts the control channel ("streaming"), unless
\* the job has no session token or start() fails ("none").  A failure after
\* start(), "Continuing without streaming", forgets the channel ("leaked").
Prepare(r) ==
  /\ Goto(r, "prepare", "turn")
  /\ \E s \in Setups :
       /\ streaming' = [streaming EXCEPT ![r] = (s = "streaming")]
       /\ ctl' = [ctl EXCEPT ![r] = IF s = "none" THEN "off" ELSE "connecting"]
  /\ UNCHANGED <<lockVars, pendingPrompt, inbox, saved, held, mail, turnVars,
                 outcome, ctlMail, ctlPushed, envVars, ran, waiters>>

PrepareFails(r) ==
  /\ Fail(r, "prepare")
  /\ UNCHANGED <<lockVars, pendingPrompt, inbox, saved, held, mail, turnVars,
                 ctlVars, envVars, ran, waiters>>

-----------------------------------------------------------------------------
(* _execute_sdk_loop.                                                      *)

\* Top of the loop: reset the flags, enter the subscription, start the SDK.
BeginTurn(r) ==
  /\ Goto(r, "turn", "sdk")
  /\ interrupted' = [interrupted EXCEPT ![r] = FALSE]
  /\ userInt' = [userInt EXCEPT ![r] = FALSE]
  /\ sdk' = [sdk EXCEPT ![r] = "running"]
  /\ ran' = ran \cup current[r]
  /\ UNCHANGED <<lockVars, pendingPrompt, inbox, saved, held, mail, current,
                 result, turns, outcome, ctlVars, envVars, waiters>>

\* execute_sdk returns a result, or raises (SDKError, SDKTimeoutError).
SdkEnds(r) ==
  /\ pc[r] = "sdk"
  /\ sdk[r] = "running"
  /\ \E e \in {"result", "raised"} : sdk' = [sdk EXCEPT ![r] = e]
  /\ UNCHANGED <<lockVars, pendingPrompt, inbox, saved, pc, held, mail, current,
                 interrupted, userInt, result, turns, outcome, ctlVars, envVars,
                 ran, waiters>>

\* handle_cancel: sets `interrupted' even when the SDK task is already done.
HandleCancel(r) ==
  /\ r \in mail
  /\ pc[r] = "sdk"
  /\ mail' = mail \ {r}
  /\ interrupted' = [interrupted EXCEPT ![r] = TRUE]
  /\ sdk' = [sdk EXCEPT ![r] = IF @ = "running" THEN "cancelled" ELSE @]
  /\ UNCHANGED <<lockVars, pendingPrompt, inbox, saved, pc, held, current,
                 userInt, result, turns, outcome, ctlVars, envVars, ran,
                 waiters>>

\* Mutant: a cancelled SDK task is not recognised as done.
LeaveTurnNotCancelled(r) ==
  /\ sdk[r] = "result"
  /\ Goto(r, "sdk", "after")
  /\ result' = [result EXCEPT ![r] = TRUE]
  /\ sdk' = [sdk EXCEPT ![r] = "off"]
  /\ mail' = mail \ {r}
  /\ UNCHANGED <<lockVars, pendingPrompt, inbox, saved, held, current,
                 interrupted, userInt, turns, outcome, ctlVars, envVars, ran,
                 waiters>>

\* asyncio.wait returns: the SDK task is done, or the user's interrupt event is
\* set and the task is cancelled here.  The subscription is left.
LeaveTurn(r) ==
  /\ sdk[r] \in {"result", "cancelled"} \/ (sdk[r] = "running" /\ userInt[r])
  /\ Goto(r, "sdk", "after")
  /\ interrupted' =
       [interrupted EXCEPT ![r] = @ \/ sdk[r] \in {"cancelled", "running"}]
  /\ result' = [result EXCEPT ![r] = @ \/ sdk[r] = "result"]
  /\ sdk' = [sdk EXCEPT ![r] = "off"]
  /\ mail' = mail \ {r}
  /\ UNCHANGED <<lockVars, pendingPrompt, inbox, saved, held, current, userInt,
                 turns, outcome, ctlVars, envVars, ran, waiters>>

\* The exception of execute_sdk leaves the loop; the control channel stays.
TurnRaises(r) ==
  /\ sdk[r] = "raised"
  /\ Fail(r, "sdk")
  /\ sdk' = [sdk EXCEPT ![r] = "off"]
  /\ mail' = mail \ {r}
  /\ UNCHANGED <<lockVars, pendingPrompt, inbox, saved, held, current,
                 interrupted, userInt, result, turns, ctlVars, envVars, ran,
                 waiters>>

\* Mutant: the inbox is drained before the superseded check.
SupersedeDrains(r) ==
  /\ interrupted[r] /\ ~userInt[r]
  /\ Goto(r, "after", "complete")
  /\ outcome' = [outcome EXCEPT ![r] = "superseded"]
  /\ inbox' = <<>>
  /\ UNCHANGED <<lockVars, pendingPrompt, saved, held, mail, turnVars, ctlVars,
                 envVars, ran, waiters>>

\* Interrupted by the cancel channel: "superseded", and out of the loop without
\* reading the inbox, tearing the streaming down or saving the session.
Supersede(r) ==
  /\ interrupted[r] /\ ~userInt[r]
  /\ Goto(r, "after", "complete")
  /\ outcome' = [outcome EXCEPT ![r] = "superseded"]
  /\ UNCHANGED <<lockVars, pendingPrompt, inbox, saved, held, mail, turnVars,
                 ctlVars, envVars, ran, waiters>>

\* pop_inbox_messages found follow-ups: they are the prompt of the next turn,
\* if the loop's range still has one.
AutoContinue(r) ==
  /\ ~(interrupted[r] /\ ~userInt[r])
  /\ streaming[r]
  /\ inbox # <<>>
  /\ current' = [current EXCEPT ![r] = {inbox[i] : i \in DOMAIN inbox}]
  /\ inbox' = <<>>
  /\ turns' = [turns EXCEPT ![r] = @ + 1]
  /\ Goto(r, "after", IF turns[r] < MaxContinues THEN "turn" ELSE "teardown")
  /\ UNCHANGED <<lockVars, pendingPrompt, saved, held, mail, interrupted,
                 userInt, sdk, result, outcome, ctlVars, envVars, ran, waiters>>

\* No follow-up: leave the loop.  A turn stopped by the user counts as
\* cancelled only if no earlier turn left a result.
LeaveLoop(r) ==
  /\ ~(interrupted[r] /\ ~userInt[r])
  /\ ~streaming[r] \/ inbox = <<>>
  /\ Goto(r, "after", "teardown")
  /\ outcome' = [outcome EXCEPT ![r] =
                   IF interrupted[r] /\ ~result[r] THEN "cancelled" ELSE @]
  /\ UNCHANGED <<lockVars, pendingPrompt, inbox, saved, held, mail, turnVars,
                 ctlVars, envVars, ran, waiters>>

\* Mutant: the control channel is not stopped.
TeardownKeepsChannel(r) ==
  /\ Goto(r, "teardown", "save")
  /\ UNCHANGED <<lockVars, pendingPrompt, inbox, saved, held, mail, turnVars,
                 outcome, ctlVars, envVars, ran, waiters>>

\* The channel's listener and what it has not handled yet are gone.
CloseChannel(r) ==
  /\ ctl' = [ctl EXCEPT ![r] = "off"]
  /\ ctlMail' = [ctlMail EXCEPT ![r] = <<>>]
  /\ ctlPushed' = [ctlPushed EXCEPT ![r] = FALSE]

\* set_completed, session_closed, ControlChannel.stop (if the setup kept the
\* channel), post-processing jobs.
Teardown(r) ==
  /\ Goto(r, "teardown", "save")
  /\ IF streaming[r] THEN CloseChannel(r)
     ELSE UNCHANGED <<ctl, ctlMail, ctlPushed>>
  /\ UNCHANGED <<lockVars, pendingPrompt, inbox, saved, held, mail, turnVars,
                 outcome, streaming, envVars, ran, waiters>>

-----------------------------------------------------------------------------
(* The rest of process().                                                  *)

\* _save_session, then the status for complete_job: an SDK result may itself
\* report an error.
SaveSession(r) ==
  /\ Goto(r, "save", "complete")
  /\ result[r] \/ outcome[r] = "cancelled"
  /\ saved' = saved \cup {r}
  /\ \E o \in {"success", "error"} :
       outcome' = [outcome EXCEPT ![r] = IF @ = "cancelled" THEN @ ELSE o]
  /\ UNCHANGED <<lockVars, pendingPrompt, inbox, held, mail, turnVars, ctlVars,
                 envVars, ran, waiters>>

\* The loop ran out after an interrupted turn: no result, so no complete_job.
NoResult(r) ==
  /\ Goto(r, "save", "release")
  /\ ~result[r] /\ outcome[r] # "cancelled"
  /\ UNCHANGED <<lockVars, pendingPrompt, inbox, saved, held, mail, turnVars,
                 outcome, ctlVars, envVars, ran, waiters>>

\* complete_job (see JobQueue).
Complete(r) ==
  /\ Goto(r, "complete", "release")
  /\ UNCHANGED <<lockVars, pendingPrompt, inbox, saved, held, mail, turnVars,
                 outcome, ctlVars, envVars, ran, waiters>>

\* Mutant: the lock is deleted whoever holds it.
ReleaseUnchecked(r) ==
  /\ Goto(r, "release", "done")
  /\ IF held[r]
       THEN lock' = None /\ owner' = None
       ELSE UNCHANGED lockVars
  /\ held' = [held EXCEPT ![r] = FALSE]
  /\ UNCHANGED <<pendingPrompt, inbox, saved, mail, turnVars, outcome, ctlVars,
                 envVars, ran, waiters>>

\* Mutant: only a job with a result gives the lock back.
ReleaseOnSuccess(r) ==
  /\ Goto(r, "release", "done")
  /\ IF held[r] /\ result[r] /\ lock = JobOf[r]
       THEN lock' = None /\ owner' = None
       ELSE UNCHANGED lockVars
  /\ held' = [held EXCEPT ![r] = FALSE]
  /\ UNCHANGED <<pendingPrompt, inbox, saved, mail, turnVars, outcome, ctlVars,
                 envVars, ran, waiters>>

\* _cleanup: WorktreeLock.release compares the job id and deletes in one script.
Release(r) ==
  /\ Goto(r, "release", "done")
  /\ IF held[r] /\ lock = JobOf[r]
       THEN lock' = None /\ owner' = None
       ELSE UNCHANGED lockVars
  /\ held' = [held EXCEPT ![r] = FALSE]
  /\ UNCHANGED <<pendingPrompt, inbox, saved, mail, turnVars, outcome, ctlVars,
                 envVars, ran, waiters>>

-----------------------------------------------------------------------------
(* The control channel, the coordinator, time and failures.                *)

\* The browser publishes on session:ctl:{token}: every subscribed channel gets
\* it, leaked ones included; with no subscriber it is gone.
BrowserSends(m) ==
  /\ m \in Browser \ sent
  /\ sent' = sent \cup {m}
  /\ ctlMail' = [r \in Runs |->
                   IF ctl[r] = "on" THEN Append(ctlMail[r], m) ELSE ctlMail[r]]
  /\ UNCHANGED <<lockVars, pendingPrompt, inbox, saved, pc, held, mail,
                 turnVars, outcome, streaming, ctl, ctlPushed, injecting, stored,
                 lockExpired, crashes, ran, waiters>>

\* ControlChannel._listen subscribes, some time after start() has returned.
CtlSubscribe(r) ==
  /\ ctl[r] = "connecting"
  /\ ctl' = [ctl EXCEPT ![r] = "on"]
  /\ UNCHANGED <<lockVars, pendingPrompt, inbox, saved, pc, held, mail, turnVars,
                 outcome, streaming, ctlMail, ctlPushed, envVars, ran, waiters>>

\* _dispatch(inject_message), first half: RPUSH inbox.
CtlPush(r) ==
  /\ ctl[r] = "on" /\ ~ctlPushed[r]
  /\ ctlMail[r] # <<>>
  /\ Head(ctlMail[r]) # Stop
  /\ inbox' = Append(inbox, Head(ctlMail[r]))
  /\ stored' = stored \cup {Head(ctlMail[r])}
  /\ ctlPushed' = [ctlPushed EXCEPT ![r] = TRUE]
  /\ UNCHANGED <<lockVars, pendingPrompt, saved, pc, held, mail, turnVars,
                 outcome, streaming, ctl, ctlMail, injecting, sent, lockExpired,
                 crashes, ran, waiters>>

\* Second half, and all of stop_agent: set the interrupt event.
CtlInterrupt(r) ==
  /\ ctl[r] = "on"
  /\ ctlMail[r] # <<>>
  /\ ctlPushed[r] \/ Head(ctlMail[r]) = Stop
  /\ ctlMail' = [ctlMail EXCEPT ![r] = Tail(@)]
  /\ ctlPushed' = [ctlPushed EXCEPT ![r] = FALSE]
  /\ userInt' = [userInt EXCEPT ![r] = TRUE]
  /\ UNCHANGED <<lockVars, pendingPrompt, inbox, saved, pc, held, mail, current,
                 interrupted, sdk, result, turns, outcome, streaming, ctl,
                 envVars, ran, waiters>>

\* The Redis connection of the channel drops and _listen reconnects: what was
\* published or half handled is gone.
CtlDrops(r) ==
  /\ ctl[r] = "on"
  /\ crashes < MaxCrashes
  /\ crashes' = crashes + 1
  /\ ctl' = [ctl EXCEPT ![r] = "connecting"]
  /\ ctlMail' = [ctlMail EXCEPT ![r] = <<>>]
  /\ ctlPushed' = [ctlPushed EXCEPT ![r] = FALSE]
  /\ UNCHANGED <<lockVars, pendingPrompt, inbox, saved, pc, held, mail, turnVars,
                 outcome, streaming, injecting, sent, stored, lockExpired, ran,
                 waiters>>

\* A follow-up by GitHub comment for a session the coordinator found running:
\* RPUSH inbox.  Without a lock holder that is all ("queued") ...
QueueFollowUp(m) ==
  /\ m \in Msgs \ sent
  /\ inbox' = Append(inbox, m)
  /\ sent' = sent \cup {m}
  /\ stored' = stored \cup {m}
  /\ UNCHANGED <<lockVars, pendingPrompt, saved, pc, held, mail, turnVars,
                 outcome, ctlVars, injecting, lockExpired, crashes, ran, waiters>>

\* ... with one it is the first half of _inject_into_running_session ...
InjectPush(m) ==
  /\ m \in Msgs \ sent
  /\ inbox' = Append(inbox, m)
  /\ sent' = sent \cup {m}
  /\ injecting' = injecting \cup {m}
  /\ stored' = stored \cup {m}
  /\ UNCHANGED <<lockVars, pendingPrompt, saved, pc, held, mail, turnVars,
                 outcome, ctlVars, lockExpired, crashes, ran, waiters>>

\* ... which then sends the cancel signal.
InjectSignal(m) ==
  /\ m \in injecting
  /\ injecting' = injecting \ {m}
  /\ mail' = mail \cup Subscribed
  /\ UNCHANGED <<lockVars, pendingPrompt, inbox, saved, pc, held, turnVars,
                 outcome, ctlVars, sent, stored, lockExpired, crashes, ran,
                 waiters>>

\* The lock's TTL (600 s, never renewed) runs out.
LockExpires ==
  /\ lock # None
  /\ lock' = None
  /\ owner' = None
  /\ lockExpired' = (lockExpired \/ pc[owner] # "dead")
  /\ UNCHANGED <<pendingPrompt, inbox, saved, pc, held, mail, turnVars, outcome,
                 ctlVars, injecting, sent, stored, crashes, ran, waiters>>

\* The pending prompt's TTL (300 s) runs out.
PendingExpires ==
  /\ pendingPrompt # None
  /\ pendingPrompt' = None
  /\ UNCHANGED <<lockVars, inbox, saved, pc, held, mail, turnVars, outcome,
                 ctlVars, envVars, ran, waiters>>

\* The worker is killed: no cleanup, the lock stays until its TTL.
Crash(r) ==
  /\ pc[r] \notin {"idle", "done", "dead"}
  /\ crashes < MaxCrashes
  /\ crashes' = crashes + 1
  /\ pc' = [pc EXCEPT ![r] = "dead"]
  /\ mail' = mail \ {r}
  /\ CloseChannel(r)
  /\ UNCHANGED <<lockVars, pendingPrompt, inbox, saved, held, turnVars, outcome,
                 streaming, injecting, sent, stored, lockExpired, ran, waiters>>

-----------------------------------------------------------------------------

SetupStep(r) ==
  \/ Acquire(r)
  \/ SetPendingPrompt(r)
  \/ SendCancelSignal(r)
  \/ SeeRelease(r)
  \/ WaitTimeout(r)
  \/ Reacquire(r)
  \/ TakePendingPrompt(r)
  \/ Prepare(r)
  \/ PrepareFails(r)

LoopStep(r) ==
  \/ BeginTurn(r)
  \/ SdkEnds(r)
  \/ HandleCancel(r)
  \/ LeaveTurn(r)
  \/ TurnRaises(r)
  \/ Supersede(r)
  \/ AutoContinue(r)
  \/ LeaveLoop(r)
  \/ Teardown(r)

EndStep(r) == SaveSession(r) \/ NoResult(r) \/ Complete(r) \/ Release(r)

RunStep(r) == SetupStep(r) \/ LoopStep(r) \/ EndStep(r)

CtlStep(r) == CtlSubscribe(r) \/ CtlPush(r) \/ CtlInterrupt(r)

Fault(r) == Crash(r) \/ CtlDrops(r)

Next ==
  \/ \E r \in Runs : StartRun(r) \/ RunStep(r) \/ CtlStep(r) \/ Fault(r)
  \/ \E m \in Browser : BrowserSends(m)
  \/ \E m \in Msgs : QueueFollowUp(m) \/ InjectPush(m) \/ InjectSignal(m)
  \/ LockExpires
  \/ PendingExpires

Spec == Init /\ [][Next]_vars

\* A worker that is not killed goes on (execute_sdk has a timeout, a wait for
\* the lock gives up after 300 s); listeners and the coordinator finish what
\* they began.  Nothing is assumed of the lock's TTL.
Fairness ==
  /\ \A r \in Runs : WF_vars(RunStep(r)) /\ WF_vars(CtlStep(r))
  /\ \A m \in Msgs : WF_vars(InjectSignal(m))

FairSpec == Spec /\ Fairness

-----------------------------------------------------------------------------
(* Properties.                                                             *)

\* WorktreeLock: as long as no live holder outlasts the lock's TTL, at most one
\* run is working in the worktree, through any interleaving of acquires, waits,
\* releases and crashes.
MutexWithinTTL ==
  ~lockExpired => \A r, q \in Runs : Using(r) /\ Using(q) => r = q

\* WorktreeLock.release: whatever expired in between, a run only ever frees the
\* lock it wrote itself (for job ids that are run once).
ReleaseFreesOwnLock ==
  [][\A r \in Runs : pc[r] = "release" /\ pc'[r] = "done" /\ lock' # lock
       => owner = r]_vars

\* pop_inbox_messages / the auto-continue loop: a follow-up that reached the
\* inbox is still there, or was the prompt of a turn, or is the prompt of the
\* turn about to start; the only ones dropped were drained by a run that was
\* killed or had used up its auto-continues.
FollowUpsAccounted ==
  \A m \in stored :
    \/ \E i \in DOMAIN inbox : inbox[i] = m
    \/ m \in ran
    \/ \E r \in Runs :
         /\ m \in current[r]
         /\ pc[r] \in {"turn", "dead"} \/ turns[r] > MaxContinues

\* set_pending_prompt / get_pending_prompt: a job that ended in success had its
\* prompt executed by some run, unless a later waiter overwrote it in the
\* single pending slot.
PromptLostOnlyByOverwrite ==
  \A r \in Runs :
    outcome[r] = "success" =>
      \/ JobOf[r] \in ran
      \/ \E q \in waiters : JobOf[q] # JobOf[r] /\ JobOf[q] \in ran

\* ControlChannel: a browser message is stored in the inbox once, unless a
\* superseded, failed or non-streaming run left its channel subscribed, or a
\* run lost its lock.
DuplicateNeedsLeak ==
  \A i, k \in DOMAIN inbox :
    inbox[i] = inbox[k] /\ i # k =>
      \/ lockExpired
      \/ \E r \in Runs :
           /\ ctl[r] # "off"
           /\ outcome[r] \in {"superseded", "error"} \/ ~streaming[r]

\* process(): every run that is started ends, by itself or by a crash.
EveryRunEnds ==
  \A r \in Runs : pc[r] = "acquire" ~> pc[r] \in {"done", "dead"}

\* _cleanup: a run that is not killed gives the lock back, on every path out of
\* process(), without help from the TTL.
HolderReleases ==
  \A r \in Runs : owner = r ~> (owner # r \/ pc[r] = "dead")

-----------------------------------------------------------------------------
(* What the comments say.                                                  *)

\* _inject_into_running_session: the auto-continue loop detects the cancel
\* signal, cancels the turn, pops the follow-up from the inbox and starts "a new
\* SDK turn with the follow-up as prompt".
CancelledTurnRunsFollowUp ==
  \A r \in Runs, m \in Msgs :
    (sdk[r] = "cancelled" /\ streaming[r] /\ \E i \in DOMAIN inbox : inbox[i] = m)
      ~> m \in ran

=============================================================================
