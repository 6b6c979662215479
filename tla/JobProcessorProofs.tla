------------------------- MODULE JobProcessorProofs -------------------------
(***************************************************************************)
(* Proofs about JobProcessor for every set of runs, jobs and messages.     *)
(* Mutual exclusion rests on the agreement of three pieces of state: the   *)
(* Redis key, the run that wrote it and each run's _lock_acquired flag     *)
(* (LockInv); it holds as long as no live holder outlasts the lock's TTL.  *)
(* What becomes of prompts and follow-ups rests on where in the loop a     *)
(* run's `current' still has to be executed (PromptInv).  A message is     *)
(* stored once because one open channel at most belongs to a run with the  *)
(* lock (ChannelInv), and no channel has what the inbox has (MailInv).     *)
(***************************************************************************)
EXTENDS JobProcessor, TLAPS

BeforeLoop == {"idle", "acquire", "set_pending", "signal", "wait", "reacquire",
               "take_pending", "prepare"}

\* continue_count is zero before the loop and within the loop's range in it.
TurnCount ==
  \A r \in Runs :
    /\ pc[r] \in BeforeLoop => turns[r] = 0
    /\ pc[r] \in {"turn", "sdk", "after"} => turns[r] \in 0..MaxContinues

TypeInv == TypeOK /\ TurnCount

\* The key, its writer and the _lock_acquired flags agree.
LockInv ==
  /\ lock = None <=> owner = None
  /\ owner \in Runs => lock = JobOf[owner]
  /\ \A r \in Runs :
       /\ Using(r) => held[r]
       /\ pc[r] \in {"idle", "acquire", "set_pending", "signal", "wait",
                     "reacquire", "done"} => ~held[r]
       /\ ~lockExpired /\ held[r] /\ pc[r] # "dead" => owner = r

\* Some run executed the prompt of r's job, or that of a job whose run had
\* stored it for whoever gets the lock.
Executed(r) ==
  \/ JobOf[r] \in ran
  \/ \E q \in waiters : JobOf[q] # JobOf[r] /\ JobOf[q] \in ran

\* The same for the prompts of the turn r is about to do.
WillExecute(r) ==
  \/ JobOf[r] \in current[r]
  \/ \E q \in waiters : JobOf[q] # JobOf[r] /\ JobOf[q] \in current[r]

PromptInv ==
  /\ pendingPrompt # None => \E q \in waiters : JobOf[q] = pendingPrompt
  /\ \A r \in Runs :
       /\ pc[r] \in BeforeLoop \ {"idle", "prepare"} => JobOf[r] \in current[r]
       /\ pc[r] = "prepare" => WillExecute(r)
       /\ pc[r] = "turn" => WillExecute(r) \/ Executed(r)
       /\ pc[r] \in {"sdk", "after", "teardown", "save"} => Executed(r)
       /\ outcome[r] = "success" => Executed(r)

\* Message m is in the session's inbox.
InInbox(m) == \E i \in DOMAIN inbox : inbox[i] = m

\* Where a run can still have a control channel: from the streaming setup on,
\* with the worktree lock until the end.  Past the teardown it is a channel that
\* a superseded, failed or non-streaming run left behind.
ChannelInv ==
  \A r \in Runs : ctl[r] # "off" =>
    /\ pc[r] \in {"turn", "sdk", "after", "teardown", "save", "complete",
                  "release", "done"}
    /\ pc[r] # "done" => held[r]
    /\ pc[r] = "save" => ~streaming[r]
    /\ pc[r] \in {"complete", "release", "done"} =>
         outcome[r] \in {"superseded", "error"} \/ ~streaming[r]

\* No lock ran out under its holder and no run ended with its channel open.
\* Once broken it stays broken.
Clean == ~lockExpired /\ \A r \in Runs : pc[r] = "done" => ctl[r] = "off"

\* What the channels and the inbox hold, and that no channel has a message the
\* inbox already has, but for the one it is about to acknowledge.
MailInv ==
  /\ \A r \in Runs :
       /\ ctl[r] # "on" => ctlMail[r] = <<>>
       /\ ctlMail[r] = <<>> => ~ctlPushed[r]
       /\ \A i \in DOMAIN ctlMail[r] : ctlMail[r][i] \in sent
  /\ \A k \in DOMAIN inbox : inbox[k] \in sent
  /\ Clean =>
       /\ \A i, k \in DOMAIN inbox : inbox[i] = inbox[k] => i = k
       /\ \A r \in Runs :
            /\ \A i, k \in DOMAIN ctlMail[r] :
                 ctlMail[r][i] = ctlMail[r][k] => i = k
            /\ \A i \in DOMAIN ctlMail[r], k \in DOMAIN inbox :
                 inbox[k] = ctlMail[r][i] => i = 1 /\ ctlPushed[r]

-----------------------------------------------------------------------------

\* Every step of process(), the control channel and the coordinator keeps the
\* types and the loop counter in range.
LEMMA TypeInvStep ==
  TypeInv /\ [Next]_vars => TypeInv'
<1> SUFFICES ASSUME TypeInv, [Next]_vars PROVE TypeInv'
  OBVIOUS
<1> USE JobProcessorAssumption
<1> USE DEF TypeInv, TypeOK, TurnCount, BeforeLoop, PCs,
            UsingPCs, EndPCs, lockVars, turnVars, ctlVars, envVars
<1>1. ASSUME NEW r \in Runs, StartRun(r) PROVE TypeInv'
  BY <1>1 DEF StartRun, Goto
<1>2. ASSUME NEW r \in Runs, Acquire(r) PROVE TypeInv'
  <2>1. UNCHANGED <<pendingPrompt, inbox, saved, mail, turnVars, ctlVars,
                  envVars, ran, waiters, outcome>>
    BY <1>2 DEF Acquire
  <2>2. CASE lock = None
    <3>1. /\ lock' = JobOf[r] /\ owner' = r /\ held' = [held EXCEPT ![r] = TRUE]
          /\ pc' = [pc EXCEPT ![r] = "prepare"] /\ pc[r] = "acquire"
      BY <1>2, <2>2 DEF Acquire, SetLock, Goto
    <3> QED
      BY <2>1, <3>1
  <2>3. CASE lock # None
    <3>1. /\ lock' = lock /\ owner' = owner /\ held' = held
          /\ pc' = [pc EXCEPT ![r] = "set_pending"] /\ pc[r] = "acquire"
      BY <1>2, <2>3 DEF Acquire, SetLock, Goto
    <3> QED
      BY <2>1, <3>1
  <2> QED
    BY <2>2, <2>3
<1>3. ASSUME NEW r \in Runs, SetPendingPrompt(r) PROVE TypeInv'
  BY <1>3 DEF SetPendingPrompt, Goto
<1>4. ASSUME NEW r \in Runs, SendCancelSignal(r) PROVE TypeInv'
  BY <1>4 DEF SendCancelSignal, Goto, Subscribed
<1>5. ASSUME NEW r \in Runs, SeeRelease(r) PROVE TypeInv'
  BY <1>5 DEF SeeRelease, Goto
<1>6. ASSUME NEW r \in Runs, WaitTimeout(r) PROVE TypeInv'
  BY <1>6 DEF WaitTimeout, Goto, Fail
<1>7. ASSUME NEW r \in Runs, Reacquire(r) PROVE TypeInv'
  <2>1. UNCHANGED <<pendingPrompt, inbox, saved, mail, turnVars, ctlVars,
                  envVars, ran, waiters>>
    BY <1>7 DEF Reacquire
  <2>2. CASE lock = None
    <3>1. /\ lock' = JobOf[r] /\ owner' = r /\ held' = [held EXCEPT ![r] = TRUE]
          /\ outcome' = outcome
          /\ pc' = [pc EXCEPT ![r] = "take_pending"] /\ pc[r] = "reacquire"
      BY <1>7, <2>2 DEF Reacquire, SetLock, Goto, Fail
    <3> QED
      BY <2>1, <3>1
  <2>3. CASE lock # None
    <3>1. /\ lock' = lock /\ owner' = owner /\ held' = held
          /\ outcome' = [outcome EXCEPT ![r] = "error"]
          /\ pc' = [pc EXCEPT ![r] = "complete"] /\ pc[r] = "reacquire"
      BY <1>7, <2>3 DEF Reacquire, SetLock, Goto, Fail
    <3> QED
      BY <2>1, <3>1
  <2> QED
    BY <2>2, <2>3
<1>8. ASSUME NEW r \in Runs, TakePendingPrompt(r) PROVE TypeInv'
  BY <1>8 DEF TakePendingPrompt, Goto
<1>9. ASSUME NEW r \in Runs, Prepare(r) PROVE TypeInv'
  BY <1>9 DEF Prepare, Goto
<1>10. ASSUME NEW r \in Runs, PrepareFails(r) PROVE TypeInv'
  BY <1>10 DEF PrepareFails, Goto, Fail
<1>11. ASSUME NEW r \in Runs, BeginTurn(r) PROVE TypeInv'
  BY <1>11 DEF BeginTurn, Goto
<1>12. ASSUME NEW r \in Runs, SdkEnds(r) PROVE TypeInv'
  BY <1>12 DEF SdkEnds
<1>13. ASSUME NEW r \in Runs, HandleCancel(r) PROVE TypeInv'
  BY <1>13 DEF HandleCancel
<1>14. ASSUME NEW r \in Runs, LeaveTurn(r) PROVE TypeInv'
  BY <1>14 DEF LeaveTurn, Goto
<1>15. ASSUME NEW r \in Runs, TurnRaises(r) PROVE TypeInv'
  BY <1>15 DEF TurnRaises, Goto, Fail
<1>16. ASSUME NEW r \in Runs, Supersede(r) PROVE TypeInv'
  BY <1>16 DEF Supersede, Goto
<1>17. ASSUME NEW r \in Runs, AutoContinue(r) PROVE TypeInv'
  BY <1>17 DEF AutoContinue, Goto
<1>18. ASSUME NEW r \in Runs, LeaveLoop(r) PROVE TypeInv'
  BY <1>18 DEF LeaveLoop, Goto
<1>19. ASSUME NEW r \in Runs, Teardown(r) PROVE TypeInv'
  <2>1. CASE streaming[r]
    <3>1. ctlMail' \in [Runs -> Seq(Msgs \cup {Stop})]
      <4>1. ctlMail' = [ctlMail EXCEPT ![r] = <<>>]
        BY <1>19, <2>1 DEF Teardown, CloseChannel, Goto
      <4>2. <<>> \in Seq(Msgs \cup {Stop})
        OBVIOUS
      <4> QED
        BY <4>1, <4>2
    <3>2. /\ ctl' = [ctl EXCEPT ![r] = "off"]
          /\ ctlPushed' = [ctlPushed EXCEPT ![r] = FALSE]
      BY <1>19, <2>1 DEF Teardown, CloseChannel, Goto
    <3>3. /\ pc[r] = "teardown" /\ pc' = [pc EXCEPT ![r] = "save"]
          /\ UNCHANGED <<lockVars, pendingPrompt, inbox, saved, held, mail,
                         turnVars, outcome, streaming, envVars, ran, waiters>>
      BY <1>19 DEF Teardown, Goto
    <3> QED
      BY <3>1, <3>2, <3>3
  <2>2. CASE ~streaming[r]
    BY <1>19, <2>2 DEF Teardown, CloseChannel, Goto
  <2> QED
    BY <2>1, <2>2
<1>20. ASSUME NEW r \in Runs, SaveSession(r) PROVE TypeInv'
  BY <1>20 DEF SaveSession, Goto
<1>21. ASSUME NEW r \in Runs, NoResult(r) PROVE TypeInv'
  BY <1>21 DEF NoResult, Goto
<1>22. ASSUME NEW r \in Runs, Complete(r) PROVE TypeInv'
  BY <1>22 DEF Complete, Goto
<1>23. ASSUME NEW r \in Runs, Release(r) PROVE TypeInv'
  BY <1>23 DEF Release, Goto
<1>24. ASSUME NEW r \in Runs, CtlSubscribe(r) PROVE TypeInv'
  BY <1>24 DEF CtlSubscribe
<1>25. ASSUME NEW r \in Runs, CtlPush(r) PROVE TypeInv'
  BY <1>25 DEF CtlPush
<1>26. ASSUME NEW r \in Runs, CtlInterrupt(r) PROVE TypeInv'
  BY <1>26 DEF CtlInterrupt
<1>27. ASSUME NEW r \in Runs, Crash(r) PROVE TypeInv'
  BY <1>27 DEF Crash, CloseChannel
<1>28. ASSUME NEW r \in Runs, CtlDrops(r) PROVE TypeInv'
  BY <1>28 DEF CtlDrops
<1>29. ASSUME NEW m \in Browser, BrowserSends(m) PROVE TypeInv'
  BY <1>29 DEF BrowserSends
<1>30. ASSUME NEW m \in Msgs, InjectPush(m) PROVE TypeInv'
  BY <1>30 DEF InjectPush
<1>31. ASSUME NEW m \in Msgs, QueueFollowUp(m) PROVE TypeInv'
  BY <1>31 DEF QueueFollowUp
<1>32. ASSUME NEW m \in Msgs, InjectSignal(m) PROVE TypeInv'
  BY <1>32 DEF InjectSignal, Subscribed
<1>33. CASE LockExpires
  BY <1>33 DEF LockExpires
<1>34. CASE PendingExpires
  BY <1>34 DEF PendingExpires
<1>35. CASE UNCHANGED vars
  BY <1>35 DEF vars
<1> QED
  BY <1>1, <1>2, <1>3, <1>4, <1>5, <1>6, <1>7, <1>8, <1>9, <1>10, <1>11,
     <1>12, <1>13, <1>14, <1>15, <1>16, <1>17, <1>18, <1>19, <1>20, <1>21,
     <1>22, <1>23, <1>24, <1>25, <1>26, <1>27, <1>28, <1>29, <1>30, <1>31,
     <1>32, <1>33, <1>34, <1>35
  DEF Next, RunStep, SetupStep, LoopStep, EndStep, CtlStep, Fault

\* Type correctness of process(), with the bound on continue_count.
THEOREM TypeInvariant == Spec => []TypeInv
<1>1. Init => TypeInv
  <2> SUFFICES ASSUME Init PROVE TypeInv
    OBVIOUS
  <2>1. inbox \in Seq(Msgs) /\ ctlMail \in [Runs -> Seq(Msgs \cup {Stop})]
    BY DEF Init
  <2>2. turns \in [Runs -> 0..(MaxContinues + 1)] /\ crashes \in 0..MaxCrashes
    BY JobProcessorAssumption DEF Init
  <2>3. TypeOK
    BY <2>1, <2>2, JobProcessorAssumption DEF Init, TypeOK, PCs
  <2>4. TurnCount
    BY JobProcessorAssumption DEF Init, TurnCount
  <2> QED
    BY <2>3, <2>4 DEF TypeInv
<1> QED
  BY <1>1, TypeInvStep, PTL DEF Spec

\* Every variable of the processor keeps its type; in particular the loop
\* counter never passes MAX_AUTO_CONTINUES + 1.
THEOREM TypeCorrect == Spec => []TypeOK
<1>1. TypeInv => TypeOK
  BY DEF TypeInv
<1> QED
  BY <1>1, TypeInvariant, PTL

-----------------------------------------------------------------------------

\* Every step keeps the lock key, its writer and the flags in agreement.
LEMMA LockInvStep ==
  TypeInv /\ LockInv /\ [Next]_vars => LockInv'
<1> SUFFICES ASSUME TypeInv, LockInv, [Next]_vars PROVE LockInv'
  OBVIOUS
<1> USE JobProcessorAssumption
<1> USE DEF LockInv, Using, TypeInv, TypeOK, TurnCount, BeforeLoop, PCs,
            UsingPCs, EndPCs, lockVars, turnVars, ctlVars, envVars
<1>1. ASSUME NEW r \in Runs, StartRun(r) PROVE LockInv'
  BY <1>1 DEF StartRun, Goto
<1>2. ASSUME NEW r \in Runs, Acquire(r) PROVE LockInv'
  BY <1>2 DEF Acquire, SetLock, Goto
<1>3. ASSUME NEW r \in Runs, SetPendingPrompt(r) PROVE LockInv'
  BY <1>3 DEF SetPendingPrompt, Goto
<1>4. ASSUME NEW r \in Runs, SendCancelSignal(r) PROVE LockInv'
  BY <1>4 DEF SendCancelSignal, Goto, Subscribed
<1>5. ASSUME NEW r \in Runs, SeeRelease(r) PROVE LockInv'
  BY <1>5 DEF SeeRelease, Goto
<1>6. ASSUME NEW r \in Runs, WaitTimeout(r) PROVE LockInv'
  BY <1>6 DEF WaitTimeout, Goto, Fail
<1>7. ASSUME NEW r \in Runs, Reacquire(r) PROVE LockInv'
  BY <1>7 DEF Reacquire, SetLock, Goto, Fail
<1>8. ASSUME NEW r \in Runs, TakePendingPrompt(r) PROVE LockInv'
  BY <1>8 DEF TakePendingPrompt, Goto
<1>9. ASSUME NEW r \in Runs, Prepare(r) PROVE LockInv'
  BY <1>9 DEF Prepare, Goto
<1>10. ASSUME NEW r \in Runs, PrepareFails(r) PROVE LockInv'
  BY <1>10 DEF PrepareFails, Goto, Fail
<1>11. ASSUME NEW r \in Runs, BeginTurn(r) PROVE LockInv'
  BY <1>11 DEF BeginTurn, Goto
<1>12. ASSUME NEW r \in Runs, SdkEnds(r) PROVE LockInv'
  BY <1>12 DEF SdkEnds
<1>13. ASSUME NEW r \in Runs, HandleCancel(r) PROVE LockInv'
  BY <1>13 DEF HandleCancel
<1>14. ASSUME NEW r \in Runs, LeaveTurn(r) PROVE LockInv'
  BY <1>14 DEF LeaveTurn, Goto
<1>15. ASSUME NEW r \in Runs, TurnRaises(r) PROVE LockInv'
  BY <1>15 DEF TurnRaises, Goto, Fail
<1>16. ASSUME NEW r \in Runs, Supersede(r) PROVE LockInv'
  BY <1>16 DEF Supersede, Goto
<1>17. ASSUME NEW r \in Runs, AutoContinue(r) PROVE LockInv'
  BY <1>17 DEF AutoContinue, Goto
<1>18. ASSUME NEW r \in Runs, LeaveLoop(r) PROVE LockInv'
  BY <1>18 DEF LeaveLoop, Goto
<1>19. ASSUME NEW r \in Runs, Teardown(r) PROVE LockInv'
  BY <1>19 DEF Teardown, CloseChannel, Goto
<1>20. ASSUME NEW r \in Runs, SaveSession(r) PROVE LockInv'
  BY <1>20 DEF SaveSession, Goto
<1>21. ASSUME NEW r \in Runs, NoResult(r) PROVE LockInv'
  BY <1>21 DEF NoResult, Goto
<1>22. ASSUME NEW r \in Runs, Complete(r) PROVE LockInv'
  BY <1>22 DEF Complete, Goto
<1>23. ASSUME NEW r \in Runs, Release(r) PROVE LockInv'
  BY <1>23 DEF Release, Goto
<1>24. ASSUME NEW r \in Runs, CtlSubscribe(r) PROVE LockInv'
  BY <1>24 DEF CtlSubscribe
<1>25. ASSUME NEW r \in Runs, CtlPush(r) PROVE LockInv'
  BY <1>25 DEF CtlPush
<1>26. ASSUME NEW r \in Runs, CtlInterrupt(r) PROVE LockInv'
  BY <1>26 DEF CtlInterrupt
<1>27. ASSUME NEW r \in Runs, Crash(r) PROVE LockInv'
  BY <1>27 DEF Crash, CloseChannel
<1>28. ASSUME NEW r \in Runs, CtlDrops(r) PROVE LockInv'
  BY <1>28 DEF CtlDrops
<1>29. ASSUME NEW m \in Browser, BrowserSends(m) PROVE LockInv'
  BY <1>29 DEF BrowserSends
<1>30. ASSUME NEW m \in Msgs, InjectPush(m) PROVE LockInv'
  BY <1>30 DEF InjectPush
<1>31. ASSUME NEW m \in Msgs, QueueFollowUp(m) PROVE LockInv'
  BY <1>31 DEF QueueFollowUp
<1>32. ASSUME NEW m \in Msgs, InjectSignal(m) PROVE LockInv'
  BY <1>32 DEF InjectSignal, Subscribed
<1>33. CASE LockExpires
  BY <1>33 DEF LockExpires
<1>34. CASE PendingExpires
  BY <1>34 DEF PendingExpires
<1>35. CASE UNCHANGED vars
  BY <1>35 DEF vars
<1> QED
  BY <1>1, <1>2, <1>3, <1>4, <1>5, <1>6, <1>7, <1>8, <1>9, <1>10, <1>11,
     <1>12, <1>13, <1>14, <1>15, <1>16, <1>17, <1>18, <1>19, <1>20, <1>21,
     <1>22, <1>23, <1>24, <1>25, <1>26, <1>27, <1>28, <1>29, <1>30, <1>31,
     <1>32, <1>33, <1>34, <1>35
  DEF Next, RunStep, SetupStep, LoopStep, EndStep, CtlStep, Fault

\* The agreement of the lock key, its writer and the flags.
THEOREM LockInvariant == Spec => []LockInv
<1>1. Init => LockInv
  BY JobProcessorAssumption DEF Init, LockInv, Using, UsingPCs
<1> QED
  BY <1>1, LockInvStep, TypeInvariant, PTL DEF Spec

\* WorktreeLock: while no live holder outlasts the lock's TTL, two runs are never
\* in the worktree together, for any number of runs, waiters and crashes.
THEOREM Mutex == Spec => []MutexWithinTTL
<1>1. LockInv => MutexWithinTTL
  BY DEF LockInv, MutexWithinTTL, Using, UsingPCs
<1> QED
  BY <1>1, LockInvariant, PTL

\* WorktreeLock.release: if every job id is run once, a release frees only the
\* lock its own run wrote, even after an expiry and a new holder.
THEOREM ReleaseOwn ==
  ASSUME \A r, q \in Runs : JobOf[r] = JobOf[q] => r = q
  PROVE  Spec => ReleaseFreesOwnLock
<1>1. ASSUME TypeInv, LockInv, [Next]_vars, NEW r \in Runs,
             pc[r] = "release", pc'[r] = "done", lock' # lock
      PROVE  owner = r
  <2>1. Release(r)
    <3> USE <1>1 DEF TypeInv, TypeOK, Goto, Fail, lockVars
    <3>1. ASSUME NEW q \in Runs, SetupStep(q) PROVE FALSE
      BY <3>1
      DEF SetupStep, Acquire, SetPendingPrompt, SendCancelSignal, SeeRelease,
          WaitTimeout, Reacquire, TakePendingPrompt, Prepare, PrepareFails
    <3>2. ASSUME NEW q \in Runs, LoopStep(q) PROVE FALSE
      BY <3>2
      DEF LoopStep, BeginTurn, SdkEnds, HandleCancel, LeaveTurn, TurnRaises,
          Supersede, AutoContinue, LeaveLoop, Teardown
    <3>3. ASSUME NEW q \in Runs, EndStep(q) PROVE q = r /\ Release(q)
      BY <3>3 DEF EndStep, SaveSession, NoResult, Complete, Release
    <3>4. ASSUME NEW q \in Runs, StartRun(q) \/ CtlStep(q) \/ Fault(q) PROVE FALSE
      BY <3>4
      DEF StartRun, CtlStep, CtlSubscribe, CtlPush, CtlInterrupt, Fault, Crash,
          CtlDrops
    <3>5. ~UNCHANGED vars /\ ~LockExpires /\ ~PendingExpires
      BY DEF vars, LockExpires, PendingExpires
    <3>6. /\ ~\E m \in Browser : BrowserSends(m)
          /\ ~\E m \in Msgs : QueueFollowUp(m) \/ InjectPush(m) \/ InjectSignal(m)
      BY DEF BrowserSends, QueueFollowUp, InjectPush, InjectSignal
    <3> QED
      BY <3>1, <3>2, <3>3, <3>4, <3>5, <3>6 DEF Next, RunStep
  <2>2. lock = JobOf[r] /\ owner \in Runs
    BY <1>1, <2>1, JobProcessorAssumption
    DEF Release, lockVars, LockInv, TypeInv, TypeOK
  <2> QED
    BY <1>1, <2>2 DEF LockInv
<1>2. TypeInv /\ LockInv /\ [Next]_vars =>
        [\A r \in Runs : pc[r] = "release" /\ pc'[r] = "done" /\ lock' # lock
           => owner = r]_vars
  BY <1>1
<1> QED
  BY <1>2, LockInvariant, TypeInvariant, PTL DEF Spec, ReleaseFreesOwnLock

-----------------------------------------------------------------------------

\* Every step keeps track of who executes a waiting job's prompt.
LEMMA PromptInvStep ==
  TypeInv /\ PromptInv /\ [Next]_vars => PromptInv'
<1> SUFFICES ASSUME TypeInv, PromptInv, [Next]_vars PROVE PromptInv'
  OBVIOUS
<1> USE JobProcessorAssumption
<1> USE DEF PromptInv, Executed, WillExecute, TypeInv, TypeOK, TurnCount,
            BeforeLoop, PCs, UsingPCs, EndPCs, lockVars, turnVars, ctlVars, envVars
<1>1. ASSUME NEW r \in Runs, StartRun(r) PROVE PromptInv'
  BY <1>1 DEF StartRun, Goto
<1>2. ASSUME NEW r \in Runs, Acquire(r) PROVE PromptInv'
  <2>1. UNCHANGED <<pendingPrompt, inbox, saved, mail, turnVars, ctlVars,
                  envVars, ran, waiters, outcome>>
    BY <1>2 DEF Acquire
  <2>2. CASE lock = None
    <3>1. /\ lock' = JobOf[r] /\ owner' = r /\ held' = [held EXCEPT ![r] = TRUE]
          /\ pc' = [pc EXCEPT ![r] = "prepare"] /\ pc[r] = "acquire"
      BY <1>2, <2>2 DEF Acquire, SetLock, Goto
    <3> QED
      BY <2>1, <3>1
  <2>3. CASE lock # None
    <3>1. /\ lock' = lock /\ owner' = owner /\ held' = held
          /\ pc' = [pc EXCEPT ![r] = "set_pending"] /\ pc[r] = "acquire"
      BY <1>2, <2>3 DEF Acquire, SetLock, Goto
    <3> QED
      BY <2>1, <3>1
  <2> QED
    BY <2>2, <2>3
<1>3. ASSUME NEW r \in Runs, SetPendingPrompt(r) PROVE PromptInv'
  BY <1>3 DEF SetPendingPrompt, Goto
<1>4. ASSUME NEW r \in Runs, SendCancelSignal(r) PROVE PromptInv'
  BY <1>4 DEF SendCancelSignal, Goto, Subscribed
<1>5. ASSUME NEW r \in Runs, SeeRelease(r) PROVE PromptInv'
  BY <1>5 DEF SeeRelease, Goto
<1>6. ASSUME NEW r \in Runs, WaitTimeout(r) PROVE PromptInv'
  BY <1>6 DEF WaitTimeout, Goto, Fail
<1>7. ASSUME NEW r \in Runs, Reacquire(r) PROVE PromptInv'
  <2>1. UNCHANGED <<pendingPrompt, inbox, saved, mail, turnVars, ctlVars,
                  envVars, ran, waiters>>
    BY <1>7 DEF Reacquire
  <2>2. CASE lock = None
    <3>1. /\ lock' = JobOf[r] /\ owner' = r /\ held' = [held EXCEPT ![r] = TRUE]
          /\ outcome' = outcome
          /\ pc' = [pc EXCEPT ![r] = "take_pending"] /\ pc[r] = "reacquire"
      BY <1>7, <2>2 DEF Reacquire, SetLock, Goto, Fail
    <3> QED
      BY <2>1, <3>1
  <2>3. CASE lock # None
    <3>1. /\ lock' = lock /\ owner' = owner /\ held' = held
          /\ outcome' = [outcome EXCEPT ![r] = "error"]
          /\ pc' = [pc EXCEPT ![r] = "complete"] /\ pc[r] = "reacquire"
      BY <1>7, <2>3 DEF Reacquire, SetLock, Goto, Fail
    <3> QED
      BY <2>1, <3>1
  <2> QED
    BY <2>2, <2>3
<1>8. ASSUME NEW r \in Runs, TakePendingPrompt(r) PROVE PromptInv'
  BY <1>8 DEF TakePendingPrompt, Goto
<1>9. ASSUME NEW r \in Runs, Prepare(r) PROVE PromptInv'
  BY <1>9 DEF Prepare, Goto
<1>10. ASSUME NEW r \in Runs, PrepareFails(r) PROVE PromptInv'
  BY <1>10 DEF PrepareFails, Goto, Fail
<1>11. ASSUME NEW r \in Runs, BeginTurn(r) PROVE PromptInv'
  BY <1>11 DEF BeginTurn, Goto
<1>12. ASSUME NEW r \in Runs, SdkEnds(r) PROVE PromptInv'
  BY <1>12 DEF SdkEnds
<1>13. ASSUME NEW r \in Runs, HandleCancel(r) PROVE PromptInv'
  BY <1>13 DEF HandleCancel
<1>14. ASSUME NEW r \in Runs, LeaveTurn(r) PROVE PromptInv'
  BY <1>14 DEF LeaveTurn, Goto
<1>15. ASSUME NEW r \in Runs, TurnRaises(r) PROVE PromptInv'
  BY <1>15 DEF TurnRaises, Goto, Fail
<1>16. ASSUME NEW r \in Runs, Supersede(r) PROVE PromptInv'
  BY <1>16 DEF Supersede, Goto
<1>17. ASSUME NEW r \in Runs, AutoContinue(r) PROVE PromptInv'
  BY <1>17 DEF AutoContinue, Goto
<1>18. ASSUME NEW r \in Runs, LeaveLoop(r) PROVE PromptInv'
  BY <1>18 DEF LeaveLoop, Goto
<1>19. ASSUME NEW r \in Runs, Teardown(r) PROVE PromptInv'
  BY <1>19 DEF Teardown, CloseChannel, Goto
<1>20. ASSUME NEW r \in Runs, SaveSession(r) PROVE PromptInv'
  BY <1>20 DEF SaveSession, Goto
<1>21. ASSUME NEW r \in Runs, NoResult(r) PROVE PromptInv'
  BY <1>21 DEF NoResult, Goto
<1>22. ASSUME NEW r \in Runs, Complete(r) PROVE PromptInv'
  BY <1>22 DEF Complete, Goto
<1>23. ASSUME NEW r \in Runs, Release(r) PROVE PromptInv'
  BY <1>23 DEF Release, Goto
<1>24. ASSUME NEW r \in Runs, CtlSubscribe(r) PROVE PromptInv'
  BY <1>24 DEF CtlSubscribe
<1>25. ASSUME NEW r \in Runs, CtlPush(r) PROVE PromptInv'
  BY <1>25 DEF CtlPush
<1>26. ASSUME NEW r \in Runs, CtlInterrupt(r) PROVE PromptInv'
  BY <1>26 DEF CtlInterrupt
<1>27. ASSUME NEW r \in Runs, Crash(r) PROVE PromptInv'
  BY <1>27 DEF Crash, CloseChannel
<1>28. ASSUME NEW r \in Runs, CtlDrops(r) PROVE PromptInv'
  BY <1>28 DEF CtlDrops
<1>29. ASSUME NEW m \in Browser, BrowserSends(m) PROVE PromptInv'
  BY <1>29 DEF BrowserSends
<1>30. ASSUME NEW m \in Msgs, InjectPush(m) PROVE PromptInv'
  BY <1>30 DEF InjectPush
<1>31. ASSUME NEW m \in Msgs, QueueFollowUp(m) PROVE PromptInv'
  BY <1>31 DEF QueueFollowUp
<1>32. ASSUME NEW m \in Msgs, InjectSignal(m) PROVE PromptInv'
  BY <1>32 DEF InjectSignal, Subscribed
<1>33. CASE LockExpires
  BY <1>33 DEF LockExpires
<1>34. CASE PendingExpires
  BY <1>34 DEF PendingExpires
<1>35. CASE UNCHANGED vars
  BY <1>35 DEF vars
<1> QED
  BY <1>1, <1>2, <1>3, <1>4, <1>5, <1>6, <1>7, <1>8, <1>9, <1>10, <1>11,
     <1>12, <1>13, <1>14, <1>15, <1>16, <1>17, <1>18, <1>19, <1>20, <1>21,
     <1>22, <1>23, <1>24, <1>25, <1>26, <1>27, <1>28, <1>29, <1>30, <1>31,
     <1>32, <1>33, <1>34, <1>35
  DEF Next, RunStep, SetupStep, LoopStep, EndStep, CtlStep, Fault

\* set_pending_prompt / get_pending_prompt: a job reported as a success had its
\* prompt executed, or the prompt of another waiter that took its slot was.
THEOREM PromptAccounted == Spec => []PromptLostOnlyByOverwrite
<1>1. Init => PromptInv
  BY JobProcessorAssumption DEF Init, PromptInv, BeforeLoop
<1>2. PromptInv => PromptLostOnlyByOverwrite
  BY DEF PromptInv, PromptLostOnlyByOverwrite, Executed
<1> QED
  BY <1>1, <1>2, PromptInvStep, TypeInvariant, PTL DEF Spec

-----------------------------------------------------------------------------

\* What RPUSH does to the inbox: nothing leaves it, the message is in it.
LEMMA InboxAppend ==
  ASSUME TypeOK, NEW m \in Msgs, inbox' = Append(inbox, m), NEW k \in Msgs,
         InInbox(k) \/ k = m
  PROVE  InInbox(k)'
<1>1. CASE k = m
  <2>1. Len(inbox) + 1 \in DOMAIN inbox' /\ inbox'[Len(inbox) + 1] = k
    BY <1>1 DEF TypeOK
  <2> QED
    BY <2>1 DEF InInbox
<1>2. CASE InInbox(k)
  <2>1. PICK i \in DOMAIN inbox : inbox[i] = k
    BY <1>2 DEF InInbox
  <2>2. i \in DOMAIN inbox' /\ inbox'[i] = k
    BY <2>1 DEF TypeOK
  <2> QED
    BY <2>2 DEF InInbox
<1> QED
  BY <1>1, <1>2

\* Storing one more message keeps the account of the others: the inbox loses
\* nothing, the turns are left alone, and the new message is in the inbox.
LEMMA AccountedKept ==
  ASSUME FollowUpsAccounted, stored \subseteq Msgs, NEW m \in Msgs,
         \A k \in Msgs : InInbox(k) \/ k = m => InInbox(k)',
         stored' = stored \cup {m}, ran' = ran,
         UNCHANGED <<pc, turns, current>>
  PROVE  FollowUpsAccounted'
<1> SUFFICES ASSUME NEW k \in stored'
             PROVE  \/ InInbox(k)' \/ k \in ran'
                    \/ \E r \in Runs :
                         /\ k \in current'[r]
                         /\ \/ pc'[r] \in {"turn", "dead"}
                            \/ turns'[r] > MaxContinues
  BY DEF FollowUpsAccounted, InInbox
<1>1. CASE InInbox(k) \/ k = m
  BY <1>1
<1>2. CASE k \in stored /\ ~InInbox(k)
  BY <1>2 DEF FollowUpsAccounted, InInbox
<1> QED
  BY <1>1, <1>2

\* Every step moves a follow-up from the inbox to a turn, or leaves it there.
LEMMA FollowUpStep ==
  TypeInv /\ FollowUpsAccounted /\ [Next]_vars => FollowUpsAccounted'
<1> SUFFICES ASSUME TypeInv, FollowUpsAccounted, [Next]_vars
             PROVE  FollowUpsAccounted'
  OBVIOUS
<1> USE JobProcessorAssumption
<1> USE DEF FollowUpsAccounted, TypeInv, TypeOK, TurnCount, BeforeLoop, PCs,
            UsingPCs, EndPCs, lockVars, turnVars, ctlVars, envVars
<1>1. ASSUME NEW r \in Runs, StartRun(r) PROVE FollowUpsAccounted'
  <2>1. pc[r] = "idle" /\ turns[r] = 0
    BY <1>1 DEF StartRun, Goto
  <2>2. /\ stored' = stored /\ ran' = ran /\ inbox' = inbox /\ turns' = turns
        /\ \A q \in Runs \ {r} : pc'[q] = pc[q] /\ current'[q] = current[q]
    BY <1>1 DEF StartRun, Goto
  <2>3. \A q \in Runs : pc[q] \in {"turn", "dead"} \/ turns[q] > MaxContinues
                       => q # r
    BY <2>1
  <2> QED
    BY <2>2, <2>3
<1>2. ASSUME NEW r \in Runs, Acquire(r) PROVE FollowUpsAccounted'
  <2>1. UNCHANGED <<pendingPrompt, inbox, saved, mail, turnVars, ctlVars,
                  envVars, ran, waiters, outcome>>
    BY <1>2 DEF Acquire
  <2>2. CASE lock = None
    <3>1. /\ lock' = JobOf[r] /\ owner' = r /\ held' = [held EXCEPT ![r] = TRUE]
          /\ pc' = [pc EXCEPT ![r] = "prepare"] /\ pc[r] = "acquire"
      BY <1>2, <2>2 DEF Acquire, SetLock, Goto
    <3> QED
      BY <2>1, <3>1
  <2>3. CASE lock # None
    <3>1. /\ lock' = lock /\ owner' = owner /\ held' = held
          /\ pc' = [pc EXCEPT ![r] = "set_pending"] /\ pc[r] = "acquire"
      BY <1>2, <2>3 DEF Acquire, SetLock, Goto
    <3> QED
      BY <2>1, <3>1
  <2> QED
    BY <2>2, <2>3
<1>3. ASSUME NEW r \in Runs, SetPendingPrompt(r) PROVE FollowUpsAccounted'
  BY <1>3 DEF SetPendingPrompt, Goto
<1>4. ASSUME NEW r \in Runs, SendCancelSignal(r) PROVE FollowUpsAccounted'
  BY <1>4 DEF SendCancelSignal, Goto, Subscribed
<1>5. ASSUME NEW r \in Runs, SeeRelease(r) PROVE FollowUpsAccounted'
  BY <1>5 DEF SeeRelease, Goto
<1>6. ASSUME NEW r \in Runs, WaitTimeout(r) PROVE FollowUpsAccounted'
  BY <1>6 DEF WaitTimeout, Goto, Fail
<1>7. ASSUME NEW r \in Runs, Reacquire(r) PROVE FollowUpsAccounted'
  <2>1. UNCHANGED <<pendingPrompt, inbox, saved, mail, turnVars, ctlVars,
                  envVars, ran, waiters>>
    BY <1>7 DEF Reacquire
  <2>2. CASE lock = None
    <3>1. /\ lock' = JobOf[r] /\ owner' = r /\ held' = [held EXCEPT ![r] = TRUE]
          /\ outcome' = outcome
          /\ pc' = [pc EXCEPT ![r] = "take_pending"] /\ pc[r] = "reacquire"
      BY <1>7, <2>2 DEF Reacquire, SetLock, Goto, Fail
    <3> QED
      BY <2>1, <3>1
  <2>3. CASE lock # None
    <3>1. /\ lock' = lock /\ owner' = owner /\ held' = held
          /\ outcome' = [outcome EXCEPT ![r] = "error"]
          /\ pc' = [pc EXCEPT ![r] = "complete"] /\ pc[r] = "reacquire"
      BY <1>7, <2>3 DEF Reacquire, SetLock, Goto, Fail
    <3> QED
      BY <2>1, <3>1
  <2> QED
    BY <2>2, <2>3
<1>8. ASSUME NEW r \in Runs, TakePendingPrompt(r) PROVE FollowUpsAccounted'
  <2>1. pc[r] = "take_pending" /\ turns[r] = 0
    BY <1>8 DEF TakePendingPrompt, Goto
  <2>2. /\ stored' = stored /\ ran' = ran /\ inbox' = inbox /\ turns' = turns
        /\ \A q \in Runs \ {r} : pc'[q] = pc[q] /\ current'[q] = current[q]
    BY <1>8 DEF TakePendingPrompt, Goto
  <2>3. \A q \in Runs : pc[q] \in {"turn", "dead"} \/ turns[q] > MaxContinues
                       => q # r
    BY <2>1
  <2> QED
    BY <2>2, <2>3
<1>9. ASSUME NEW r \in Runs, Prepare(r) PROVE FollowUpsAccounted'
  BY <1>9 DEF Prepare, Goto
<1>10. ASSUME NEW r \in Runs, PrepareFails(r) PROVE FollowUpsAccounted'
  BY <1>10 DEF PrepareFails, Goto, Fail
<1>11. ASSUME NEW r \in Runs, BeginTurn(r) PROVE FollowUpsAccounted'
  BY <1>11 DEF BeginTurn, Goto
<1>12. ASSUME NEW r \in Runs, SdkEnds(r) PROVE FollowUpsAccounted'
  BY <1>12 DEF SdkEnds
<1>13. ASSUME NEW r \in Runs, HandleCancel(r) PROVE FollowUpsAccounted'
  BY <1>13 DEF HandleCancel
<1>14. ASSUME NEW r \in Runs, LeaveTurn(r) PROVE FollowUpsAccounted'
  BY <1>14 DEF LeaveTurn, Goto
<1>15. ASSUME NEW r \in Runs, TurnRaises(r) PROVE FollowUpsAccounted'
  BY <1>15 DEF TurnRaises, Goto, Fail
<1>16. ASSUME NEW r \in Runs, Supersede(r) PROVE FollowUpsAccounted'
  BY <1>16 DEF Supersede, Goto
<1>17. ASSUME NEW r \in Runs, AutoContinue(r) PROVE FollowUpsAccounted'
  <2>1. ASSUME NEW m \in Msgs, InInbox(m) PROVE m \in current'[r]
    BY <1>17, <2>1 DEF AutoContinue, InInbox
  <2>2. pc'[r] = "turn" \/ turns'[r] > MaxContinues
    BY <1>17 DEF AutoContinue, Goto
  <2>3. turns[r] \in 0..MaxContinues /\ pc[r] = "after"
    BY <1>17 DEF AutoContinue, Goto
  <2>4. \A q \in Runs \ {r} : /\ pc'[q] = pc[q] /\ turns'[q] = turns[q]
                              /\ current'[q] = current[q]
    BY <1>17 DEF AutoContinue, Goto
  <2>5. stored' = stored /\ ran' = ran
    BY <1>17 DEF AutoContinue
  <2> SUFFICES ASSUME NEW m \in stored
               PROVE  m \in ran \/ \E q \in Runs :
                        /\ m \in current'[q]
                        /\ pc'[q] \in {"turn", "dead"} \/ turns'[q] > MaxContinues
    BY <2>5
  <2>6. CASE InInbox(m)
    BY <2>1, <2>2, <2>6
  <2>7. CASE \E q \in Runs :
               /\ m \in current[q]
               /\ pc[q] \in {"turn", "dead"} \/ turns[q] > MaxContinues
    <3>1. PICK q \in Runs :
               /\ m \in current[q]
               /\ pc[q] \in {"turn", "dead"} \/ turns[q] > MaxContinues
      BY <2>7
    <3>2. q # r
      BY <2>3, <3>1
    <3> QED
      BY <2>4, <3>1, <3>2
  <2> QED
    BY <2>6, <2>7 DEF InInbox
<1>18. ASSUME NEW r \in Runs, LeaveLoop(r) PROVE FollowUpsAccounted'
  BY <1>18 DEF LeaveLoop, Goto
<1>19. ASSUME NEW r \in Runs, Teardown(r) PROVE FollowUpsAccounted'
  BY <1>19 DEF Teardown, CloseChannel, Goto
<1>20. ASSUME NEW r \in Runs, SaveSession(r) PROVE FollowUpsAccounted'
  BY <1>20 DEF SaveSession, Goto
<1>21. ASSUME NEW r \in Runs, NoResult(r) PROVE FollowUpsAccounted'
  BY <1>21 DEF NoResult, Goto
<1>22. ASSUME NEW r \in Runs, Complete(r) PROVE FollowUpsAccounted'
  BY <1>22 DEF Complete, Goto
<1>23. ASSUME NEW r \in Runs, Release(r) PROVE FollowUpsAccounted'
  BY <1>23 DEF Release, Goto
<1>24. ASSUME NEW r \in Runs, CtlSubscribe(r) PROVE FollowUpsAccounted'
  BY <1>24 DEF CtlSubscribe
<1>25. ASSUME NEW r \in Runs, CtlPush(r) PROVE FollowUpsAccounted'
  <2>1. PICK m \in Msgs : m = Head(ctlMail[r])
    BY <1>25 DEF CtlPush
  <2>2. inbox' = Append(inbox, m)
    BY <1>25, <2>1 DEF CtlPush
  <2>3. \A k \in Msgs : InInbox(k) \/ k = m => InInbox(k)'
    BY <2>2, InboxAppend
  <2>4. /\ stored' = stored \cup {m} /\ ran' = ran
        /\ UNCHANGED <<pc, turns, current>>
    BY <1>25, <2>1 DEF CtlPush
  <2> QED
    BY <2>3, <2>4, AccountedKept
<1>26. ASSUME NEW r \in Runs, CtlInterrupt(r) PROVE FollowUpsAccounted'
  BY <1>26 DEF CtlInterrupt
<1>27. ASSUME NEW r \in Runs, Crash(r) PROVE FollowUpsAccounted'
  BY <1>27 DEF Crash, CloseChannel
<1>28. ASSUME NEW r \in Runs, CtlDrops(r) PROVE FollowUpsAccounted'
  BY <1>28 DEF CtlDrops
<1>29. ASSUME NEW m \in Browser, BrowserSends(m) PROVE FollowUpsAccounted'
  BY <1>29 DEF BrowserSends
<1>30. ASSUME NEW m \in Msgs, InjectPush(m) PROVE FollowUpsAccounted'
  <2>1. \A k \in Msgs : InInbox(k) \/ k = m => InInbox(k)'
    BY <1>30, InboxAppend DEF InjectPush
  <2>2. /\ stored' = stored \cup {m} /\ ran' = ran
        /\ UNCHANGED <<pc, turns, current>>
    BY <1>30 DEF InjectPush
  <2> QED
    BY <2>1, <2>2, AccountedKept
<1>31. ASSUME NEW m \in Msgs, QueueFollowUp(m) PROVE FollowUpsAccounted'
  <2>1. \A k \in Msgs : InInbox(k) \/ k = m => InInbox(k)'
    BY <1>31, InboxAppend DEF QueueFollowUp
  <2>2. /\ stored' = stored \cup {m} /\ ran' = ran
        /\ UNCHANGED <<pc, turns, current>>
    BY <1>31 DEF QueueFollowUp
  <2> QED
    BY <2>1, <2>2, AccountedKept
<1>32. ASSUME NEW m \in Msgs, InjectSignal(m) PROVE FollowUpsAccounted'
  BY <1>32 DEF InjectSignal, Subscribed
<1>33. CASE LockExpires
  BY <1>33 DEF LockExpires
<1>34. CASE PendingExpires
  BY <1>34 DEF PendingExpires
<1>35. CASE UNCHANGED vars
  BY <1>35 DEF vars
<1> QED
  BY <1>1, <1>2, <1>3, <1>4, <1>5, <1>6, <1>7, <1>8, <1>9, <1>10, <1>11,
     <1>12, <1>13, <1>14, <1>15, <1>16, <1>17, <1>18, <1>19, <1>20, <1>21,
     <1>22, <1>23, <1>24, <1>25, <1>26, <1>27, <1>28, <1>29, <1>30, <1>31,
     <1>32, <1>33, <1>34, <1>35
  DEF Next, RunStep, SetupStep, LoopStep, EndStep, CtlStep, Fault

\* pop_inbox_messages / the auto-continue loop: no follow-up that reached the
\* inbox is dropped, except by a run that was killed or had no turn left.
THEOREM FollowUps == Spec => []FollowUpsAccounted
<1>1. Init => FollowUpsAccounted
  BY DEF Init, FollowUpsAccounted
<1> QED
  BY <1>1, FollowUpStep, TypeInvariant, PTL DEF Spec

-----------------------------------------------------------------------------

\* Every step keeps a channel within its run, or leaves it with a run that was
\* superseded, failed or never streamed; a history that is not clean stays so.
LEMMA ChannelStep ==
  TypeInv /\ LockInv /\ ChannelInv /\ [Next]_vars => ChannelInv' /\ (Clean' => Clean)
<1> DEFINE Kept == ChannelInv' /\ (Clean' => Clean)
<1> SUFFICES ASSUME TypeInv, LockInv, ChannelInv, [Next]_vars PROVE Kept
  OBVIOUS
<1> USE JobProcessorAssumption
<1> USE DEF ChannelInv, Clean, LockInv, Using, TypeInv, TypeOK, PCs, UsingPCs,
            EndPCs, lockVars, turnVars, ctlVars, envVars
<1>1. ASSUME NEW r \in Runs, StartRun(r) PROVE Kept
  BY <1>1 DEF StartRun, Goto
<1>2. ASSUME NEW r \in Runs, Acquire(r) PROVE Kept
  BY <1>2 DEF Acquire, SetLock, Goto
<1>3. ASSUME NEW r \in Runs, SetPendingPrompt(r) PROVE Kept
  BY <1>3 DEF SetPendingPrompt, Goto
<1>4. ASSUME NEW r \in Runs, SendCancelSignal(r) PROVE Kept
  BY <1>4 DEF SendCancelSignal, Goto, Subscribed
<1>5. ASSUME NEW r \in Runs, SeeRelease(r) PROVE Kept
  BY <1>5 DEF SeeRelease, Goto
<1>6. ASSUME NEW r \in Runs, WaitTimeout(r) PROVE Kept
  BY <1>6 DEF WaitTimeout, Goto, Fail
<1>7. ASSUME NEW r \in Runs, Reacquire(r) PROVE Kept
  BY <1>7 DEF Reacquire, SetLock, Goto, Fail
<1>8. ASSUME NEW r \in Runs, TakePendingPrompt(r) PROVE Kept
  BY <1>8 DEF TakePendingPrompt, Goto
<1>9. ASSUME NEW r \in Runs, Prepare(r) PROVE Kept
  <2>1. PICK s \in Setups :
          /\ streaming' = [streaming EXCEPT ![r] = (s = "streaming")]
          /\ ctl' = [ctl EXCEPT ![r] = IF s = "none" THEN "off" ELSE "connecting"]
    BY <1>9 DEF Prepare
  <2>2. /\ pc[r] = "prepare" /\ pc' = [pc EXCEPT ![r] = "turn"] /\ held[r]
        /\ UNCHANGED <<held, outcome, lockExpired>>
    BY <1>9 DEF Prepare, Goto
  <2>3. ChannelInv'
    BY <2>1, <2>2
  <2>4. \A q \in Runs : pc[q] = "done" => pc'[q] = "done" /\ ctl'[q] = ctl[q]
    BY <2>1, <2>2
  <2>5. Clean' => Clean
    BY <2>2, <2>4
  <2> HIDE DEF ChannelInv, Clean
  <2> QED
    BY <2>3, <2>5
<1>10. ASSUME NEW r \in Runs, PrepareFails(r) PROVE Kept
  BY <1>10 DEF PrepareFails, Goto, Fail
<1>11. ASSUME NEW r \in Runs, BeginTurn(r) PROVE Kept
  BY <1>11 DEF BeginTurn, Goto
<1>12. ASSUME NEW r \in Runs, SdkEnds(r) PROVE Kept
  BY <1>12 DEF SdkEnds
<1>13. ASSUME NEW r \in Runs, HandleCancel(r) PROVE Kept
  BY <1>13 DEF HandleCancel
<1>14. ASSUME NEW r \in Runs, LeaveTurn(r) PROVE Kept
  BY <1>14 DEF LeaveTurn, Goto
<1>15. ASSUME NEW r \in Runs, TurnRaises(r) PROVE Kept
  BY <1>15 DEF TurnRaises, Goto, Fail
<1>16. ASSUME NEW r \in Runs, Supersede(r) PROVE Kept
  BY <1>16 DEF Supersede, Goto
<1>17. ASSUME NEW r \in Runs, AutoContinue(r) PROVE Kept
  BY <1>17 DEF AutoContinue, Goto
<1>18. ASSUME NEW r \in Runs, LeaveLoop(r) PROVE Kept
  BY <1>18 DEF LeaveLoop, Goto
<1>19. ASSUME NEW r \in Runs, Teardown(r) PROVE Kept
  <2>1. /\ pc[r] = "teardown" /\ pc' = [pc EXCEPT ![r] = "save"]
        /\ UNCHANGED <<held, outcome, streaming, lockExpired>>
    BY <1>19 DEF Teardown, Goto
  <2>2. /\ ctl' = IF streaming[r] THEN [ctl EXCEPT ![r] = "off"] ELSE ctl
        /\ \A q \in Runs : q # r => ctl'[q] = ctl[q]
    BY <1>19 DEF Teardown, CloseChannel
  <2>3. ChannelInv'
    BY <2>1, <2>2
  <2>4. \A q \in Runs : pc[q] = "done" => pc'[q] = "done" /\ ctl'[q] = ctl[q]
    BY <2>1, <2>2
  <2>5. Clean' => Clean
    BY <2>1, <2>4
  <2> HIDE DEF ChannelInv, Clean
  <2> QED
    BY <2>3, <2>5
<1>20. ASSUME NEW r \in Runs, SaveSession(r) PROVE Kept
  BY <1>20 DEF SaveSession, Goto
<1>21. ASSUME NEW r \in Runs, NoResult(r) PROVE Kept
  BY <1>21 DEF NoResult, Goto
<1>22. ASSUME NEW r \in Runs, Complete(r) PROVE Kept
  BY <1>22 DEF Complete, Goto
<1>23. ASSUME NEW r \in Runs, Release(r) PROVE Kept
  BY <1>23 DEF Release, Goto
<1>24. ASSUME NEW r \in Runs, CtlSubscribe(r) PROVE Kept
  BY <1>24 DEF CtlSubscribe
<1>25. ASSUME NEW r \in Runs, CtlPush(r) PROVE Kept
  BY <1>25 DEF CtlPush
<1>26. ASSUME NEW r \in Runs, CtlInterrupt(r) PROVE Kept
  BY <1>26 DEF CtlInterrupt
<1>27. ASSUME NEW r \in Runs, Crash(r) PROVE Kept
  BY <1>27 DEF Crash, CloseChannel
<1>28. ASSUME NEW r \in Runs, CtlDrops(r) PROVE Kept
  BY <1>28 DEF CtlDrops
<1>29. ASSUME NEW m \in Browser, BrowserSends(m) PROVE Kept
  BY <1>29 DEF BrowserSends
<1>30. ASSUME NEW m \in Msgs, InjectPush(m) PROVE Kept
  BY <1>30 DEF InjectPush
<1>31. ASSUME NEW m \in Msgs, QueueFollowUp(m) PROVE Kept
  BY <1>31 DEF QueueFollowUp
<1>32. ASSUME NEW m \in Msgs, InjectSignal(m) PROVE Kept
  BY <1>32 DEF InjectSignal, Subscribed
<1>33. CASE LockExpires
  BY <1>33 DEF LockExpires
<1>34. CASE PendingExpires
  BY <1>34 DEF PendingExpires
<1>35. CASE UNCHANGED vars
  BY <1>35 DEF vars
<1> HIDE DEF Kept
<1> QED
  BY <1>1, <1>2, <1>3, <1>4, <1>5, <1>6, <1>7, <1>8, <1>9, <1>10, <1>11,
     <1>12, <1>13, <1>14, <1>15, <1>16, <1>17, <1>18, <1>19, <1>20, <1>21,
     <1>22, <1>23, <1>24, <1>25, <1>26, <1>27, <1>28, <1>29, <1>30, <1>31,
     <1>32, <1>33, <1>34, <1>35
  DEF Next, RunStep, SetupStep, LoopStep, EndStep, CtlStep, Fault

\* What no append or removal touches stays as it was.
LEMMA MailKept ==
  ASSUME MailInv, UNCHANGED <<inbox, ctlMail, ctlPushed, sent>>, Clean' => Clean,
         \A r \in Runs : ctl[r] # "on" \/ ctl'[r] = ctl[r]
  PROVE  MailInv'
BY DEF MailInv

\* A channel that is closed or reconnects loses what it held.
LEMMA MailDropped ==
  ASSUME TypeInv, MailInv, NEW r \in Runs, UNCHANGED <<inbox, sent>>,
         Clean' => Clean,
         \A q \in Runs \ {r} : ctl'[q] = ctl[q],
         ctlMail' = [ctlMail EXCEPT ![r] = <<>>],
         ctlPushed' = [ctlPushed EXCEPT ![r] = FALSE]
  PROVE  MailInv'
BY DEF MailInv, TypeInv, TypeOK

\* A message that was never sent before is new to the inbox and to the channels.
LEMMA MailQueued ==
  ASSUME TypeInv, MailInv, NEW m \in Msgs \ sent, inbox' = Append(inbox, m),
         sent' = sent \cup {m}, Clean' => Clean,
         UNCHANGED <<ctl, ctlMail, ctlPushed>>
  PROVE  MailInv'
<1>1. /\ DOMAIN inbox' = 1..(Len(inbox) + 1) /\ DOMAIN inbox = 1..Len(inbox)
      /\ inbox'[Len(inbox) + 1] = m /\ Len(inbox) \in Nat
      /\ \A i \in DOMAIN inbox : inbox'[i] = inbox[i] /\ inbox[i] # m
  BY DEF MailInv, TypeInv, TypeOK
<1>2. \A r \in Runs : \A i \in DOMAIN ctlMail[r] : ctlMail[r][i] # m
  BY DEF MailInv
<1> QED
  BY <1>1, <1>2 DEF MailInv

\* The browser's message is new to every channel that gets it.
LEMMA MailPublished ==
  ASSUME TypeInv, MailInv, NEW m \in Browser, BrowserSends(m), Clean' => Clean
  PROVE  MailInv'
<1> USE JobProcessorAssumption DEF BrowserSends, TypeInv, TypeOK
<1>1. m \notin sent /\ sent' = sent \cup {m} /\ UNCHANGED <<inbox, ctl, ctlPushed>>
  OBVIOUS
<1>2. /\ \A k \in DOMAIN inbox : inbox[k] # m
      /\ \A r \in Runs : \A i \in DOMAIN ctlMail[r] : ctlMail[r][i] # m
  BY <1>1 DEF MailInv
<1>3. ASSUME NEW r \in Runs, ctl[r] = "on"
      PROVE  /\ DOMAIN ctlMail'[r] = 1..(Len(ctlMail[r]) + 1)
             /\ DOMAIN ctlMail[r] = 1..Len(ctlMail[r]) /\ Len(ctlMail[r]) \in Nat
             /\ ctlMail'[r][Len(ctlMail[r]) + 1] = m
             /\ \A i \in DOMAIN ctlMail[r] : ctlMail'[r][i] = ctlMail[r][i]
             /\ ctlMail'[r] # <<>>
  <2>1. ctlMail'[r] = Append(ctlMail[r], m)
    BY <1>3
  <2>2. ctlMail[r] \in Seq(Msgs \cup {Stop}) /\ m \in Msgs \cup {Stop}
    OBVIOUS
  <2> HIDE DEF BrowserSends, TypeInv, TypeOK
  <2>3. PICK s \in Seq(Msgs \cup {Stop}) : s = ctlMail[r]
    BY <2>2
  <2> DEFINE t == Append(s, m)
  <2>4. /\ DOMAIN t = 1..(Len(s) + 1) /\ DOMAIN s = 1..Len(s) /\ Len(s) \in Nat
        /\ t[Len(s) + 1] = m /\ (\A i \in DOMAIN s : t[i] = s[i]) /\ t # <<>>
    BY <2>2
  <2> HIDE DEF t
  <2>5. t = ctlMail'[r]
    BY <2>1, <2>3 DEF t
  <2> QED
    BY <2>3, <2>4, <2>5
<1>4. \A r \in Runs : ctl[r] # "on" => ctlMail'[r] = ctlMail[r]
  OBVIOUS
<1>5. ASSUME NEW r \in Runs
      PROVE  /\ ctl'[r] # "on" => ctlMail'[r] = <<>>
             /\ ctlMail'[r] = <<>> => ~ctlPushed'[r]
             /\ \A i \in DOMAIN ctlMail'[r] : ctlMail'[r][i] \in sent'
  <2> HIDE DEF BrowserSends, TypeInv, TypeOK
  <2>1. CASE ctl[r] = "on"
    BY <1>1, <1>3, <2>1 DEF MailInv
  <2>2. CASE ctl[r] # "on"
    BY <1>1, <1>4, <2>2 DEF MailInv
  <2> QED
    BY <2>1, <2>2
<1>6. ASSUME Clean, NEW r \in Runs
      PROVE  /\ \A i, k \in DOMAIN ctlMail'[r] :
                  ctlMail'[r][i] = ctlMail'[r][k] => i = k
             /\ \A i \in DOMAIN ctlMail'[r], k \in DOMAIN inbox' :
                  inbox'[k] = ctlMail'[r][i] => i = 1 /\ ctlPushed'[r]
  <2>1. CASE ctl[r] = "on"
    BY <1>1, <1>2, <1>3, <1>6, <2>1 DEF MailInv
  <2>2. CASE ctl[r] # "on"
    BY <1>1, <1>4, <1>6, <2>2 DEF MailInv
  <2> QED
    BY <2>1, <2>2
<1>7. \A k \in DOMAIN inbox' : inbox'[k] \in sent'
  BY <1>1 DEF MailInv
<1>8. Clean' => \A i, k \in DOMAIN inbox' : inbox'[i] = inbox'[k] => i = k
  BY <1>1 DEF MailInv
<1> QED
  BY <1>5, <1>6, <1>7, <1>8 DEF MailInv

\* Two channels that hold messages belong to one run, unless something leaked.
LEMMA OneLiveChannel ==
  ASSUME TypeInv, LockInv, ChannelInv, MailInv, Clean, NEW r \in Runs, NEW q \in Runs,
         ctlMail[r] # <<>>, ctlMail[q] # <<>>
  PROVE  r = q
<1>1. /\ ctl[r] # "off" /\ pc[r] # "done" /\ pc[r] # "dead" /\ held[r]
      /\ ctl[q] # "off" /\ pc[q] # "done" /\ pc[q] # "dead" /\ held[q]
  BY DEF MailInv, Clean, ChannelInv
<1> QED
  BY <1>1 DEF LockInv, Clean

\* _dispatch pushes a message the inbox does not have, and it is the only
\* channel that could push it again.
LEMMA MailPushed ==
  ASSUME TypeInv, LockInv, ChannelInv, MailInv, NEW r \in Runs, CtlPush(r)
  PROVE  MailInv'
<1> DEFINE m == Head(ctlMail[r])
<1>1. /\ m = ctlMail[r][1] /\ 1 \in DOMAIN ctlMail[r] /\ ctlMail[r] # <<>>
      /\ ~ctlPushed[r] /\ inbox' = Append(inbox, m)
      /\ ctlPushed' = [ctlPushed EXCEPT ![r] = TRUE]
      /\ UNCHANGED <<ctl, ctlMail, sent, pc, lockExpired>> /\ m \in sent
  BY DEF CtlPush, TypeInv, TypeOK, MailInv
<1> HIDE DEF m
<1>2. /\ DOMAIN inbox' = 1..(Len(inbox) + 1) /\ DOMAIN inbox = 1..Len(inbox)
      /\ inbox'[Len(inbox) + 1] = m /\ Len(inbox) \in Nat
      /\ \A i \in DOMAIN inbox : inbox'[i] = inbox[i]
  BY <1>1 DEF TypeInv, TypeOK
<1>3. /\ \A q \in Runs : /\ ctl'[q] # "on" => ctlMail'[q] = <<>>
                         /\ ctlMail'[q] = <<>> => ~ctlPushed'[q]
                         /\ \A i \in DOMAIN ctlMail'[q] : ctlMail'[q][i] \in sent'
      /\ \A k \in DOMAIN inbox' : inbox'[k] \in sent'
  BY <1>1, <1>2 DEF MailInv, TypeInv, TypeOK
<1>4. Clean' => Clean
  BY <1>1 DEF Clean
<1>5. ASSUME Clean PROVE \A k \in DOMAIN inbox : inbox[k] # m
  BY <1>1, <1>5 DEF MailInv
<1>6. Clean => \A i, k \in DOMAIN inbox' : inbox'[i] = inbox'[k] => i = k
  BY <1>2, <1>5 DEF MailInv
<1>7. Clean => \A q \in Runs : \A i, k \in DOMAIN ctlMail'[q] :
                  ctlMail'[q][i] = ctlMail'[q][k] => i = k
  BY <1>1 DEF MailInv
<1>8. ASSUME Clean, NEW q \in Runs, NEW i \in DOMAIN ctlMail[q],
             NEW k \in DOMAIN inbox', inbox'[k] = ctlMail[q][i]
      PROVE  i = 1 /\ ctlPushed'[q]
  <2>1. q = r
    <3>1. ctlMail[q] # <<>>
      BY <1>8 DEF TypeInv, TypeOK
    <3> QED
      BY <1>1, <1>8, <3>1, OneLiveChannel
  <2>2. ctlPushed'[r]
    BY <1>1 DEF TypeInv, TypeOK
  <2>3. CASE k \in DOMAIN inbox
    BY <1>1, <1>2, <1>8, <2>1, <2>3 DEF MailInv
  <2>4. CASE k = Len(inbox) + 1
    BY <1>1, <1>2, <1>8, <2>1, <2>2, <2>4 DEF MailInv
  <2> QED
    BY <1>2, <2>3, <2>4
<1> QED
  BY <1>1, <1>3, <1>4, <1>6, <1>7, <1>8 DEF MailInv

\* _dispatch drops the message it has pushed: the rest of the channel is new to
\* the inbox.
LEMMA MailHandled ==
  ASSUME TypeInv, MailInv, NEW r \in Runs, CtlInterrupt(r) PROVE MailInv'
<1>1. /\ ctl[r] = "on" /\ ctlMail[r] # <<>>
      /\ ctlMail' = [ctlMail EXCEPT ![r] = Tail(@)]
      /\ ctlPushed' = [ctlPushed EXCEPT ![r] = FALSE]
      /\ UNCHANGED <<inbox, ctl, sent, pc, lockExpired>>
  BY DEF CtlInterrupt, envVars
<1>2. /\ DOMAIN ctlMail[r] = 1..Len(ctlMail[r]) /\ Len(ctlMail[r]) \in Nat
      /\ DOMAIN ctlMail'[r] = 1..(Len(ctlMail[r]) - 1)
      /\ \A i \in DOMAIN ctlMail'[r] : ctlMail'[r][i] = ctlMail[r][i + 1]
  BY <1>1 DEF TypeInv, TypeOK
<1>3. /\ ~ctlPushed'[r]
      /\ \A q \in Runs \ {r} :
           ctlMail'[q] = ctlMail[q] /\ ctlPushed'[q] = ctlPushed[q]
  BY <1>1 DEF TypeInv, TypeOK
<1>4. Clean' => Clean
  BY <1>1 DEF Clean
<1>5. ASSUME Clean
      PROVE  /\ \A i, k \in DOMAIN ctlMail'[r] :
                  ctlMail'[r][i] = ctlMail'[r][k] => i = k
             /\ \A i \in DOMAIN ctlMail'[r], k \in DOMAIN inbox :
                  inbox[k] # ctlMail'[r][i]
  <2>1. \A i \in DOMAIN ctlMail'[r] :
          i + 1 \in DOMAIN ctlMail[r] /\ i + 1 # 1 /\ i \in Nat
    BY <1>2
  <2>2. \A i, k \in DOMAIN ctlMail'[r] :
          ctlMail[r][i + 1] = ctlMail[r][k + 1] => i + 1 = k + 1
    BY <1>5, <2>1 DEF MailInv
  <2>3. \A i \in DOMAIN ctlMail'[r], k \in DOMAIN inbox :
          inbox[k] = ctlMail[r][i + 1] => i + 1 = 1
    BY <1>5, <2>1 DEF MailInv
  <2>4. ASSUME NEW i \in DOMAIN ctlMail'[r], NEW k \in DOMAIN ctlMail'[r],
               ctlMail'[r][i] = ctlMail'[r][k]
        PROVE  i = k
    <3>1. i + 1 = k + 1 /\ i \in Nat /\ k \in Nat
      BY <1>2, <2>1, <2>2, <2>4
    <3> QED
      BY <3>1
  <2>5. \A i \in DOMAIN ctlMail'[r], k \in DOMAIN inbox : inbox[k] # ctlMail'[r][i]
    BY <1>2, <2>1, <2>3
  <2> QED
    BY <2>4, <2>5
<1>6. \A i \in DOMAIN ctlMail'[r] : ctlMail'[r][i] \in sent
  BY <1>2 DEF MailInv
<1> QED
  BY <1>1, <1>3, <1>4, <1>5, <1>6 DEF MailInv

\* Every step keeps the messages of the channels and of the inbox apart.
LEMMA MailInvStep ==
  TypeInv /\ LockInv /\ ChannelInv /\ MailInv /\ [Next]_vars => MailInv'
<1> SUFFICES ASSUME TypeInv, LockInv, ChannelInv, MailInv, [Next]_vars
             PROVE  MailInv'
  OBVIOUS
<1>0. Clean' => Clean
  BY ChannelStep
<1> DEFINE Aside == /\ UNCHANGED <<inbox, ctlMail, ctlPushed, sent>>
                    /\ \A r \in Runs : ctl[r] # "on" \/ ctl'[r] = ctl[r]
<1>1. Aside => MailInv'
  BY <1>0, MailKept
<1>2. ASSUME NEW r \in Runs, StartRun(r) \/ CtlSubscribe(r) \/ EndStep(r)
      PROVE  Aside
  BY <1>2
  DEF StartRun, CtlSubscribe, EndStep, SaveSession, NoResult, Complete, Release,
      ctlVars, envVars, TypeInv, TypeOK
<1>3. ASSUME NEW r \in Runs, SetupStep(r), ~Prepare(r) PROVE Aside
  BY <1>3
  DEF SetupStep, Acquire, SetPendingPrompt, SendCancelSignal, SeeRelease,
      WaitTimeout, Reacquire, TakePendingPrompt, PrepareFails, ctlVars, envVars
<1>4. ASSUME NEW r \in Runs, Prepare(r) PROVE Aside
  <2>1. UNCHANGED <<inbox, ctlMail, ctlPushed, sent>> /\ pc[r] = "prepare"
    BY <1>4 DEF Prepare, Goto, envVars
  <2>2. ctl[r] = "off" /\ \A q \in Runs \ {r} : ctl'[q] = ctl[q]
    BY <1>4, <2>1 DEF Prepare, ChannelInv, TypeInv, TypeOK
  <2> QED
    BY <2>1, <2>2
<1>5. ASSUME NEW r \in Runs, LoopStep(r), ~AutoContinue(r), ~Teardown(r)
      PROVE  Aside
  BY <1>5
  DEF LoopStep, BeginTurn, SdkEnds, HandleCancel, LeaveTurn, TurnRaises,
      Supersede, LeaveLoop, ctlVars, envVars
<1>6. ASSUME NEW r \in Runs, AutoContinue(r) PROVE MailInv'
  <2>1. inbox' = <<>> /\ UNCHANGED <<ctl, ctlMail, ctlPushed, sent>>
    BY <1>6 DEF AutoContinue, ctlVars, envVars
  <2> QED
    BY <1>0, <2>1 DEF MailInv
<1>7. ASSUME NEW r \in Runs, Teardown(r) PROVE MailInv'
  <2>1. UNCHANGED <<inbox, sent>>
    BY <1>7 DEF Teardown, envVars
  <2>2. CASE streaming[r]
    BY <1>0, <1>7, <2>1, <2>2, MailDropped
    DEF Teardown, CloseChannel, TypeInv, TypeOK
  <2>3. CASE ~streaming[r]
    BY <1>1, <1>7, <2>1, <2>3 DEF Teardown
  <2> QED
    BY <2>2, <2>3
<1>8. ASSUME NEW r \in Runs, Fault(r) PROVE MailInv'
  BY <1>0, <1>8, MailDropped
  DEF Fault, Crash, CtlDrops, CloseChannel, TypeInv, TypeOK
<1>9. ASSUME NEW r \in Runs, CtlPush(r) \/ CtlInterrupt(r) PROVE MailInv'
  BY <1>9, MailPushed, MailHandled
<1>10. ASSUME NEW m \in Browser, BrowserSends(m) PROVE MailInv'
  BY <1>0, <1>10, MailPublished
<1>11. ASSUME NEW m \in Msgs, QueueFollowUp(m) \/ InjectPush(m) PROVE MailInv'
  BY <1>0, <1>11, MailQueued DEF QueueFollowUp, InjectPush, ctlVars
<1>12. ASSUME NEW m \in Msgs, InjectSignal(m) PROVE Aside
  BY <1>12 DEF InjectSignal, ctlVars
<1>13. CASE LockExpires \/ PendingExpires \/ UNCHANGED vars
  <2>1. Aside
    BY <1>13 DEF LockExpires, PendingExpires, vars, ctlVars, envVars
  <2> QED
    BY <1>1, <2>1
<1> HIDE DEF Aside
<1>14. ASSUME NEW r \in Runs, StartRun(r) \/ RunStep(r) \/ CtlStep(r) \/ Fault(r)
       PROVE  MailInv'
  BY <1>1, <1>2, <1>3, <1>4, <1>5, <1>6, <1>7, <1>8, <1>9, <1>14
  DEF RunStep, CtlStep
<1> QED
  BY <1>1, <1>10, <1>11, <1>12, <1>13, <1>14 DEF Next

\* ControlChannel: a browser message is stored twice only after a run lost its
\* lock to the TTL, or when a superseded, failed or non-streaming run has left
\* its channel subscribed; for any number of runs, channels and messages.
THEOREM NoDuplicates == Spec => []DuplicateNeedsLeak
<1>1. Init => ChannelInv /\ MailInv
  <2> SUFFICES ASSUME Init PROVE ChannelInv /\ MailInv
    OBVIOUS
  <2>1. ChannelInv
    BY DEF Init, ChannelInv
  <2>2. /\ inbox = <<>>
        /\ \A r \in Runs : ctlMail[r] = <<>> /\ ~ctlPushed[r]
    BY DEF Init
  <2> QED
    BY <2>1, <2>2 DEF MailInv
<1>2. TypeInv /\ LockInv /\ ChannelInv /\ MailInv /\ [Next]_vars
        => ChannelInv' /\ MailInv'
  BY ChannelStep, MailInvStep
<1>3. ChannelInv /\ MailInv => DuplicateNeedsLeak
  <2> SUFFICES ASSUME ChannelInv, MailInv, NEW i \in DOMAIN inbox,
                      NEW k \in DOMAIN inbox, inbox[i] = inbox[k], i # k
               PROVE  \/ lockExpired
                      \/ \E r \in Runs :
                           /\ ctl[r] # "off"
                           /\ \/ outcome[r] \in {"superseded", "error"}
                              \/ ~streaming[r]
    BY DEF DuplicateNeedsLeak
  <2>1. ~Clean
    BY DEF MailInv
  <2> QED
    BY <2>1 DEF Clean, ChannelInv
<1> QED
  BY <1>1, <1>2, <1>3, TypeInvariant, LockInvariant, PTL DEF Spec

=============================================================================
