------------------------- MODULE BackgroundWorkers -------------------------
(* What happens after a turn: the Stop hooks buffer post-processing jobs,  *)
(* the executor flushes them once the SDK session has ended, and the       *)
(* memory worker and the retrospector take them from their Redis lists     *)
(* with BLPOP, so that a message in a worker's hand is in no list.         *)
(*                                                                         *)
(* A job is identified by its key, the pair of transcript and hook event,  *)
(* and by the worker it is for; its serial says which firing of the hook   *)
(* it came from.  What an extraction or a retrospection does is one step   *)
(* with the outcomes the worker tells apart.                               *)
EXTENDS Integers, Sequences, FiniteSets, Subsequences

CONSTANTS Keys,          \* pairs of transcript path and hook event
          MaxHooks,      \* firings of the Stop hooks, a bound
          MaxJobRetries, \* DEFAULT_MAX_JOB_RETRIES
          MaxFaults      \* failed pushes, lost connections, crashes, a bound

WorkAssumption ==
  /\ MaxHooks \in Nat /\ MaxFaults \in Nat
  /\ MaxJobRetries \in Nat \ {0}

VARIABLES buffer,    \* _pending_post_jobs of the job's SDKOptionsBuilder
          fired,     \* firings of the Stop hooks so far
          latest,    \* history: the last firing that named a key, 0 if none
          flushing,  \* deduplicated jobs the flush has still to enqueue
          push,      \* attempt of the enqueue under way, 0 or 1
          session,   \* "open" until the flush starts
          list,      \* a worker's Redis list of requests
          dlq,       \* a worker's dead-letter list
          hand,      \* the message a worker has popped, or <<>>
          wpc,       \* "poll", "work", "term" (SIGTERM seen), "exited"
          over,      \* jobs processed, skipped or given up with a log line
          lost,      \* jobs that left every list without being settled
          faults     \* faults so far

workVars == <<buffer, fired, latest, flushing, push, session, list, dlq, hand, wpc,
              over, lost, faults>>

Workers == {"memory", "retrospector"}
Entries == [w : Workers, key : Keys, n : 1 .. MaxHooks]
WorkerMessages == [w : Workers, key : Keys, n : 1 .. MaxHooks, attempts : 0 .. MaxJobRetries]

Entry(m) == [w |-> m.w, key |-> m.key, n |-> m.n]

WorkTypeOK ==
  /\ buffer \in Seq(Entries) /\ flushing \in Seq(Entries)
  /\ fired \in 0 .. MaxHooks /\ latest \in [Keys -> 0 .. MaxHooks] /\ push \in 0 .. 1
  /\ session \in {"open", "ended"}
  /\ list \in [Workers -> Seq(WorkerMessages)] /\ dlq \in [Workers -> SUBSET WorkerMessages]
  /\ hand \in [Workers -> WorkerMessages \cup {<<>>}]
  /\ wpc \in [Workers -> {"poll", "work", "term", "exited"}]
  /\ over \subseteq Entries /\ lost \subseteq Entries
  /\ faults \in 0 .. MaxFaults

WorkInit ==
  /\ buffer = <<>> /\ fired = 0 /\ latest = [k \in Keys |-> 0] /\ flushing = <<>> /\ push = 0
  /\ session = "open"
  /\ list = [w \in Workers |-> <<>>] /\ dlq = [w \in Workers |-> {}]
  /\ hand = [w \in Workers |-> <<>>] /\ wpc = [w \in Workers |-> "poll"]
  /\ over = {} /\ lost = {} /\ faults = 0

Fault == faults < MaxFaults /\ faults' = faults + 1

-----------------------------------------------------------------------------
(* The executor's side.                                                    *)

\* capture_and_buffer: a Stop or SubagentStop hook that names a transcript
\* buffers one job for each worker; one that names none buffers nothing.
CaptureAndBuffer ==
  /\ session = "open" /\ fired < MaxHooks
  /\ fired' = fired + 1
  /\ \/ \E k \in Keys :
          /\ buffer' = buffer \o <<[w |-> "memory", key |-> k, n |-> fired + 1],
                                  [w |-> "retrospector", key |-> k, n |-> fired + 1]>>
          /\ latest' = [latest EXCEPT ![k] = fired + 1]
     \/ UNCHANGED <<buffer, latest>>
  /\ UNCHANGED <<flushing, push, session, list, dlq, hand, wpc, over, lost, faults>>

SameJob(a, b) == a.key = b.key /\ a.w = b.w

\* Mutant: `if key not in seen`: a key's first entry is kept.
DedupFirst(jobs) ==
  SelectSeq(jobs, LAMBDA a : \A j \in DOMAIN jobs : SameJob(jobs[j], a) => jobs[j].n >= a.n)

\* seen[key] = job keeps the place of a key's first entry and the value of
\* its last; list(seen.values()) is what is enqueued.
Firsts(jobs) == {i \in DOMAIN jobs : \A j \in 1 .. i - 1 : ~SameJob(jobs[i], jobs[j])}
LastOf(jobs, i) ==
  CHOOSE j \in DOMAIN jobs : /\ SameJob(jobs[i], jobs[j])
                             /\ \A k \in j + 1 .. Len(jobs) : ~SameJob(jobs[i], jobs[k])
Dedup(jobs) ==
  [p \in 1 .. Cardinality(Firsts(jobs)) |-> jobs[LastOf(jobs, Nth(Firsts(jobs), p))]]

\* flush_pending_post_jobs, after execute_sdk has returned or raised.
Flush ==
  /\ session = "open"
  /\ session' = "ended"
  /\ flushing' = Dedup(buffer) /\ buffer' = <<>>
  /\ UNCHANGED <<fired, latest, push, list, dlq, hand, wpc, over, lost, faults>>

\* enqueue_memory_job / enqueue_retrospector_job: RPUSH of the next job ...
Enqueue ==
  /\ flushing # <<>>
  /\ LET e == Head(flushing) IN
       list' = [list EXCEPT ![e.w] =
                  Append(@, [w |-> e.w, key |-> e.key, n |-> e.n, attempts |-> 0])]
  /\ flushing' = Tail(flushing) /\ push' = 0
  /\ UNCHANGED <<buffer, fired, latest, session, dlq, hand, wpc, over, lost, faults>>

\* ... which is tried twice, then given up, and the flush goes on.
EnqueueFails ==
  /\ flushing # <<>> /\ Fault
  /\ \/ push = 0 /\ push' = 1 /\ UNCHANGED <<flushing, lost>>
     \/ /\ push = 1 /\ push' = 0
        /\ lost' = lost \cup {Head(flushing)} /\ flushing' = Tail(flushing)
  /\ UNCHANGED <<buffer, fired, latest, session, list, dlq, hand, wpc, over>>

-----------------------------------------------------------------------------
(* The workers' side.                                                      *)

Pop(w) == list' = [list EXCEPT ![w] = Tail(@)]
Emptied(w) == hand' = [hand EXCEPT ![w] = <<>>]
Goto(w, p) == wpc' = [wpc EXCEPT ![w] = p]

\* BLPOP: the message is in the worker's hand only.
Take(w) ==
  /\ wpc[w] = "poll" /\ list[w] # <<>>
  /\ hand' = [hand EXCEPT ![w] = Head(list[w])] /\ Pop(w) /\ Goto(w, "work")
  /\ UNCHANGED <<buffer, fired, latest, flushing, push, session, dlq, over, lost, faults>>

Finish(w) ==
  /\ wpc[w] = "work"
  /\ over' = over \cup {Entry(hand[w])} /\ Emptied(w) /\ Goto(w, "poll")
  /\ UNCHANGED <<buffer, fired, latest, flushing, push, session, list, dlq, lost, faults>>

\* process_memory_job / process_retrospector_job return: done, or skipped
\* because the transcript is gone or holds nothing.  A retrospection whose
\* SDK run fails also returns: the error is logged and the job is over.
ProcessMemory == Finish("memory")
ProcessRetrospector == Finish("retrospector")

\* Mutant: one retry too many (> instead of >=).
EnqueueForRetryLate(w, max) ==
  LET m == [hand[w] EXCEPT !.attempts = @ + 1] IN
  /\ wpc[w] = "work"
  /\ IF m.attempts > max
       THEN dlq' = [dlq EXCEPT ![w] = @ \cup {m}] /\ UNCHANGED list
       ELSE list' = [list EXCEPT ![w] = Append(@, m)] /\ UNCHANGED dlq
  /\ Emptied(w) /\ Goto(w, "poll")
  /\ UNCHANGED <<buffer, fired, latest, flushing, push, session, over, lost, faults>>

\* enqueue_for_retry: the attempt is counted, and from max_retries on the
\* message goes to the dead-letter list instead of the queue.
EnqueueForRetry(w, max) ==
  LET m == [hand[w] EXCEPT !.attempts = @ + 1] IN
  /\ wpc[w] = "work"
  /\ IF m.attempts >= max
       THEN dlq' = [dlq EXCEPT ![w] = @ \cup {m}] /\ UNCHANGED list
       ELSE list' = [list EXCEPT ![w] = Append(@, m)] /\ UNCHANGED dlq
  /\ Emptied(w) /\ Goto(w, "poll")
  /\ UNCHANGED <<buffer, fired, latest, flushing, push, session, over, lost, faults>>

\* is_transient_error holds of the error or of one of its causes.
FailTransient(w) == EnqueueForRetry(w, MaxJobRetries)
\* It does not: max_retries = 0.
FailPermanent(w) == EnqueueForRetry(w, 0)

\* The push of enqueue_for_retry fails: the message was nowhere else.
RetryFails(w) ==
  /\ wpc[w] = "work" /\ Fault
  /\ lost' = lost \cup {Entry(hand[w])} /\ Emptied(w)
  /\ Goto(w, IF w = "memory" THEN "poll" ELSE "exited")
  /\ UNCHANGED <<buffer, fired, latest, flushing, push, session, list, dlq, over>>

\* BLPOP meets a connection error.  The memory worker's own loop reconnects
\* and goes on.  RedisQueue.subscribe reconnects through close, which clears
\* _running, so that its loop is over and the process ends.
PollFails(w) ==
  /\ wpc[w] = "poll" /\ Fault
  /\ Goto(w, IF w = "memory" THEN "poll" ELSE "exited")
  /\ UNCHANGED <<buffer, fired, latest, flushing, push, session, list, dlq, hand, over, lost>>

\* The process dies with what it holds.
Die(w) ==
  /\ wpc[w] # "exited" /\ Fault
  /\ lost' = lost \cup (IF hand[w] = <<>> THEN {} ELSE {Entry(hand[w])})
  /\ Emptied(w) /\ Goto(w, "exited")
  /\ UNCHANGED <<buffer, fired, latest, flushing, push, session, list, dlq, over>>

\* SIGTERM sets shutdown_event.  The memory worker leaves its loop once its
\* job is over.  The retrospector's loop asks for _running only, which the
\* signal leaves alone ...
Terminate(w) ==
  /\ wpc[w] = "poll" /\ Fault
  /\ Goto(w, IF w = "memory" THEN "exited" ELSE "term")
  /\ UNCHANGED <<buffer, fired, latest, flushing, push, session, list, dlq, hand, over, lost>>

\* ... so until it is killed it keeps popping messages, and message_handler
\* drops each of them.
TakeAndDrop ==
  LET w == "retrospector" IN
  /\ wpc[w] = "term" /\ list[w] # <<>>
  /\ lost' = lost \cup {Entry(Head(list[w]))} /\ Pop(w)
  /\ UNCHANGED <<buffer, fired, latest, flushing, push, session, dlq, hand, wpc, over, faults>>

\* `restart: unless-stopped`.
Restart(w) ==
  /\ wpc[w] = "exited" /\ Goto(w, "poll")
  /\ UNCHANGED <<buffer, fired, latest, flushing, push, session, list, dlq, hand, over,
                 lost, faults>>

WorkNext ==
  \/ CaptureAndBuffer \/ Flush \/ Enqueue \/ EnqueueFails
  \/ ProcessMemory \/ ProcessRetrospector \/ TakeAndDrop
  \/ \E w \in Workers :
       \/ Take(w) \/ FailTransient(w) \/ FailPermanent(w) \/ RetryFails(w)
       \/ PollFails(w) \/ Die(w) \/ Terminate(w) \/ Restart(w)

WorkSpec == WorkInit /\ [][WorkNext]_workVars

-----------------------------------------------------------------------------
(* Properties.                                                             *)

InFlush(e) == Cardinality({i \in DOMAIN flushing : flushing[i] = e})
InList(e) == Cardinality({i \in DOMAIN list[e.w] : Entry(list[e.w][i]) = e})
InDead(e) == Cardinality({m \in dlq[e.w] : Entry(m) = e})
InHand(e) == IF hand[e.w] # <<>> /\ Entry(hand[e.w]) = e THEN 1 ELSE 0
Gone(e) == (IF e \in over THEN 1 ELSE 0) + (IF e \in lost THEN 1 ELSE 0)
Copies(e) == InFlush(e) + InList(e) + InDead(e) + InHand(e) + Gone(e)

\* After the flush, every transcript and event the hooks named has exactly one
\* job for each worker, from the last firing that named it, in exactly one
\* place (to be enqueued, a list, a worker's hand, the dead letters, settled,
\* lost): retries, dead-lettering and restarts neither copy a job nor forget
\* it, and without a fault none is lost.
JobAccounted ==
  /\ session = "ended" =>
       \A e \in Entries : Copies(e) = (IF e.n = latest[e.key] THEN 1 ELSE 0)
  /\ lost # {} => faults > 0

=============================================================================
