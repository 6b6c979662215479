------------------------------ MODULE SdkTurn ------------------------------
(***************************************************************************)
(* execute_sdk: one query to the CLI, whose messages a pump puts into a    *)
(* queue (wire) and _stream_session consumes until it decides that the run *)
(* is over and closes the client, which kills whatever still runs in it.   *)
(*                                                                         *)
(* The CLI is external; it does what the comments of the consumer expect:  *)
(* a delegated task that settles wakes the parent for another turn, unless *)
(* the parent speaks after the settling; tasks orphaned by an earlier run  *)
(* settle before the query is looked at and wake the parent for an empty   *)
(* turn of zero model calls.                                               *)
(***************************************************************************)
EXTENDS Naturals, Sequences, FiniteSets

CONSTANTS
  Tasks,       \* ids of delegated tasks (_DEFERRING_TASK_TYPES)
  MaxTries     \* max_retries of execute_sdk

TurnAssumption == MaxTries \in Nat \ {0}

VARIABLES
  cli,         \* boot, model, stop (the Stop hook window), idle, gone
  spoke,       \* the CLI's turn has had model output
  fresh,       \* task ids not used yet
  running,     \* tasks running in the CLI
  notices,     \* settled tasks the parent has not been told of
  answered,    \* the query's turn has ended
  wire,        \* messages not yet consumed
  inflight,    \* inflight_tasks
  settled,     \* settled_since_output
  seen,        \* assistant_messages_seen > 0
  pending,     \* pending_result is set
  outcome,     \* how the session ended
  try

turnVars == <<cli, spoke, fresh, running, notices, answered, wire, inflight, settled,
              seen, pending, outcome, try>>

Kinds  == {"assistant", "started", "settled", "result", "empty", "error", "transient",
           "permanent", "end"}
Ended  == {"result", "error", "grace", "end", "transient", "permanent", "timeout"}

Message == [kind : Kinds, task : SUBSET Tasks]

TurnTypeOK ==
  /\ cli \in {"boot", "model", "stop", "idle", "gone"}
  /\ spoke \in BOOLEAN /\ answered \in BOOLEAN
  /\ fresh \subseteq Tasks /\ running \subseteq Tasks /\ notices \subseteq Tasks
  /\ wire \in Seq(Message)
  /\ inflight \subseteq Tasks /\ settled \subseteq Tasks
  /\ seen \in BOOLEAN /\ pending \in BOOLEAN
  /\ outcome \in {"none"} \cup Ended \cup {"raised"}
  /\ try \in 1..MaxTries

\* A client and its session begin with the query sent.
TurnInit ==
  /\ cli = "boot" /\ spoke = FALSE /\ fresh = Tasks /\ running = {} /\ notices = {}
  /\ answered = FALSE /\ wire = <<>> /\ inflight = {} /\ settled = {}
  /\ seen = FALSE /\ pending = FALSE /\ outcome = "none" /\ try = 1

-----------------------------------------------------------------------------
(* The CLI.                                                                *)

consumer == <<inflight, settled, seen, pending, outcome, try>>
Emit(k, ts) == wire' = Append(wire, [kind |-> k, task |-> ts])
Open == outcome = "none"

\* A task of an earlier run is reported stopped before the query is processed.
OrphanStops(t) ==
  /\ Open /\ cli = "boot" /\ t \in fresh /\ fresh' = fresh \ {t}
  /\ notices' = notices \cup {t} /\ Emit("settled", {t})
  /\ UNCHANGED <<cli, spoke, running, answered, consumer>>

\* ... and wakes the parent for a turn that calls no model.
EmptyTurn ==
  /\ Open /\ cli = "boot" /\ notices # {} /\ notices' = {} /\ Emit("empty", {})
  /\ UNCHANGED <<cli, spoke, fresh, running, answered, consumer>>

StartQuery ==
  /\ Open /\ cli = "boot" /\ notices = {} /\ cli' = "model"
  /\ UNCHANGED <<spoke, fresh, running, notices, answered, wire, consumer>>

\* Model output delivers every notice so far.
Speak ==
  /\ Open /\ cli = "model" /\ (~spoke \/ notices # {})
  /\ spoke' = TRUE /\ notices' = {} /\ Emit("assistant", {})
  /\ UNCHANGED <<cli, fresh, running, answered, consumer>>

Delegate(t) ==
  /\ Open /\ cli = "model" /\ spoke /\ t \in fresh
  /\ fresh' = fresh \ {t} /\ running' = running \cup {t} /\ Emit("started", {t})
  /\ UNCHANGED <<cli, spoke, notices, answered, consumer>>

Settle(t) ==
  /\ Open /\ cli \in {"model", "stop", "idle"} /\ t \in running
  /\ running' = running \ {t} /\ notices' = notices \cup {t} /\ Emit("settled", {t})
  /\ UNCHANGED <<cli, spoke, fresh, answered, consumer>>

StopHook ==
  /\ Open /\ cli = "model" /\ spoke /\ cli' = "stop"
  /\ UNCHANGED <<spoke, fresh, running, notices, answered, wire, consumer>>

EndTurn ==
  /\ Open /\ cli = "stop" /\ cli' = "idle" /\ answered' = TRUE /\ Emit("result", {})
  /\ UNCHANGED <<spoke, fresh, running, notices, consumer>>

FailTurn ==
  /\ Open /\ cli = "model" /\ cli' = "idle" /\ answered' = TRUE /\ Emit("error", {})
  /\ UNCHANGED <<spoke, fresh, running, notices, consumer>>

Wake ==
  /\ Open /\ cli = "idle" /\ notices # {} /\ cli' = "model" /\ spoke' = FALSE
  /\ notices' = {}
  /\ UNCHANGED <<fresh, running, answered, wire, consumer>>

\* The stream breaks with an error, or just ends; the pump reports both.
Break(k) ==
  /\ Open /\ cli # "gone" /\ cli' = "gone" /\ running' = {}
  /\ Emit(k, {})
  /\ UNCHANGED <<spoke, fresh, notices, answered, consumer>>

-----------------------------------------------------------------------------
(* The consumer.                                                           *)

client == <<cli, spoke, fresh, running, notices, answered>>

\* Mutant: a task's start is not noted.
TrackNoStart(m) ==
  /\ UNCHANGED inflight
  /\ settled' = IF m.kind = "settled" THEN settled \cup m.task ELSE settled

\* _track_task_lifecycle
TrackTask(m) ==
  IF m.kind = "started"
  THEN inflight' = inflight \cup m.task /\ UNCHANGED settled
  ELSE inflight' = inflight \ m.task /\ settled' = settled \cup m.task

System(m) ==
  /\ m.kind \in {"started", "settled"} /\ TrackTask(m)
  /\ UNCHANGED <<seen, pending, outcome>>

\* Output takes back a held result and clears what had settled before it.
Assistant(m) ==
  /\ m.kind = "assistant"
  /\ seen' = TRUE /\ pending' = FALSE /\ settled' = {}
  /\ UNCHANGED <<inflight, outcome>>

\* A result ends the run unless delegated tasks run, it is the empty one before
\* any output, or tasks settled after the last output: then it is held.
Result(m) ==
  /\ m.kind \in {"result", "empty", "error"}
  /\ settled' = {} /\ UNCHANGED <<inflight, seen>>
  /\ IF inflight # {} \/ (m.kind = "empty" /\ ~seen)
     THEN UNCHANGED <<pending, outcome>>
     ELSE IF settled # {} /\ m.kind # "error"
          THEN pending' = TRUE /\ UNCHANGED outcome
          ELSE outcome' = (IF m.kind = "error" THEN "error" ELSE "result")
               /\ UNCHANGED pending

\* The pump's exception is raised; its end of stream ends the run.
StreamEnds(m) ==
  /\ m.kind \in {"transient", "permanent", "end"}
  /\ outcome' = m.kind
  /\ UNCHANGED <<inflight, settled, seen, pending>>

Consume ==
  /\ Open /\ wire # <<>> /\ wire' = Tail(wire)
  /\ LET m == Head(wire)
     IN  System(m) \/ Assistant(m) \/ Result(m) \/ StreamEnds(m)
  /\ UNCHANGED <<client, try>>

\* _continuation_grace_seconds
Grace ==
  /\ Open /\ pending /\ wire = <<>> /\ outcome' = "grace"
  /\ UNCHANGED <<client, wire, inflight, settled, seen, pending, try>>

\* asyncio.timeout in _execute_sdk_once
SdkTimeout ==
  /\ Open /\ outcome' = "timeout"
  /\ UNCHANGED <<client, wire, inflight, settled, seen, pending, try>>

\* execute_sdk runs the whole query again after a transient error, never after
\* a timeout.
Retry ==
  /\ outcome = "transient" /\ try < MaxTries
  /\ try' = try + 1
  /\ cli' = "boot" /\ spoke' = FALSE /\ fresh' = Tasks /\ running' = {} /\ notices' = {}
  /\ answered' = FALSE /\ wire' = <<>> /\ inflight' = {} /\ settled' = {}
  /\ seen' = FALSE /\ pending' = FALSE /\ outcome' = "none"

\* _execute_sdk_once raises; after a session that ended by itself, if the
\* caller collects text and no text came.
Raise ==
  /\ \/ outcome \in {"timeout", "permanent"}
     \/ outcome = "transient" /\ try = MaxTries
     \/ outcome \in {"result", "error", "grace", "end"}
  /\ outcome' = "raised"
  /\ UNCHANGED <<client, wire, inflight, settled, seen, pending, try>>

TurnNext ==
  \/ \E t \in Tasks : OrphanStops(t) \/ Delegate(t) \/ Settle(t)
  \/ EmptyTurn \/ StartQuery \/ Speak \/ StopHook \/ EndTurn \/ FailTurn \/ Wake
  \/ \E k \in {"transient", "permanent", "end"} : Break(k)
  \/ Consume \/ Grace \/ SdkTimeout \/ Retry \/ Raise

TurnSpec == TurnInit /\ [][TurnNext]_turnVars

-----------------------------------------------------------------------------
(* Properties.                                                             *)

\* _stream_session closes the client on a result only when the query has been
\* answered, no delegated task runs, and the CLI owes the parent no further
\* turn: "Closing the client here would kill them."
ClosedWhenQuiet ==
  outcome = "result" =>
    answered /\ (cli = "gone" \/ (cli = "idle" /\ running = {} /\ notices = {}))

=============================================================================
