-------------------------- MODULE WebhookDelivery --------------------------
(***************************************************************************)
(* The webhook endpoint: GitHub delivers an event, and delivers it again   *)
(* after an error, a timeout or by hand, each time with the same delivery  *)
(* id.  A handler claims the id in Redis (WebhookDeduplicator), queues a   *)
(* sync or cleanup request and one job per matching workflow, and gives    *)
(* the claim back when it fails unexpectedly.                              *)
(*                                                                         *)
(* One action is one Redis command.  What a payload says is its kind and   *)
(* the workflows it matches (EventRouting has the matching).               *)
(***************************************************************************)
EXTENDS Naturals, FiniteSets

CONSTANTS
  Deliveries,
  Tries,       \* a delivery's attempts, concurrent or one after the other
  Matched,     \* workflows, in the order of their publication: 1, 2, ...
  Loads,       \* kinds of events: subset of {"job", "push", "cleanup", "both", "bad"}
  MaxErrors    \* bound: failing commands, dying handlers, expiring claims

\* A delivery of kind "job" or "both" matches at least one workflow.
HookAssumption == Matched \in Nat \ {0}
HookBounds     == IsFiniteSet(Tries) /\ MaxErrors \in Nat

VARIABLES
  load,        \* what each delivery carries
  claims,      \* webhook:delivery:{id} keys
  connected,   \* the deduplicator has a Redis client
  hpc,         \* where each handler is
  next,        \* the workflow a handler publishes next
  jobs,        \* how often a job was queued, by delivery and workflow
  notes,       \* how often its sync or cleanup request was queued
  reopened,    \* history: deliveries whose claim was bypassed, given back or expired
  stranded,    \* history: deliveries whose claim outlives the handler that failed
  dropped,     \* history: deliveries refused as duplicates after every earlier
               \* attempt had failed
  errors

hookVars == <<load, claims, connected, hpc, next, jobs, notes, reopened, stranded, dropped,
              errors>>

Handlers == Deliveries \X Tries
Of(h)    == h[1]
Active   == {"claimed", "publish", "release"}

HookTypeOK ==
  /\ load \in [Deliveries -> Loads] /\ claims \subseteq Deliveries /\ connected \in BOOLEAN
  /\ hpc \in [Handlers -> Active \cup {"new", "accepted", "rejected", "duplicate",
                                       "failed", "dead", "unsigned"}]
  /\ next \in [Handlers -> 1..Matched + 1]
  /\ jobs \in [Deliveries \X (1..Matched) -> 0..Cardinality(Tries)]
  /\ notes \in [Deliveries -> 0..Cardinality(Tries)]
  /\ reopened \subseteq Deliveries /\ stranded \subseteq Deliveries
  /\ dropped \subseteq Deliveries /\ errors \in 0..MaxErrors

HookInit ==
  /\ load \in [Deliveries -> Loads] /\ claims = {} /\ connected = FALSE
  /\ hpc = [h \in Handlers |-> "new"] /\ next = [h \in Handlers |-> 1]
  /\ jobs = [x \in Deliveries \X (1..Matched) |-> 0]
  /\ notes = [d \in Deliveries |-> 0]
  /\ reopened = {} /\ stranded = {} /\ dropped = {} /\ errors = 0

-----------------------------------------------------------------------------

HandlerStep(h, from, to) == hpc[h] = from /\ hpc' = [hpc EXCEPT ![h] = to]
HookFault == errors < MaxErrors /\ errors' = errors + 1

\* Some other attempt is at work on the delivery, or has dealt with it.
Handled(h) ==
  \E g \in Handlers \ {h} :
    Of(g) = Of(h) /\ hpc[g] \in Active \cup {"accepted", "rejected"}

\* The signature does not verify: refused before the claim, so that nobody else
\* can use up a delivery's id.
Unsigned(h) ==
  /\ HandlerStep(h, "new", "unsigned")
  /\ UNCHANGED <<load, claims, connected, next, jobs, notes, reopened, stranded, dropped, errors>>

\* Mutant: EXISTS instead of SET NX, and the key is written with the answer.
ClaimUnset(h) ==
  /\ Of(h) \notin claims /\ HandlerStep(h, "new", "claimed")
  /\ UNCHANGED <<load, claims, connected, next, jobs, notes, reopened, stranded, dropped, errors>>

\* webhook after the signature check: claim with SET NX.
Claim(h) ==
  /\ Of(h) \notin claims /\ HandlerStep(h, "new", "claimed")
  /\ claims' = claims \cup {Of(h)} /\ connected' = TRUE
  /\ UNCHANGED <<load, next, jobs, notes, reopened, stranded, dropped, errors>>

\* The id was claimed before: answered with "duplicate", status 200.
Duplicate(h) ==
  /\ Of(h) \in claims /\ HandlerStep(h, "new", "duplicate")
  /\ dropped' = IF Handled(h) THEN dropped ELSE dropped \cup {Of(h)}
  /\ connected' = TRUE /\ UNCHANGED <<load, claims, next, jobs, notes, reopened, stranded, errors>>

\* Redis is not reachable: the delivery is processed unclaimed, and the client,
\* which every handler uses, is dropped.
FailOpen(h) ==
  /\ HookFault /\ HandlerStep(h, "new", "claimed")
  /\ reopened' = reopened \cup {Of(h)} /\ connected' = FALSE
  /\ UNCHANGED <<load, claims, next, jobs, notes, stranded, dropped>>

\* _build_cleanup_message has a message for the event, or the event is a push.
HasNote(k) == k \in {"push", "cleanup", "both"}

\* Sync request of a push, cleanup request of a closed or reopened thread or
\* deleted branch; then the jobs, if any workflow matches.  A payload whose
\* fields cannot be extracted is rejected, and keeps its claim.
RouteDelivery(h) ==
  LET k == load[Of(h)]
  IN  /\ HandlerStep(h, "claimed", CASE k = "bad" -> "rejected"
                                     [] k \in {"push", "cleanup"} -> "accepted"
                                     [] OTHER -> "publish")
      /\ notes' = IF HasNote(k) THEN [notes EXCEPT ![Of(h)] = @ + 1] ELSE notes
      /\ UNCHANGED <<load, claims, connected, next, jobs, reopened, stranded, dropped, errors>>

\* queue.publish for one workflow after the other.
PublishJob(h) ==
  /\ hpc[h] = "publish"
  /\ jobs' = [jobs EXCEPT ![<<Of(h), next[h]>>] = @ + 1]
  /\ next' = [next EXCEPT ![h] = @ + 1]
  /\ hpc' = IF next[h] = Matched THEN [hpc EXCEPT ![h] = "accepted"] ELSE hpc
  /\ UNCHANGED <<load, claims, connected, notes, reopened, stranded, dropped, errors>>

\* A publication raises: the claim is to be given back.
PublishJobFails(h) ==
  /\ hpc[h] \in {"claimed", "publish"} /\ load[Of(h)] # "bad" /\ HookFault
  /\ hpc' = [hpc EXCEPT ![h] = "release"]
  /\ UNCHANGED <<load, claims, connected, next, jobs, notes, reopened, stranded, dropped>>

\* Mutant: a failed handler keeps its claim.
ReleaseNot(h) ==
  /\ connected /\ HandlerStep(h, "release", "failed")
  /\ UNCHANGED <<load, claims, connected, next, jobs, notes, reopened, stranded, dropped, errors>>

\* deduplicator.release; answered with 500.
Release(h) ==
  /\ connected /\ HandlerStep(h, "release", "failed")
  /\ claims' = claims \ {Of(h)}
  /\ reopened' = reopened \cup {Of(h)}
  /\ UNCHANGED <<load, connected, next, jobs, notes, stranded, dropped, errors>>

\* Another handler's claim has failed meanwhile and taken the client away:
\* release returns at once.
ReleaseSkipped(h) ==
  /\ ~connected /\ HandlerStep(h, "release", "failed")
  /\ stranded' = stranded \cup {Of(h)}
  /\ UNCHANGED <<load, claims, connected, next, jobs, notes, reopened, dropped, errors>>

\* The release itself fails, which is logged.
ReleaseFails(h) ==
  /\ connected /\ HookFault /\ HandlerStep(h, "release", "failed")
  /\ stranded' = stranded \cup {Of(h)}
  /\ UNCHANGED <<load, claims, connected, next, jobs, notes, reopened, dropped>>

\* The service dies with the handler; GitHub sees no answer.
Dies(h) ==
  /\ hpc[h] \in Active /\ HookFault
  /\ hpc' = [hpc EXCEPT ![h] = "dead"]
  /\ stranded' = stranded \cup {Of(h)}
  /\ UNCHANGED <<load, claims, connected, next, jobs, notes, reopened, dropped>>

\* WEBHOOK_DEDUP_TTL_SECONDS
ClaimExpires(d) ==
  /\ d \in claims /\ HookFault /\ claims' = claims \ {d}
  /\ reopened' = reopened \cup {d}
  /\ UNCHANGED <<load, connected, hpc, next, jobs, notes, stranded, dropped>>

HookNext ==
  \/ \E h \in Handlers :
       \/ Unsigned(h) \/ Claim(h) \/ Duplicate(h) \/ FailOpen(h) \/ RouteDelivery(h) \/ PublishJob(h)
       \/ PublishJobFails(h) \/ Release(h) \/ ReleaseSkipped(h) \/ ReleaseFails(h) \/ Dies(h)
  \/ \E d \in Deliveries : ClaimExpires(d)

HookSpec == HookInit /\ [][HookNext]_hookVars

-----------------------------------------------------------------------------
(* Properties.                                                             *)

\* A delivery queues a job twice only after its claim was bypassed, given back
\* by a handler that failed half-way, or expired: concurrent replicas "cannot
\* both win".
QueuedOnce ==
  \A d \in Deliveries :
    d \notin reopened => notes[d] <= 1 /\ \A w \in 1..Matched : jobs[<<d, w>>] <= 1

\* GitHub's retry of a failed delivery is not dropped as a duplicate, unless
\* the handler died or its release failed or found no client.
RetryAccepted == dropped \subseteq stranded

=============================================================================
