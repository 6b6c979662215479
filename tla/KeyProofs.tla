----------------------------- MODULE KeyProofs -----------------------------
(***************************************************************************)
(* Proofs about keys in Redis that many processes write: the webhook's     *)
(* claims on deliveries, the limiters in front of the outer APIs, the keys *)
(* of one thread's sessions, and the scheduler's locks on a repository's   *)
(* minute.                                                                 *)
(*                                                                         *)
(* A delivery that was not reopened (its claim bypassed, given back or     *)
(* expired) has let at most one handler past the claim (OneEntered), and   *)
(* what is queued for it is what that handler has published so far         *)
(* (QueuedByOne): no other handler adds to it.  That a retry is not        *)
(* refused rests on ClaimOwned: a claim without a handler at work on it,   *)
(* done with it or dead was stranded by a release that failed.             *)
(*                                                                         *)
(* The limiters' invariant is Bounded: it counts for each window, beside   *)
(* the granted requests, the callers between the count and the add whose   *)
(* time lies in it.  A caller enters that gap only where the window the    *)
(* clock is in has room (RecentKept: nothing in it was forgotten), and in  *)
(* memory there is no gap (MemoryAtOnce).                                  *)
(*                                                                         *)
(* A session is reachable, and no key of it stays without a TTL, together: *)
(* when the lookup key expires, the hash it led to expires with it unless  *)
(* it has no TTL, and then it is only a partial one.  KeyPlaces says that  *)
(* a request's job has not begun before the request has written the keys,  *)
(* and that the cleanup and the change of the TTL hold a token while they  *)
(* work on its keys.                                                       *)
(*                                                                         *)
(* A repository and a stamp have one owner (OneOwner), who works on them   *)
(* or has published for them.  The owner's lock outlives the stamp by the  *)
(* TTL (LockCovers), because a stamp is no later than the minute in which  *)
(* its lock is taken (StampPast): a lock that is free earlier had none.    *)
(***************************************************************************)
EXTENDS WebhookDelivery, RateLimiter, Scheduler, SessionKeys, FiniteSetTheorems, TLAPS

(* WebhookDelivery.                                                        *)

\* A handler that has passed the claim.
Entered == Active \cup {"accepted", "rejected", "failed", "dead"}

\* The types that the steps rely on.
HookTypes ==
  /\ claims \subseteq Deliveries
  /\ hpc \in [Handlers -> Entered \cup {"new", "duplicate", "unsigned"}]
  /\ next \in [Handlers -> Nat]
  /\ jobs \in [Deliveries \X (1..Matched) -> Nat] /\ notes \in [Deliveries -> Nat]

\* How far a handler has come with its publications.
HookPlaces ==
  \A h \in Handlers :
    /\ hpc[h] \in {"new", "claimed"} => next[h] = 1
    /\ hpc[h] = "publish" => next[h] \in 1..Matched

\* The claim of a delivery that was not reopened lets one handler in.
OneEntered ==
  \A h \in Handlers :
    hpc[h] \in Entered /\ Of(h) \notin reopened =>
      /\ Of(h) \in claims
      /\ \A g \in Handlers : hpc[g] \in Entered /\ Of(g) = Of(h) => g = h

\* What a delivery has queued is what that handler has published.
QueuedByOne ==
  /\ \A d \in Deliveries :
       d \notin reopened /\ (\A h \in Handlers : Of(h) = d => hpc[h] \notin Entered)
         => notes[d] = 0 /\ \A w \in 1..Matched : jobs[<<d, w>>] = 0
  /\ \A h \in Handlers :
       hpc[h] \in Entered /\ Of(h) \notin reopened =>
         /\ notes[Of(h)] <= 1 /\ (hpc[h] = "claimed" => notes[Of(h)] = 0)
         /\ \A w \in 1..Matched :
              jobs[<<Of(h), w>>] <= 1 /\ (next[h] <= w => jobs[<<Of(h), w>>] = 0)

HookInv == HookTypes /\ HookPlaces /\ OneEntered /\ QueuedByOne

\* A handler moves between places of the same sort, and publishes nothing.
LEMMA HookKept ==
  ASSUME HookInv, NEW h \in Handlers, NEW p \in Entered, hpc[h] \in Entered,
         hpc' = [hpc EXCEPT ![h] = p], p = "claimed" => hpc[h] = "claimed",
         p = "publish" => hpc[h] = "claimed", p = "publish" => next[h] <= Matched,
         UNCHANGED <<next, jobs, notes>>,
         claims' \subseteq claims, claims \subseteq claims' \cup reopened',
         reopened \subseteq reopened'
  PROVE  HookInv'
<1>1. \A g \in Handlers : hpc'[g] = IF g = h THEN p ELSE hpc[g]
  BY DEF HookInv, HookTypes
<1>2. HookTypes'
  BY DEF HookInv, HookTypes
<1>3. HookPlaces'
  BY <1>1 DEF HookInv, HookPlaces, HookTypes, Entered, Active
<1>4. OneEntered'
  BY <1>1 DEF HookInv, OneEntered
<1>5. QueuedByOne'
  BY <1>1 DEF HookInv, QueuedByOne
<1> QED
  BY <1>2, <1>3, <1>4, <1>5 DEF HookInv

\* Every handler's step keeps the publications of its delivery with it.
LEMMA HookStep ==
  ASSUME HookAssumption PROVE HookInv /\ [HookNext]_hookVars => HookInv'
<1> SUFFICES ASSUME HookInv, [HookNext]_hookVars PROVE HookInv'
  OBVIOUS
<1>0. /\ HookTypes /\ HookPlaces /\ OneEntered /\ QueuedByOne
      /\ Matched \in Nat \ {0}
      /\ \A h \in Handlers : Of(h) \in Deliveries
  BY DEF HookInv, HookAssumption, Handlers, Of
<1>1. ASSUME NEW h \in Handlers, Unsigned(h) \/ Duplicate(h) PROVE HookInv'
  <2>1. /\ \E p \in {"unsigned", "duplicate"} : hpc' = [hpc EXCEPT ![h] = p]
        /\ hpc[h] = "new" /\ UNCHANGED <<claims, next, jobs, notes, reopened>>
    BY <1>1 DEF Unsigned, Duplicate, HandlerStep
  <2>2. \A g \in Handlers \ {h} : hpc'[g] = hpc[g]
    BY <1>0, <2>1 DEF HookTypes
  <2>3. hpc'[h] \notin Entered \cup {"new"} /\ hpc[h] \notin Entered
    BY <1>0, <2>1 DEF HookTypes, Entered, Active
  <2>4. HookTypes'
    BY <1>0, <2>1 DEF HookTypes
  <2>5. HookPlaces'
    BY <1>0, <2>1, <2>2, <2>3 DEF HookPlaces, Entered, Active
  <2>6. OneEntered' /\ QueuedByOne'
    BY <1>0, <2>1, <2>2, <2>3 DEF OneEntered, QueuedByOne
  <2> QED
    BY <2>4, <2>5, <2>6 DEF HookInv
<1>2. ASSUME NEW h \in Handlers, Claim(h) \/ FailOpen(h) PROVE HookInv'
  <2>1. /\ hpc' = [hpc EXCEPT ![h] = "claimed"] /\ hpc[h] = "new"
        /\ UNCHANGED <<next, jobs, notes>>
        /\ \/ /\ Of(h) \notin claims /\ claims' = claims \cup {Of(h)} /\ reopened' = reopened
           \/ claims' = claims /\ reopened' = reopened \cup {Of(h)}
    BY <1>2 DEF Claim, FailOpen, HandlerStep
  <2>2. \A g \in Handlers \ {h} : hpc'[g] = hpc[g]
    BY <1>0, <2>1 DEF HookTypes
  <2>3. hpc'[h] = "claimed" /\ "claimed" \in Entered /\ hpc[h] \notin Entered /\ next[h] = 1
    BY <1>0, <2>1 DEF HookTypes, HookPlaces, Entered, Active
  <2>4. HookTypes'
    BY <1>0, <2>1 DEF HookTypes, Entered, Active
  <2>5. HookPlaces'
    BY <1>0, <2>1, <2>2, <2>3 DEF HookPlaces
  <2>6. Of(h) \notin reopened' =>
          \A g \in Handlers \ {h} : Of(g) = Of(h) => hpc[g] \notin Entered
    BY <1>0, <2>1 DEF OneEntered
  <2>7. OneEntered'
    BY <1>0, <2>1, <2>2, <2>3, <2>6 DEF OneEntered
  <2>8. Of(h) \notin reopened' =>
          notes[Of(h)] = 0 /\ \A w \in 1..Matched : jobs[<<Of(h), w>>] = 0
    BY <1>0, <2>1, <2>3, <2>6 DEF QueuedByOne
  <2>9. \A d \in Deliveries :
          d \notin reopened' /\ (\A g \in Handlers : Of(g) = d => hpc'[g] \notin Entered)
            => notes[d] = 0 /\ \A w \in 1..Matched : jobs[<<d, w>>] = 0
    BY <1>0, <2>1, <2>2, <2>3 DEF QueuedByOne
  <2>10. ASSUME NEW g \in Handlers, g # h, hpc'[g] \in Entered, Of(g) \notin reopened'
         PROVE  /\ notes[Of(g)] <= 1 /\ (hpc'[g] = "claimed" => notes[Of(g)] = 0)
                /\ \A w \in 1..Matched :
                     jobs[<<Of(g), w>>] <= 1 /\ (next[g] <= w => jobs[<<Of(g), w>>] = 0)
    <3>1. g \in Handlers \ {h} /\ hpc'[g] = hpc[g]
      BY <2>2, <2>10
    <3>2. hpc[g] \in Entered /\ Of(g) \notin reopened
      BY <2>1, <2>10, <3>1
    <3> QED
      BY <1>0, <3>1, <3>2 DEF QueuedByOne
  <2>11. QueuedByOne'
    BY <2>1, <2>8, <2>9, <2>10 DEF QueuedByOne
  <2> QED
    BY <2>4, <2>5, <2>7, <2>11 DEF HookInv
<1>3. ASSUME NEW h \in Handlers, RouteDelivery(h) PROVE HookInv'
  <2>1. /\ hpc[h] = "claimed" /\ UNCHANGED <<claims, next, jobs, reopened>>
        /\ \E p \in {"rejected", "accepted", "publish"} : hpc' = [hpc EXCEPT ![h] = p]
    BY <1>3 DEF RouteDelivery, HandlerStep
  <2>2. PICK n \in {0, 1} :
          /\ notes' \in [Deliveries -> Nat]
          /\ \A d \in Deliveries : notes'[d] = IF d = Of(h) THEN notes[d] + n ELSE notes[d]
    <3>1. CASE HasNote(load[Of(h)])
      <4>1. notes' = [notes EXCEPT ![Of(h)] = @ + 1]
        BY <1>3, <3>1 DEF RouteDelivery
      <4>2. /\ notes' \in [Deliveries -> Nat]
            /\ \A d \in Deliveries :
                 notes'[d] = IF d = Of(h) THEN notes[d] + 1 ELSE notes[d]
        BY <1>0, <4>1 DEF HookTypes
      <4> QED
        BY <4>2
    <3>2. CASE ~HasNote(load[Of(h)])
      BY <1>0, <1>3, <3>2 DEF RouteDelivery, HookTypes
    <3> QED
      BY <3>1, <3>2
  <2>3. \A g \in Handlers \ {h} : hpc'[g] = hpc[g]
    BY <1>0, <2>1 DEF HookTypes
  <2>4. hpc'[h] \in Entered \ {"claimed", "new"} /\ hpc[h] \in Entered /\ next[h] = 1
    BY <1>0, <2>1 DEF HookTypes, HookPlaces, Entered, Active
  <2>6. HookTypes'
    BY <1>0, <2>1, <2>2, <2>4 DEF HookTypes, Entered, Active
  <2>7. HookPlaces'
    BY <1>0, <2>1, <2>3, <2>4 DEF HookPlaces
  <2>8. OneEntered'
    BY <1>0, <2>1, <2>3, <2>4 DEF OneEntered
  <2>9. QueuedByOne'
    BY <1>0, <2>1, <2>2, <2>3, <2>4 DEF QueuedByOne, OneEntered, HookTypes
  <2> QED
    BY <2>6, <2>7, <2>8, <2>9 DEF HookInv
<1>4. ASSUME NEW h \in Handlers, PublishJob(h) PROVE HookInv'
  <2>1. /\ hpc[h] = "publish" /\ UNCHANGED <<claims, notes, reopened>>
        /\ jobs' = [jobs EXCEPT ![<<Of(h), next[h]>>] = @ + 1]
        /\ next' = [next EXCEPT ![h] = @ + 1]
        /\ hpc' = IF next[h] = Matched THEN [hpc EXCEPT ![h] = "accepted"] ELSE hpc
    BY <1>4 DEF PublishJob
  <2>2. next[h] \in 1..Matched /\ hpc[h] \in Entered
    BY <1>0, <2>1 DEF HookPlaces, Entered, Active
  <2>3. /\ \A g \in Handlers \ {h} : hpc'[g] = hpc[g] /\ next'[g] = next[g]
        /\ next'[h] = next[h] + 1 /\ hpc'[h] \in Entered \ {"new", "claimed"}
        /\ hpc'[h] = "publish" => next[h] # Matched
    BY <1>0, <2>1, <2>2 DEF HookTypes, Entered, Active
  <2>4. \A d \in Deliveries, w \in 1..Matched :
          jobs'[<<d, w>>] = IF d = Of(h) /\ w = next[h] THEN jobs[<<d, w>>] + 1
                                                     ELSE jobs[<<d, w>>]
    BY <1>0, <2>1, <2>2 DEF HookTypes
  <2>5. HookTypes'
    <3>1. jobs' \in [Deliveries \X (1..Matched) -> Nat]
      BY <1>0, <2>1, <2>2 DEF HookTypes
    <3> QED
      BY <1>0, <2>1, <2>2, <3>1 DEF HookTypes, Entered, Active
  <2>6. HookPlaces'
    BY <1>0, <2>1, <2>2, <2>3 DEF HookPlaces
  <2>7. OneEntered'
    BY <1>0, <2>1, <2>2, <2>3 DEF OneEntered
  <2>8. QueuedByOne'
    <3>1. \A d \in Deliveries :
            d \notin reopened /\ (\A g \in Handlers : Of(g) = d => hpc'[g] \notin Entered)
              => d # Of(h) /\ \A g \in Handlers : Of(g) = d => hpc[g] \notin Entered
      BY <2>2, <2>3
    <3>2. \A d \in Deliveries :
            d \notin reopened /\ (\A g \in Handlers : Of(g) = d => hpc'[g] \notin Entered)
              => notes[d] = 0 /\ \A w \in 1..Matched : jobs'[<<d, w>>] = 0
      BY <1>0, <2>4, <3>1 DEF QueuedByOne
    <3>3. ASSUME NEW g \in Handlers, hpc'[g] \in Entered, Of(g) \notin reopened,
                 NEW w \in 1..Matched
          PROVE  /\ jobs'[<<Of(g), w>>] <= 1
                 /\ next'[g] <= w => jobs'[<<Of(g), w>>] = 0
      <4>1. hpc[g] \in Entered /\ (Of(g) = Of(h) => g = h)
        BY <1>0, <2>2, <2>3, <3>3 DEF OneEntered
      <4>2. jobs[<<Of(g), w>>] <= 1 /\ (next[g] <= w => jobs[<<Of(g), w>>] = 0)
        BY <1>0, <3>3, <4>1 DEF QueuedByOne
      <4> QED
        BY <1>0, <2>2, <2>3, <2>4, <4>1, <4>2 DEF HookTypes
    <3>4. \A g \in Handlers :
            hpc'[g] \in Entered /\ Of(g) \notin reopened /\ hpc'[g] = "claimed"
              => notes[Of(g)] = 0
      BY <1>0, <2>2, <2>3 DEF QueuedByOne
    <3>5. \A g \in Handlers :
            hpc'[g] \in Entered /\ Of(g) \notin reopened => notes[Of(g)] <= 1
      BY <1>0, <2>2, <2>3 DEF QueuedByOne
    <3> QED
      BY <2>1, <3>2, <3>3, <3>4, <3>5 DEF QueuedByOne
  <2> QED
    BY <2>5, <2>6, <2>7, <2>8 DEF HookInv
<1>5. ASSUME NEW h \in Handlers,
             \/ PublishJobFails(h) \/ Release(h) \/ ReleaseSkipped(h) \/ ReleaseFails(h)
             \/ Dies(h)
      PROVE  HookInv'
  <2>1. PICK p \in {"release", "failed", "dead"} :
          /\ hpc[h] \in Entered /\ hpc' = [hpc EXCEPT ![h] = p]
          /\ UNCHANGED <<next, jobs, notes>> /\ claims' \subseteq claims
          /\ claims \subseteq claims' \cup reopened' /\ reopened \subseteq reopened'
    BY <1>5
    DEF PublishJobFails, Release, ReleaseSkipped, ReleaseFails, Dies, HandlerStep, Entered, Active
  <2> QED
    BY <2>1, HookKept DEF Entered, Active
<1>6. ASSUME NEW d \in Deliveries, ClaimExpires(d) PROVE HookInv'
  <2>1. /\ UNCHANGED <<hpc, next, jobs, notes>> /\ claims' = claims \ {d}
        /\ reopened' = reopened \cup {d}
    BY <1>6 DEF ClaimExpires
  <2> QED
    BY <2>1 DEF HookInv, HookTypes, HookPlaces, OneEntered, QueuedByOne
<1>7. CASE UNCHANGED hookVars
  BY <1>7 DEF hookVars, HookInv, HookTypes, HookPlaces, OneEntered, QueuedByOne
<1> QED
  BY <1>1, <1>2, <1>3, <1>4, <1>5, <1>6, <1>7 DEF HookNext

\* No handler has passed the claim at the start.
LEMMA HookStarts == HookInit => HookInv
<1> SUFFICES ASSUME HookInit PROVE HookInv
  OBVIOUS
<1>1. \A h \in Handlers : hpc[h] = "new" /\ next[h] = 1
  BY DEF HookInit
<1>2. HookTypes
  BY DEF HookInit, HookTypes
<1> QED
  BY <1>1, <1>2
  DEF HookInit, HookInv, HookPlaces, OneEntered, QueuedByOne, Entered, Active

\* A delivery whose claim was not bypassed, given back or expired queues every
\* job and its sync or cleanup request at most once, over all its attempts.
THEOREM DeliveryQueuedOnce ==
  ASSUME HookAssumption PROVE HookSpec => []QueuedOnce
<1>1. HookInv => QueuedOnce
  <2> SUFFICES ASSUME HookInv, NEW d \in Deliveries, d \notin reopened
               PROVE  notes[d] <= 1 /\ \A w \in 1..Matched : jobs[<<d, w>>] <= 1
    BY DEF QueuedOnce
  <2>1. CASE \A h \in Handlers : Of(h) = d => hpc[h] \notin Entered
    BY <2>1 DEF HookInv, QueuedByOne
  <2>2. CASE \E h \in Handlers : Of(h) = d /\ hpc[h] \in Entered
    BY <2>2 DEF HookInv, QueuedByOne
  <2> QED
    BY <2>1, <2>2
<1> QED
  BY <1>1, HookStarts, HookStep, PTL DEF HookSpec

\* A claim that stands belongs to a handler at work or done, or is stranded.
ClaimOwned ==
  \A d \in claims \ stranded :
    \E h \in Handlers : Of(h) = d /\ hpc[h] \in Active \cup {"accepted", "rejected"}

RetryInv == ClaimOwned /\ RetryAccepted

\* Every handler that fails gives its claim back, or leaves it stranded.
LEMMA ClaimRetryStep ==
  HookTypes /\ RetryInv /\ [HookNext]_hookVars => RetryInv'
<1> SUFFICES ASSUME HookTypes, ClaimOwned, RetryAccepted, [HookNext]_hookVars
             PROVE  ClaimOwned' /\ RetryAccepted'
  BY DEF RetryInv
<1> DEFINE Owner == Active \cup {"accepted", "rejected"}
<1>1. ASSUME NEW h \in Handlers, Claim(h) PROVE ClaimOwned' /\ RetryAccepted'
  <2>1. /\ hpc[h] = "new" /\ hpc' = [hpc EXCEPT ![h] = "claimed"]
        /\ claims' = claims \cup {Of(h)} /\ UNCHANGED <<stranded, dropped>>
    BY <1>1 DEF Claim, HandlerStep
  <2>2. \A g \in Handlers : hpc'[g] = IF g = h THEN "claimed" ELSE hpc[g]
    BY <2>1 DEF HookTypes
  <2> QED
    BY <2>1, <2>2 DEF ClaimOwned, RetryAccepted, Active
<1>2. ASSUME NEW h \in Handlers, Duplicate(h) PROVE ClaimOwned' /\ RetryAccepted'
  <2>1. /\ hpc[h] = "new" /\ hpc' = [hpc EXCEPT ![h] = "duplicate"] /\ Of(h) \in claims
        /\ UNCHANGED <<claims, stranded>>
        /\ dropped' = IF Handled(h) THEN dropped ELSE dropped \cup {Of(h)}
    BY <1>2 DEF Duplicate, HandlerStep
  <2>2. \A g \in Handlers : hpc'[g] = IF g = h THEN "duplicate" ELSE hpc[g]
    BY <2>1 DEF HookTypes
  <2>3. Of(h) \in stranded \/ Handled(h)
    BY <2>1 DEF ClaimOwned, Handled, Active
  <2>4. hpc[h] \notin Owner
    BY <2>1 DEF Active
  <2> QED
    BY <2>1, <2>2, <2>3, <2>4 DEF ClaimOwned, RetryAccepted
<1>3. ASSUME NEW h \in Handlers, Unsigned(h) \/ FailOpen(h) PROVE ClaimOwned' /\ RetryAccepted'
  <2>1. /\ hpc[h] = "new" /\ \E p \in {"unsigned", "claimed"} : hpc' = [hpc EXCEPT ![h] = p]
        /\ UNCHANGED <<claims, stranded, dropped>>
    BY <1>3 DEF Unsigned, FailOpen, HandlerStep
  <2>2. \A g \in Handlers \ {h} : hpc'[g] = hpc[g]
    BY <2>1 DEF HookTypes
  <2>3. hpc[h] \notin Owner
    BY <2>1 DEF Active
  <2> QED
    BY <2>1, <2>2, <2>3 DEF ClaimOwned, RetryAccepted
<1>4. ASSUME NEW h \in Handlers, RouteDelivery(h) \/ PublishJob(h) \/ PublishJobFails(h)
      PROVE  ClaimOwned' /\ RetryAccepted'
  <2>1. UNCHANGED <<claims, stranded, dropped>>
    BY <1>4 DEF RouteDelivery, PublishJob, PublishJobFails
  <2>2. \A g \in Handlers \ {h} : hpc'[g] = hpc[g]
    BY <1>4 DEF RouteDelivery, PublishJob, PublishJobFails, HandlerStep, HookTypes
  <2>3. hpc'[h] \in Owner
    BY <1>4 DEF RouteDelivery, PublishJob, PublishJobFails, HandlerStep, HookTypes, Active
  <2> QED
    BY <2>1, <2>2, <2>3 DEF ClaimOwned, RetryAccepted
<1>5. ASSUME NEW h \in Handlers,
             Release(h) \/ ReleaseSkipped(h) \/ ReleaseFails(h) \/ Dies(h)
      PROVE  ClaimOwned' /\ RetryAccepted'
  <2>1. /\ claims' \ stranded' \subseteq (claims \ stranded) \ {Of(h)}
        /\ stranded \subseteq stranded' /\ dropped' = dropped
    BY <1>5 DEF Release, ReleaseSkipped, ReleaseFails, Dies
  <2>2. \A g \in Handlers \ {h} : hpc'[g] = hpc[g]
    BY <1>5 DEF Release, ReleaseSkipped, ReleaseFails, Dies, HandlerStep, HookTypes
  <2> QED
    BY <2>1, <2>2 DEF ClaimOwned, RetryAccepted
<1>6. ASSUME NEW d \in Deliveries, ClaimExpires(d) PROVE ClaimOwned' /\ RetryAccepted'
  BY <1>6 DEF ClaimExpires, ClaimOwned, RetryAccepted
<1>7. CASE UNCHANGED hookVars
  BY <1>7 DEF hookVars, ClaimOwned, RetryAccepted
<1> QED
  BY <1>1, <1>2, <1>3, <1>4, <1>5, <1>6, <1>7 DEF HookNext

\* GitHub's retry of a delivery is refused only while another attempt is at work
\* on it or has dealt with it, or when a failed handler's claim was stranded.
THEOREM RetryNotRefused ==
  ASSUME HookAssumption PROVE HookSpec => []RetryAccepted
<1>1. HookInit => RetryInv
  BY DEF HookInit, RetryInv, ClaimOwned, RetryAccepted
<1>2. HookInv /\ RetryInv /\ [HookNext]_hookVars => RetryInv'
  BY ClaimRetryStep DEF HookInv
<1>3. RetryInv => RetryAccepted
  BY DEF RetryInv
<1> QED
  BY <1>1, <1>2, <1>3, HookStarts, HookStep, PTL DEF HookSpec

\* The attempts at a delivery that are past its sync or cleanup request, and past
\* the job of one workflow.
PastNote(d)   == {t \in Tries : hpc[<<d, t>>] \notin {"new", "duplicate", "unsigned", "claimed"}}
PastJob(d, w) == {t \in Tries : next[<<d, t>>] > w}

\* No attempt queues the request or a workflow's job more than once.
HookCounts ==
  \A d \in Deliveries :
    /\ notes[d] <= Cardinality(PastNote(d))
    /\ \A w \in 1..Matched : jobs[<<d, w>>] <= Cardinality(PastJob(d, w))

HookTypeInv == HookInv /\ HookTypeOK /\ HookCounts

\* A set that gains an element is larger.
LEMMA LargerByOne ==
  ASSUME NEW T, IsFiniteSet(T), NEW A, NEW B \in SUBSET T, A \subseteq B,
         NEW x \in B, x \notin A
  PROVE  Cardinality(A) + 1 <= Cardinality(B) /\ Cardinality(A) \in Nat
<1>1. IsFiniteSet(A) /\ IsFiniteSet(B) /\ A \cup {x} \subseteq B
  BY FS_Subset
<1>2. IsFiniteSet(A \cup {x}) /\ Cardinality(A \cup {x}) = Cardinality(A) + 1
  BY <1>1, FS_AddElement
<1>3. Cardinality(A) \in Nat /\ Cardinality(B) \in Nat
  BY <1>1, FS_CardinalityType
<1> QED
  BY <1>1, <1>2, <1>3, FS_Subset

\* An attempt that is past a publication stays past it.
LEMMA HookAdvances ==
  ASSUME HookAssumption, HookInv, [HookNext]_hookVars
  PROVE  \A d \in Deliveries :
           /\ PastNote(d) \subseteq PastNote(d)'
           /\ \A w \in 1..Matched : PastJob(d, w) \subseteq PastJob(d, w)'
<1>1. /\ \A h \in Handlers : hpc[h] \in Entered \cup {"new", "duplicate", "unsigned"}
      /\ \A h \in Handlers : next[h] \in Nat
      /\ \A d \in Deliveries, t \in Tries : <<d, t>> \in Handlers
      /\ hpc = [h \in Handlers |-> hpc[h]] /\ next = [h \in Handlers |-> next[h]]
  BY DEF HookInv, HookTypes, Handlers
<1>2. \A g \in Handlers : next'[g] >= next[g]
  <2>1. ASSUME NEW h \in Handlers, PublishJob(h) PROVE \A g \in Handlers : next'[g] >= next[g]
    BY <1>1, <2>1 DEF PublishJob
  <2>2. CASE UNCHANGED next
    BY <1>1, <2>2
  <2> QED
    BY <2>1, <2>2
    DEF HookNext, hookVars, Unsigned, Claim, Duplicate, FailOpen, RouteDelivery, PublishJobFails,
        Release, ReleaseSkipped, ReleaseFails, Dies, ClaimExpires
<1>3. \A g \in Handlers :
        hpc[g] \notin {"new", "duplicate", "unsigned", "claimed"}
          => hpc'[g] \notin {"new", "duplicate", "unsigned", "claimed"}
  <2>1. CASE UNCHANGED hpc
    BY <2>1
  <2>2. ASSUME NEW h \in Handlers, hpc[h] \in {"new", "claimed"},
               NEW p, hpc' = [hpc EXCEPT ![h] = p]
        PROVE  \A g \in Handlers :
                 hpc[g] \notin {"new", "duplicate", "unsigned", "claimed"} => hpc'[g] = hpc[g]
    BY <1>1, <2>2
  <2>3. ASSUME NEW h \in Handlers, NEW p \in {"accepted", "release", "failed", "dead"},
               hpc' = [hpc EXCEPT ![h] = p]
        PROVE  \A g \in Handlers : hpc'[g] = hpc[g] \/ hpc'[g] = p
    BY <1>1, <2>3
  <2>4. ASSUME NEW h \in Handlers,
               \/ Unsigned(h) \/ Claim(h) \/ Duplicate(h) \/ FailOpen(h) \/ RouteDelivery(h)
        PROVE  hpc[h] \in {"new", "claimed"} /\ \E p : hpc' = [hpc EXCEPT ![h] = p]
    BY <2>4 DEF Unsigned, Claim, Duplicate, FailOpen, RouteDelivery, HandlerStep
  <2>5. ASSUME NEW h \in Handlers,
               \/ PublishJob(h) \/ PublishJobFails(h) \/ Release(h) \/ ReleaseSkipped(h)
               \/ ReleaseFails(h) \/ Dies(h)
        PROVE  \/ UNCHANGED hpc
               \/ \E p \in {"accepted", "release", "failed", "dead"} :
                    hpc' = [hpc EXCEPT ![h] = p]
    BY <2>5 DEF PublishJob, PublishJobFails, Release, ReleaseSkipped, ReleaseFails, Dies,
                HandlerStep
  <2>6. ASSUME NEW d \in Deliveries, ClaimExpires(d) PROVE UNCHANGED hpc
    BY <2>6 DEF ClaimExpires
  <2> QED
    BY <2>1, <2>2, <2>3, <2>4, <2>5, <2>6 DEF HookNext, hookVars
<1>4. ASSUME NEW d \in Deliveries PROVE PastNote(d) \subseteq PastNote(d)'
  BY <1>1, <1>3 DEF PastNote
<1>5. ASSUME NEW d \in Deliveries, NEW w \in 1..Matched PROVE PastJob(d, w) \subseteq PastJob(d, w)'
  <2>1. next' = [h \in Handlers |-> next'[h]] /\ \A h \in Handlers : next'[h] \in Nat
    BY HookStep DEF HookInv, HookTypes
  <2> QED
    BY <1>1, <1>2, <2>1 DEF PastJob
<1> QED
  BY <1>4, <1>5

\* A handler that queues something passes it with the same step.
LEMMA HookCounted ==
  ASSUME HookAssumption, HookBounds, HookTypeInv, [HookNext]_hookVars
  PROVE  HookCounts'
<1>0. /\ IsFiniteSet(Tries) /\ Matched \in Nat \ {0}
      /\ notes \in [Deliveries -> Nat] /\ jobs \in [Deliveries \X (1..Matched) -> Nat]
      /\ hpc \in [Handlers -> Entered \cup {"new", "duplicate", "unsigned"}]
      /\ next \in [Handlers -> Nat]
      /\ HookInv /\ HookCounts
  BY DEF HookAssumption, HookBounds, HookTypeInv, HookInv, HookTypes
<1>1. \A d \in Deliveries :
        /\ Cardinality(PastNote(d)) <= Cardinality(PastNote(d)')
        /\ Cardinality(PastNote(d)) \in Nat /\ Cardinality(PastNote(d)') \in Nat
        /\ \A w \in 1..Matched :
             /\ Cardinality(PastJob(d, w)) <= Cardinality(PastJob(d, w)')
             /\ Cardinality(PastJob(d, w)) \in Nat /\ Cardinality(PastJob(d, w)') \in Nat
  <2>1. ASSUME NEW A, NEW B, A \subseteq B, B \subseteq Tries
        PROVE  /\ Cardinality(A) <= Cardinality(B)
               /\ Cardinality(A) \in Nat /\ Cardinality(B) \in Nat
    BY <1>0, <2>1, FS_Subset, FS_CardinalityType
  <2>2. \A d \in Deliveries :
          PastNote(d)' \subseteq Tries /\ \A w \in 1..Matched : PastJob(d, w)' \subseteq Tries
    BY DEF PastNote, PastJob
  <2> QED
    BY <1>0, <2>1, <2>2, HookAdvances
<1>a. \A d \in Deliveries :
        /\ notes[d] \in Nat /\ notes[d] <= Cardinality(PastNote(d))
        /\ \A w \in 1..Matched :
             jobs[<<d, w>>] \in Nat /\ jobs[<<d, w>>] <= Cardinality(PastJob(d, w))
  BY <1>0 DEF HookCounts
<1>b. ASSUME \A d \in Deliveries :
               /\ notes'[d] = notes[d] \/ notes'[d] <= Cardinality(PastNote(d)')
               /\ \A w \in 1..Matched :
                    \/ jobs'[<<d, w>>] = jobs[<<d, w>>]
                    \/ jobs'[<<d, w>>] <= Cardinality(PastJob(d, w)')
      PROVE  HookCounts'
  <2>1. ASSUME NEW d \in Deliveries PROVE notes'[d] <= Cardinality(PastNote(d)')
    BY <1>1, <1>a, <1>b
  <2>2. ASSUME NEW d \in Deliveries, NEW w \in 1..Matched
        PROVE  jobs'[<<d, w>>] <= Cardinality(PastJob(d, w)')
    BY <1>1, <1>a, <1>b
  <2> QED
    BY <2>1, <2>2 DEF HookCounts
<1>2. CASE UNCHANGED <<notes, jobs>>
  BY <1>2, <1>b
<1>3. ASSUME NEW h \in Handlers, RouteDelivery(h) PROVE HookCounts'
  <2>1. PICK d \in Deliveries, t \in Tries : h = <<d, t>> /\ Of(h) = d
    BY DEF Handlers, Of
  <2>2. /\ hpc[h] = "claimed" /\ jobs' = jobs
        /\ \E p \in {"rejected", "accepted", "publish"} : hpc' = [hpc EXCEPT ![h] = p]
    BY <1>3 DEF RouteDelivery, HandlerStep
  <2>3. t \notin PastNote(d) /\ t \in PastNote(d)'
    BY <1>0, <2>1, <2>2 DEF PastNote
  <2>4. Cardinality(PastNote(d)) + 1 <= Cardinality(PastNote(d)')
    <3>1. PastNote(d) \subseteq PastNote(d)' /\ PastNote(d)' \subseteq Tries
      BY <1>0, HookAdvances DEF PastNote
    <3> QED
      BY <1>0, <2>3, <3>1, LargerByOne
  <2>5. notes' = notes \/ notes' = [notes EXCEPT ![d] = @ + 1]
    BY <1>3, <2>1 DEF RouteDelivery
  <2>6. \A e \in Deliveries \ {d} : notes'[e] = notes[e]
    BY <1>0, <2>5
  <2>7. notes'[d] = notes[d] \/ notes'[d] = notes[d] + 1
    BY <1>0, <2>5
  <2>8. notes'[d] = notes[d] \/ notes'[d] <= Cardinality(PastNote(d)')
    BY <1>1, <1>a, <2>4, <2>7
  <2> QED
    BY <1>b, <2>2, <2>6, <2>8
<1>4. ASSUME NEW h \in Handlers, PublishJob(h) PROVE HookCounts'
  <2>1. PICK d \in Deliveries, t \in Tries : h = <<d, t>> /\ Of(h) = d
    BY DEF Handlers, Of
  <2>2. PICK w \in 1..Matched :
          /\ next[h] = w /\ next'[h] = w + 1 /\ notes' = notes
          /\ jobs' = [jobs EXCEPT ![<<d, w>>] = @ + 1]
    BY <1>0, <1>4, <2>1 DEF PublishJob, HookInv, HookPlaces
  <2>3. t \notin PastJob(d, w) /\ t \in PastJob(d, w)'
    BY <2>1, <2>2 DEF PastJob
  <2>4. Cardinality(PastJob(d, w)) + 1 <= Cardinality(PastJob(d, w)')
    <3>1. PastJob(d, w) \subseteq PastJob(d, w)' /\ PastJob(d, w)' \subseteq Tries
      BY <1>0, HookAdvances DEF PastJob
    <3> QED
      BY <1>0, <2>3, <3>1, LargerByOne
  <2>5. \A e \in Deliveries, v \in 1..Matched :
          jobs'[<<e, v>>] = IF e = d /\ v = w THEN jobs[<<e, v>>] + 1 ELSE jobs[<<e, v>>]
    BY <1>0, <2>2
  <2>6. jobs'[<<d, w>>] <= Cardinality(PastJob(d, w)')
    BY <1>1, <1>a, <2>4, <2>5
  <2> QED
    BY <1>b, <2>2, <2>5, <2>6
<1> QED
  BY <1>2, <1>3, <1>4
  DEF HookNext, hookVars, Unsigned, Claim, Duplicate, FailOpen, PublishJobFails,
      Release, ReleaseSkipped, ReleaseFails, Dies, ClaimExpires

\* Every step keeps the types.
LEMMA HookTypeStep ==
  ASSUME HookAssumption, HookBounds, HookTypeInv, [HookNext]_hookVars
  PROVE  HookTypeInv'
<1>0. /\ Matched \in Nat \ {0} /\ MaxErrors \in Nat
      /\ HookTypeOK /\ HookInv /\ \A h \in Handlers : Of(h) \in Deliveries
  BY DEF HookAssumption, HookBounds, HookTypeInv, Handlers, Of
<1>1. HookInv' /\ HookCounts'
  BY HookStep, HookCounted DEF HookTypeInv
<1>2. /\ load' \in [Deliveries -> Loads] /\ connected' \in BOOLEAN /\ errors' \in 0..MaxErrors
      /\ reopened' \subseteq Deliveries /\ stranded' \subseteq Deliveries
      /\ dropped' \subseteq Deliveries
  <2>1. /\ load' = load
        /\ connected' \in {connected, TRUE, FALSE}
        /\ errors' = errors \/ (errors < MaxErrors /\ errors' = errors + 1)
        /\ reopened' \subseteq reopened \cup Deliveries
        /\ stranded' \subseteq stranded \cup Deliveries
        /\ dropped' \subseteq dropped \cup Deliveries
    BY <1>0
    DEF HookNext, hookVars, Unsigned, Claim, Duplicate, FailOpen, RouteDelivery, PublishJob,
        PublishJobFails, Release, ReleaseSkipped, ReleaseFails, Dies, ClaimExpires, HookFault
  <2>2. /\ load \in [Deliveries -> Loads] /\ connected \in BOOLEAN /\ errors \in 0..MaxErrors
        /\ reopened \subseteq Deliveries /\ stranded \subseteq Deliveries
        /\ dropped \subseteq Deliveries
    BY <1>0 DEF HookTypeOK
  <2>3. connected' \in BOOLEAN
    BY <2>1, <2>2, Zenon
  <2>4. errors' \in 0..MaxErrors
    BY <1>0, <2>1, <2>2
  <2> QED
    BY <2>1, <2>2, <2>3, <2>4, Zenon
<1>3. next' \in [Handlers -> 1..Matched + 1]
  <2>1. ASSUME NEW h \in Handlers, PublishJob(h) PROVE next' \in [Handlers -> 1..Matched + 1]
    <3>1. next[h] \in 1..Matched /\ next' = [next EXCEPT ![h] = @ + 1]
      BY <1>0, <2>1 DEF PublishJob, HookInv, HookPlaces
    <3> QED
      BY <1>0, <3>1 DEF HookTypeOK
  <2> QED
    BY <1>0, <2>1
    DEF HookTypeOK, HookNext, hookVars, Unsigned, Claim, Duplicate, FailOpen, RouteDelivery,
        PublishJobFails, Release, ReleaseSkipped, ReleaseFails, Dies, ClaimExpires
<1>4. /\ jobs' \in [Deliveries \X (1..Matched) -> 0..Cardinality(Tries)]
      /\ notes' \in [Deliveries -> 0..Cardinality(Tries)]
  <2>1. ASSUME NEW A, A \subseteq Tries
        PROVE  Cardinality(A) \in 0..Cardinality(Tries)
    BY <2>1, FS_Subset, FS_CardinalityType DEF HookBounds
  <2>2. \A d \in Deliveries :
          /\ Cardinality(PastNote(d)') \in 0..Cardinality(Tries)
          /\ \A w \in 1..Matched : Cardinality(PastJob(d, w)') \in 0..Cardinality(Tries)
    BY <2>1 DEF PastNote, PastJob
  <2>3. /\ jobs' \in [Deliveries \X (1..Matched) -> Nat] /\ notes' \in [Deliveries -> Nat]
        /\ Cardinality(Tries) \in Nat
    BY <1>1, FS_CardinalityType DEF HookInv, HookTypes, HookBounds
  <2>4. \A d \in Deliveries :
          /\ notes'[d] \in 0..Cardinality(Tries)
          /\ \A w \in 1..Matched : jobs'[<<d, w>>] \in 0..Cardinality(Tries)
    <3>1. ASSUME NEW n \in Nat, NEW c \in 0..Cardinality(Tries), n <= c
          PROVE  n \in 0..Cardinality(Tries)
      BY <2>3, <3>1
    <3>2. \A d \in Deliveries :
            /\ notes'[d] \in Nat /\ notes'[d] <= Cardinality(PastNote(d)')
            /\ \A w \in 1..Matched :
                 jobs'[<<d, w>>] \in Nat /\ jobs'[<<d, w>>] <= Cardinality(PastJob(d, w)')
      BY <1>1, <2>3 DEF HookCounts
    <3> QED
      BY <2>2, <3>1, <3>2
  <2>5. \A x \in Deliveries \X (1..Matched) : jobs'[x] \in 0..Cardinality(Tries)
    BY <2>4
  <2> QED
    BY <2>3, <2>4, <2>5
<1> QED
  BY <1>1, <1>2, <1>3, <1>4 DEF HookTypeInv, HookTypeOK, HookInv, HookTypes, Entered

\* No attempt has queued anything at the start.
LEMMA HookTypeStarts ==
  ASSUME HookAssumption, HookBounds PROVE HookInit => HookTypeInv
<1> SUFFICES ASSUME HookInit PROVE HookTypeInv
  OBVIOUS
<1>1. Cardinality(Tries) \in Nat /\ Matched \in Nat \ {0} /\ MaxErrors \in Nat
  BY FS_CardinalityType DEF HookAssumption, HookBounds
<1>2. HookTypeOK
  <2>1. 0 \in 0..Cardinality(Tries) /\ 0 \in 0..MaxErrors /\ 1 \in 1..Matched + 1
    BY <1>1
  <2> QED
    BY <2>1 DEF HookInit, HookTypeOK
<1>3. \A d \in Deliveries :
        /\ Cardinality(PastNote(d)) \in Nat
        /\ \A w \in 1..Matched : Cardinality(PastJob(d, w)) \in Nat
  BY FS_Subset, FS_CardinalityType DEF HookBounds, PastNote, PastJob
<1>4. HookCounts
  BY <1>3 DEF HookCounts, HookInit
<1> QED
  BY <1>2, <1>4, HookStarts DEF HookTypeInv

\* The webhook's variables keep their types; in particular no attempt at a
\* delivery queues a workflow's job, or the sync or cleanup request, twice, so
\* that neither is queued more often than there are attempts.
THEOREM HookTyped ==
  ASSUME HookAssumption, HookBounds PROVE HookSpec => []HookTypeOK
<1>1. HookTypeInv => HookTypeOK
  BY DEF HookTypeInv
<1> QED
  BY <1>1, HookTypeStarts, HookTypeStep, PTL DEF HookSpec

-----------------------------------------------------------------------------
(* RateLimiter.                                                            *)

\* Callers between the count and the add, with a time in a window.
Pending(t) == {c \in Callers : pc[c] = "add" /\ counted[c] >= t /\ counted[c] < t + Window}

\* How many more than MaxRequests the Redis backend may note.
Excess == IF backend = "redis" THEN Cardinality(Callers) - 1 ELSE 0

\* The types that the steps rely on.
RateTypes ==
  /\ backend \in {"memory", "redis"} /\ now \in Nat
  /\ pc \in [Callers -> {"idle", "loop", "add", "full", "sleep"}]
  /\ counted \in [Callers -> Nat]
  /\ IsFiniteSet(requests) /\ IsFiniteSet(granted)
  /\ \A r \in requests \cup granted : r.at \in Nat

\* Only the Redis backend counts and adds in two steps.
MemoryAtOnce == backend = "memory" => \A c \in Callers : pc[c] \notin {"add", "full"}

\* A request is forgotten only when it has left the window.
RecentKept == \A r \in granted : r.at > now - Window => r \in requests

\* No window holds more, counting the callers that are about to add to it.
Bounded == \A t \in Nat : Cardinality(InWindow(t)) + Cardinality(Pending(t)) <= MaxRequests + Excess

RateInv == RateTypes /\ MemoryAtOnce /\ RecentKept /\ Bounded

\* The sets that are counted are finite.
LEMMA WindowsFinite ==
  ASSUME RateAssumption, RateTypes, NEW t \in Nat
  PROVE  /\ IsFiniteSet(Live) /\ IsFiniteSet(InWindow(t)) /\ IsFiniteSet(Pending(t))
         /\ Cardinality(Live) \in Nat /\ Cardinality(InWindow(t)) \in Nat
         /\ Cardinality(Pending(t)) \in Nat /\ Cardinality(Callers) \in Nat \ {0}
         /\ Cardinality(Pending(t)) <= Cardinality(Callers)
<1>1. /\ Live \subseteq requests /\ InWindow(t) \subseteq granted
      /\ Pending(t) \subseteq Callers
  BY DEF Live, InWindow, Pending
<1>2. IsFiniteSet(requests) /\ IsFiniteSet(granted) /\ IsFiniteSet(Callers)
  BY DEF RateAssumption, RateTypes
<1>3. IsFiniteSet(Live) /\ IsFiniteSet(InWindow(t)) /\ IsFiniteSet(Pending(t))
  BY <1>1, <1>2, FS_Subset
<1>4. Cardinality(Pending(t)) <= Cardinality(Callers)
  BY <1>1, <1>2, FS_Subset
<1>5. Cardinality(Callers) # 0
  BY <1>2, FS_EmptySet DEF RateAssumption
<1> QED
  BY <1>2, <1>3, <1>4, <1>5, FS_CardinalityType

\* The bound is a number.
LEMMA ExcessType == ASSUME RateAssumption PROVE Excess \in Int /\ MaxRequests \in Int
<1>1. Cardinality(Callers) \in Nat
  BY FS_CardinalityType DEF RateAssumption
<1> QED
  BY <1>1 DEF Excess, RateAssumption

\* A window that the clock is in has no more granted requests than are live.
LEMMA WindowLive ==
  ASSUME RateAssumption, RateTypes, RecentKept, NEW t \in Nat, now < t + Window
  PROVE  Cardinality(InWindow(t)) <= Cardinality(Live)
<1>1. InWindow(t) \subseteq Live
  BY DEF InWindow, Live, RecentKept, RateTypes, RateAssumption
<1> QED
  BY <1>1, WindowsFinite, FS_Subset

\* Neither backend lets a caller through or into the gap.
LEMMA RateKept ==
  ASSUME RateAssumption, RateInv, UNCHANGED <<backend, granted>>,
         requests' = requests \/ requests' = Live, now' \in Nat, now <= now',
         pc' \in [Callers -> {"idle", "loop", "add", "full", "sleep"}],
         counted' \in [Callers -> Nat],
         \A c \in Callers : pc'[c] = "add" => pc[c] = "add" /\ counted'[c] = counted[c],
         \A c \in Callers : pc'[c] = "full" => backend = "redis"
  PROVE  RateInv'
<1>0. RateTypes /\ MemoryAtOnce /\ RecentKept /\ Bounded
  BY DEF RateInv
<1>1. IsFiniteSet(requests') /\ \A r \in requests' : r \in requests
  <2>1. IsFiniteSet(Live)
    BY <1>0, WindowsFinite DEF RateTypes
  <2> QED
    BY <1>0, <2>1 DEF RateTypes, Live
<1>2. RateTypes'
  BY <1>0, <1>1 DEF RateTypes
<1>3. MemoryAtOnce'
  BY <1>0 DEF MemoryAtOnce
<1>4. RecentKept'
  BY <1>0 DEF RecentKept, RateTypes, RateAssumption, Live
<1>5. ASSUME NEW t \in Nat
      PROVE  Cardinality(InWindow(t)') + Cardinality(Pending(t)') <= MaxRequests + Excess'
  <2>1. InWindow(t)' = InWindow(t) /\ Excess' = Excess
    BY DEF InWindow, Excess
  <2>2. Pending(t)' \subseteq Pending(t)
    BY DEF Pending
  <2>3. IsFiniteSet(Pending(t))
    BY <1>0, WindowsFinite
  <2>4. Cardinality(Pending(t)') <= Cardinality(Pending(t)) /\ IsFiniteSet(Pending(t)')
    BY <2>2, <2>3, FS_Subset
  <2>6. Cardinality(Pending(t)') \in Nat
    BY <2>4, FS_CardinalityType
  <2>7. Excess \in Int /\ MaxRequests \in Int
    BY <1>0, ExcessType
  <2>5. Cardinality(InWindow(t)) \in Nat /\ Cardinality(Pending(t)) \in Nat
    BY <1>0, WindowsFinite
  <2> QED
    BY <1>0, <2>1, <2>4, <2>5, <2>6, <2>7 DEF Bounded
<1> QED
  BY <1>2, <1>3, <1>4, <1>5 DEF RateInv, Bounded

\* A pass of the in-memory loop lets a request in only where there is room.
LEMMA MemoryStep ==
  ASSUME RateAssumption, RateInv, NEW c \in Callers, MemoryPass(c) PROVE RateInv'
<1>0. RateTypes /\ MemoryAtOnce /\ RecentKept /\ Bounded
  BY DEF RateInv
<1>1. CASE Cardinality(Live) >= MaxRequests
  <2>1. /\ UNCHANGED <<backend, granted, counted, now>> /\ requests' = Live
        /\ \E p \in {"idle", "sleep"} : pc' = [pc EXCEPT ![c] = p]
    BY <1>0, <1>1, WindowsFinite DEF MemoryPass, Proceed, RateAssumption
  <2>2. PICK p \in {"idle", "sleep"} : pc' = [pc EXCEPT ![c] = p]
    BY <2>1
  <2>3. /\ pc' \in [Callers -> {"idle", "loop", "add", "full", "sleep"}]
        /\ counted' = counted /\ counted' \in [Callers -> Nat]
        /\ now' \in Nat /\ now <= now'
    BY <1>0, <2>1, <2>2 DEF RateTypes
  <2>4. \A d \in Callers : pc'[d] \in {"add", "full"} => pc[d] = pc'[d]
    BY <1>0, <2>2 DEF RateTypes
  <2>5. \A d \in Callers : pc'[d] # "add" /\ pc'[d] # "full"
    BY <1>0, <2>4 DEF MemoryAtOnce, MemoryPass
  <2> QED
    BY <2>1, <2>3, <2>5, RateKept
<1>2. CASE Cardinality(Live) < MaxRequests
  <2>0. Request(c, now).at = now
    BY DEF Request
  <2>1. PICK r : r = Request(c, now) /\ r.at = now
    BY <2>0
  <2>2. /\ UNCHANGED <<backend, counted, now>> /\ requests' = Live \cup {r}
        /\ granted' = granted \cup {r} /\ pc' = [pc EXCEPT ![c] = "idle"]
        /\ backend = "memory"
    BY <1>0, <1>2, <2>1, WindowsFinite DEF MemoryPass, Proceed, RateAssumption
  <2>3. /\ IsFiniteSet(Live) /\ Cardinality(Live) \in Nat
        /\ Live \subseteq requests
    BY <1>0, WindowsFinite DEF Live
  <2>4. IsFiniteSet(Live \cup {r}) /\ IsFiniteSet(granted \cup {r})
    BY <1>0, <2>3, FS_AddElement DEF RateTypes
  <2>5. RateTypes'
    BY <1>0, <2>1, <2>2, <2>3, <2>4 DEF RateTypes
  <2>6. MemoryAtOnce'
    BY <1>0, <2>2 DEF MemoryAtOnce, RateTypes
  <2>7. RecentKept'
    BY <1>0, <2>2 DEF RecentKept, Live
  <2>8. ASSUME NEW t \in Nat
        PROVE  Cardinality(InWindow(t)') + Cardinality(Pending(t)') <= MaxRequests + Excess'
    <3>1. Pending(t)' = {} /\ Pending(t) = {} /\ Excess' = 0 /\ Excess = 0
      BY <1>0, <2>2, <2>6 DEF Pending, MemoryAtOnce, Excess
    <3>2. Cardinality(Pending(t)') = 0 /\ Cardinality(Pending(t)) = 0
      BY <3>1, FS_EmptySet
    <3>3. CASE now >= t /\ now < t + Window
      <4>1. InWindow(t)' \subseteq Live \cup {r}
        BY <1>0, <2>2, <3>3 DEF InWindow, Live, RecentKept, RateTypes, RateAssumption
      <4>2. Cardinality(InWindow(t)') <= Cardinality(Live \cup {r})
        BY <2>4, <4>1, FS_Subset
      <4>3. Cardinality(Live \cup {r}) <= Cardinality(Live) + 1
            /\ Cardinality(Live \cup {r}) \in Nat
        BY <2>3, <2>4, FS_AddElement, FS_CardinalityType
      <4>4. Cardinality(InWindow(t)') \in Nat
        BY <2>4, <4>1, <2>3, FS_AddElement, FS_Subset, FS_CardinalityType
      <4> QED
        BY <1>2, <2>3, <3>1, <3>2, <4>2, <4>3, <4>4 DEF RateAssumption
    <3>4. CASE ~(now >= t /\ now < t + Window)
      <4>1. InWindow(t)' = InWindow(t)
        BY <2>1, <2>2, <3>4 DEF InWindow
      <4> QED
        BY <1>0, <3>1, <3>2, <4>1 DEF Bounded
    <3> QED
      BY <3>3, <3>4
  <2> QED
    BY <2>5, <2>6, <2>7, <2>8 DEF RateInv, Bounded
<1> QED
  BY <1>1, <1>2, <1>0, WindowsFinite DEF RateAssumption

\* The count lets a caller into the gap only where there is room.
LEMMA CountStep ==
  ASSUME RateAssumption, RateInv, NEW c \in Callers, RedisCount(c) PROVE RateInv'
<1>0. RateTypes /\ MemoryAtOnce /\ RecentKept /\ Bounded /\ 0 \in Nat
  BY DEF RateInv
<1>1. /\ UNCHANGED <<backend, granted, now>> /\ backend = "redis" /\ pc[c] = "loop"
      /\ requests' = Live /\ counted' = [counted EXCEPT ![c] = now]
      /\ Cardinality(Live) \in Nat /\ MaxRequests \in Nat
  BY <1>0, WindowsFinite DEF RedisCount, RateAssumption
<1>2. CASE Cardinality(Live) >= MaxRequests
  <2>1. \E p \in {"idle", "full"} : pc' = [pc EXCEPT ![c] = p]
    BY <1>0, <1>1, <1>2 DEF RedisCount, Proceed
  <2> QED
    BY <1>0, <1>1, <2>1, RateKept DEF RateTypes
<1>3. CASE Cardinality(Live) < MaxRequests
  <2>1. pc' = [pc EXCEPT ![c] = "add"]
    BY <1>1, <1>3 DEF RedisCount, Proceed
  <2>2. IsFiniteSet(Live) /\ Live \subseteq requests
    BY <1>0, WindowsFinite DEF Live
  <2>3. RateTypes'
    BY <1>0, <1>1, <2>1, <2>2 DEF RateTypes
  <2>4. MemoryAtOnce' /\ RecentKept'
    BY <1>0, <1>1 DEF MemoryAtOnce, RecentKept, Live
  <2>5. ASSUME NEW t \in Nat
        PROVE  Cardinality(InWindow(t)') + Cardinality(Pending(t)') <= MaxRequests + Excess'
    <3>1. InWindow(t)' = InWindow(t) /\ Excess' = Excess
          /\ Excess = Cardinality(Callers) - 1
      BY <1>1 DEF InWindow, Excess
    <3>2. /\ Cardinality(InWindow(t)) \in Nat /\ Cardinality(Callers) \in Nat
          /\ Cardinality(Pending(t)) \in Nat
      BY <1>0, WindowsFinite
    <3>3. Pending(t)' \subseteq Callers /\ IsFiniteSet(Callers)
      BY DEF Pending, RateAssumption
    <3>4. /\ Cardinality(Pending(t)') <= Cardinality(Callers)
          /\ Cardinality(Pending(t)') \in Nat
      BY <3>3, FS_Subset, FS_CardinalityType
    <3>5. CASE now < t + Window
      <4>1. Cardinality(InWindow(t)) <= Cardinality(Live)
        BY <1>0, <3>5, WindowLive
      <4> QED
        BY <1>1, <1>3, <3>1, <3>2, <3>4, <4>1
    <3>6. CASE ~(now < t + Window)
      <4>1. Pending(t)' \subseteq Pending(t)
        BY <1>0, <1>1, <2>1, <3>6 DEF Pending, RateTypes
      <4>2. Cardinality(Pending(t)') <= Cardinality(Pending(t))
        BY <1>0, <4>1, WindowsFinite, FS_Subset
      <4> QED
        BY <1>0, <1>1, <3>1, <3>2, <3>4, <4>2 DEF Bounded
    <3> QED
      BY <3>5, <3>6
  <2> QED
    BY <2>3, <2>4, <2>5 DEF RateInv, Bounded
<1> QED
  BY <1>1, <1>2, <1>3

\* The add moves a caller's time from the gap into the granted requests.
LEMMA AddStep ==
  ASSUME RateAssumption, RateInv, NEW c \in Callers, RedisAdd(c) PROVE RateInv'
<1>0. RateTypes /\ MemoryAtOnce /\ RecentKept /\ Bounded /\ Request(c, counted[c]).at = counted[c]
  BY DEF RateInv, Request
<1>1. PICK r : r = Request(c, counted[c]) /\ r.at = counted[c]
  BY <1>0
<1>2. /\ UNCHANGED <<backend, counted, now>> /\ pc[c] = "add"
      /\ pc' = [pc EXCEPT ![c] = "idle"]
      /\ requests' = requests \cup {r} /\ granted' = granted \cup {r}
  BY <1>1 DEF RedisAdd, Proceed
<1>3. RateTypes'
  <2>1. IsFiniteSet(requests \cup {r}) /\ IsFiniteSet(granted \cup {r})
    BY <1>0, FS_AddElement DEF RateTypes
  <2> QED
    BY <1>0, <1>1, <1>2, <2>1 DEF RateTypes
<1>4. MemoryAtOnce' /\ RecentKept'
  BY <1>0, <1>2 DEF MemoryAtOnce, RecentKept, RateTypes
<1>5. ASSUME NEW t \in Nat
      PROVE  Cardinality(InWindow(t)') + Cardinality(Pending(t)') <= MaxRequests + Excess'
  <2>0. Excess' = Excess
    BY <1>2 DEF Excess
  <2>1. /\ IsFiniteSet(InWindow(t)) /\ IsFiniteSet(Pending(t))
        /\ Cardinality(InWindow(t)) \in Nat /\ Cardinality(Pending(t)) \in Nat
    BY <1>0, WindowsFinite
  <2>2. CASE counted[c] >= t /\ counted[c] < t + Window
    <3>1. InWindow(t)' = InWindow(t) \cup {r}
      BY <1>1, <1>2, <2>2 DEF InWindow
    <3>2. Pending(t)' = Pending(t) \ {c} /\ c \in Pending(t)
      BY <1>0, <1>2, <2>2 DEF Pending, RateTypes
    <3>3. Cardinality(InWindow(t)') \in {Cardinality(InWindow(t)), Cardinality(InWindow(t)) + 1}
      BY <2>1, <3>1, FS_AddElement
    <3>4. Cardinality(Pending(t)') = Cardinality(Pending(t)) - 1
      BY <2>1, <3>2, FS_RemoveElement
    <3>5. MaxRequests + Excess \in Int
      BY ExcessType
    <3> QED
      BY <1>0, <2>0, <2>1, <3>3, <3>4, <3>5 DEF Bounded
  <2>3. CASE ~(counted[c] >= t /\ counted[c] < t + Window)
    <3>1. InWindow(t)' = InWindow(t)
      BY <1>1, <1>2, <2>3 DEF InWindow
    <3>2. Pending(t)' = Pending(t)
      BY <1>0, <1>2, <2>3 DEF Pending, RateTypes
    <3> QED
      BY <1>0, <2>0, <3>1, <3>2 DEF Bounded
  <2> QED
    BY <2>2, <2>3
<1> QED
  BY <1>3, <1>4, <1>5 DEF RateInv, Bounded

\* Every step of a limiter keeps its windows bounded.
LEMMA RateStep ==
  ASSUME RateAssumption PROVE RateInv /\ [RateNext]_rateVars => RateInv'
<1> SUFFICES ASSUME RateInv, [RateNext]_rateVars PROVE RateInv'
  OBVIOUS
<1>0. RateTypes /\ MemoryAtOnce
  BY DEF RateInv
<1>1. ASSUME NEW c \in Callers, Acquire(c) \/ WakeUp(c) \/ RedisSleep(c) PROVE RateInv'
  <2>1. /\ UNCHANGED <<backend, granted, requests, counted, now>>
        /\ \E p \in {"loop", "sleep"} : pc' = [pc EXCEPT ![c] = p]
    BY <1>1 DEF Acquire, WakeUp, RedisSleep, Proceed
  <2> QED
    BY <1>0, <2>1, RateKept DEF RateTypes, MemoryAtOnce
<1>2. CASE Clock
  <2>1. UNCHANGED <<backend, granted, requests, counted, pc>> /\ now' = now + 1
    BY <1>2 DEF Clock
  <2> QED
    BY <1>0, <2>1, RateKept DEF RateTypes, MemoryAtOnce
<1>3. CASE UNCHANGED rateVars
  BY <1>0, <1>3, RateKept DEF rateVars, RateTypes, MemoryAtOnce
<1> QED
  BY <1>1, <1>2, <1>3, MemoryStep, CountStep, AddStep DEF RateNext

\* No window holds anything at the start.
LEMMA RateStarts == ASSUME RateAssumption PROVE RateInit => RateInv
<1> SUFFICES ASSUME RateInit PROVE RateInv
  OBVIOUS
<1>1. RateTypes /\ MemoryAtOnce /\ RecentKept
  BY FS_EmptySet DEF RateInit, RateTypes, MemoryAtOnce, RecentKept
<1>2. ASSUME NEW t \in Nat
      PROVE  Cardinality(InWindow(t)) + Cardinality(Pending(t)) <= MaxRequests + Excess
  <2>1. InWindow(t) = {} /\ Pending(t) = {}
    BY DEF RateInit, InWindow, Pending
  <2>2. Cardinality(InWindow(t)) = 0 /\ Cardinality(Pending(t)) = 0
    BY <2>1, FS_EmptySet
  <2>3. Cardinality(Callers) \in Nat \ {0} /\ MaxRequests \in Nat
    BY <1>1, WindowsFinite DEF RateAssumption
  <2> QED
    BY <2>2, <2>3 DEF Excess
<1> QED
  BY <1>1, <1>2 DEF RateInv, Bounded

\* No window ever holds more than MaxRequests granted requests in memory, and
\* one more for each other caller in Redis.
THEOREM WindowBound ==
  ASSUME RateAssumption PROVE RateSpec => []WindowRespected
<1>1. RateInv => WindowRespected
  <2> SUFFICES ASSUME RateInv, NEW t \in 0 .. MaxTime
               PROVE  Cardinality(InWindow(t)) <= MaxRequests + Excess
    BY DEF WindowRespected, Excess
  <2>1. /\ t \in Nat /\ Cardinality(InWindow(t)) \in Nat /\ Cardinality(Pending(t)) \in Nat
        /\ Cardinality(Callers) \in Nat
    BY WindowsFinite DEF RateInv, RateAssumption
  <2>2. Cardinality(InWindow(t)) + Cardinality(Pending(t)) <= MaxRequests + Excess
    BY <2>1 DEF RateInv, Bounded
  <2> QED
    BY <2>1, <2>2 DEF Excess, RateAssumption
<1> QED
  BY <1>1, RateStarts, RateStep, PTL DEF RateSpec

\* A caller that has begun an acquire has counted it.
CallCounted == \A c \in Callers : pc[c] # "idle" => calls[c] >= 1

RateTypeInv == RateInv /\ RateTypeOK /\ CallCounted

\* A finite set of times that is not empty has a least one.  The sets of the
\* times up to one of them are ordered by inclusion, which is well-founded.
LEMMA LeastTime ==
  ASSUME NEW S \in SUBSET Int, IsFiniteSet(S), S # {}
  PROVE  \E t \in S : \A s \in S : t <= s
<1> DEFINE UpTo(t) == {s \in S : s <= t}
           Initials == {UpTo(t) : t \in S}
<1>1. Initials \subseteq FiniteSubsetsOf(S)
  BY FS_Subset DEF FiniteSubsetsOf
<1>2. Initials # {}
  OBVIOUS
<1>3. PICK m \in Initials : \A y \in Initials : ~(<<y, m>> \in StrictSubsetOrdering(S))
  <2> HIDE DEF Initials
  <2> QED
    BY <1>1, <1>2, FS_StrictSubsetOrderingWellFounded, WFMin
<1>4. PICK t \in S : m = UpTo(t)
  OBVIOUS
<1>5. ASSUME NEW s \in S, ~(t <= s) PROVE FALSE
  <2>1. t \in UpTo(t) /\ t \notin UpTo(s)
    BY <1>5
  <2>2. ASSUME NEW x \in UpTo(s) PROVE x \in UpTo(t)
    BY <1>5
  <2>3. UpTo(s) \subseteq UpTo(t)
    BY <2>2
  <2>4. UpTo(s) # UpTo(t)
    <3> HIDE DEF UpTo
    <3> QED
      BY <2>1
  <2>5. <<UpTo(s), UpTo(t)>> \in StrictSubsetOrdering(S)
    BY <2>3, <2>4 DEF StrictSubsetOrdering
  <2> QED
    BY <1>3, <1>4, <2>5
<1> QED
  BY <1>5

\* The oldest of some requests is the time of one of them.
LEMMA OldestType ==
  ASSUME RateAssumption, NEW rs \in SUBSET Grants, rs # {}
  PROVE  Oldest(rs) \in 0 .. MaxTime
<1> DEFINE Times == {r.at : r \in rs}
<1>1. Times \subseteq 0 .. MaxTime /\ Times # {}
  BY DEF Grants
<1>2. IsFiniteSet(Times) /\ Times \in SUBSET Int
  <2>1. IsFiniteSet(0 .. MaxTime) /\ 0 .. MaxTime \subseteq Int
    BY FS_Interval DEF RateAssumption
  <2> HIDE DEF Times
  <2> QED
    BY <1>1, <2>1, FS_Subset
<1>3. \E t \in Times : \A s \in Times : t <= s
  <2> HIDE DEF Times
  <2> QED
    BY <1>1, <1>2, LeastTime
<1>4. Oldest(rs) \in Times
  BY <1>3 DEF Oldest
<1> QED
  BY <1>1, <1>4

\* The limit is at least one: where there is no room, there is an oldest request.
LEMMA NoRoom ==
  ASSUME RateAssumption, RateTypes, Cardinality(Live) >= MaxRequests
  PROVE  Live # {}
<1>1. Cardinality(Live) # 0
  BY DEF RateAssumption
<1> QED
  BY <1>1, FS_EmptySet

\* Every step keeps the types.
LEMMA RateTypeStep ==
  ASSUME RateAssumption, RateTypeInv, [RateNext]_rateVars PROVE RateTypeInv'
<1>0. /\ MaxRequests \in Nat \ {0} /\ Window \in Nat /\ MaxTime \in Nat /\ MaxCalls \in Nat
      /\ RateInv /\ RateTypes /\ RateTypeOK /\ CallCounted
  BY DEF RateAssumption, RateTypeInv, RateInv
<1>1. RateInv'
  BY <1>0, RateStep
<1>2. ASSUME NEW c \in Callers, Acquire(c) PROVE RateTypeOK' /\ CallCounted'
  BY <1>0, <1>2 DEF Acquire, Proceed, RateTypeOK, CallCounted
<1>3. ASSUME NEW c \in Callers, pc[c] # "idle", NEW t \in 0 .. MaxTime
      PROVE  Request(c, t) \in Grants
  BY <1>0, <1>3 DEF RateTypeOK, CallCounted, Request, Grants
<1>4. Live \subseteq Grants
  BY <1>0 DEF RateTypeOK, Live
<1>5. ASSUME NEW c \in Callers, MemoryPass(c) PROVE RateTypeOK' /\ CallCounted'
  <2>1. /\ pc[c] = "loop" /\ UNCHANGED <<backend, now, since, counted, calls>>
        /\ \E p \in {"idle", "sleep"} : pc' = [pc EXCEPT ![c] = p]
    BY <1>5 DEF MemoryPass, Proceed
  <2>2. requests' \subseteq Grants /\ granted' \subseteq Grants
    <3>1. Request(c, now) \in Grants
      BY <1>0, <1>3, <2>1 DEF RateTypeOK
    <3>2. requests' \in {Live, Live \cup {Request(c, now)}}
          /\ granted' \in {granted, granted \cup {Request(c, now)}}
      BY <1>5 DEF MemoryPass
    <3> QED
      BY <1>0, <1>4, <3>1, <3>2 DEF RateTypeOK
  <2>3. wake' \in [Callers -> 0 .. 2 * MaxTime + Window]
    <3>1. CASE UNCHANGED wake
      BY <1>0, <3>1 DEF RateTypeOK
    <3>2. CASE ~UNCHANGED wake
      <4>1. Cardinality(Live) >= MaxRequests /\ wake' = [wake EXCEPT ![c] = Oldest(Live) + Window]
        BY <1>5, <3>2 DEF MemoryPass
      <4>2. Oldest(Live) \in 0 .. MaxTime
        BY <1>0, <1>4, <4>1, NoRoom, OldestType
      <4>3. Oldest(Live) + Window \in 0 .. 2 * MaxTime + Window
        BY <1>0, <4>2
      <4> QED
        BY <1>0, <4>1, <4>3 DEF RateTypeOK
    <3> QED
      BY <3>1, <3>2
  <2> QED
    BY <1>0, <2>1, <2>2, <2>3 DEF RateTypeOK, CallCounted
<1>6. ASSUME NEW c \in Callers, WakeUp(c) \/ RedisCount(c) PROVE RateTypeOK' /\ CallCounted'
  <2>1. /\ pc[c] # "idle" /\ UNCHANGED <<backend, now, since, wake, calls, granted>>
        /\ requests' \in {requests, Live} /\ counted' \in {counted, [counted EXCEPT ![c] = now]}
        /\ \E p \in {"loop", "add", "idle", "full"} : pc' = [pc EXCEPT ![c] = p]
    BY <1>6 DEF WakeUp, RedisCount, Proceed
  <2>2. requests' \subseteq Grants
    BY <1>0, <1>4, <2>1 DEF RateTypeOK
  <2>3. counted' \in [Callers -> 0 .. MaxTime]
    BY <1>0, <2>1 DEF RateTypeOK
  <2> QED
    BY <1>0, <2>1, <2>2, <2>3 DEF RateTypeOK, CallCounted
<1>7. ASSUME NEW c \in Callers, RedisSleep(c) PROVE RateTypeOK' /\ CallCounted'
  <2>1. /\ pc[c] = "full" /\ UNCHANGED <<backend, now, since, counted, calls, requests, granted>>
        /\ pc' = [pc EXCEPT ![c] = "sleep"]
    BY <1>7 DEF RedisSleep, Proceed
  <2>2. PICK w : wake' = [wake EXCEPT ![c] = w]
                 /\ w = IF requests = {} \/ Oldest(requests) + Window <= counted[c] THEN now
                        ELSE now + Oldest(requests) + Window - counted[c]
    BY <1>7 DEF RedisSleep
  <2>3. w \in 0 .. 2 * MaxTime + Window
    <3>1. now \in 0 .. MaxTime /\ counted[c] \in 0 .. MaxTime /\ requests \subseteq Grants
      BY <1>0 DEF RateTypeOK
    <3>2. requests # {} => Oldest(requests) \in 0 .. MaxTime
      BY <3>1, OldestType
    <3> QED
      BY <1>0, <2>2, <3>1, <3>2
  <2>4. wake' \in [Callers -> 0 .. 2 * MaxTime + Window]
    BY <1>0, <2>2, <2>3 DEF RateTypeOK
  <2> QED
    BY <1>0, <2>1, <2>4 DEF RateTypeOK, CallCounted
<1>8. ASSUME NEW c \in Callers, RedisAdd(c) PROVE RateTypeOK' /\ CallCounted'
  <2>1. /\ pc[c] = "add" /\ UNCHANGED <<backend, now, since, counted, wake, calls>>
        /\ pc' = [pc EXCEPT ![c] = "idle"]
        /\ requests' = requests \cup {Request(c, counted[c])}
        /\ granted' = granted \cup {Request(c, counted[c])}
    BY <1>8 DEF RedisAdd, Proceed
  <2>2. Request(c, counted[c]) \in Grants
    BY <1>0, <1>3, <2>1 DEF RateTypeOK
  <2> QED
    BY <1>0, <2>1, <2>2 DEF RateTypeOK, CallCounted
<1>9. ASSUME Clock PROVE RateTypeOK' /\ CallCounted'
  <2>1. now' \in 0 .. MaxTime
    BY <1>0, <1>9 DEF Clock, RateTypeOK
  <2>2. UNCHANGED <<backend, pc, since, counted, wake, calls, requests, granted>>
    BY <1>9 DEF Clock
  <2> QED
    BY <1>0, <2>1, <2>2 DEF RateTypeOK, CallCounted
<1>10. ASSUME UNCHANGED rateVars PROVE RateTypeOK' /\ CallCounted'
  <2>1. UNCHANGED <<backend, now, pc, since, counted, wake, calls, requests, granted>>
    BY <1>10 DEF rateVars
  <2> QED
    BY <1>0, <2>1 DEF RateTypeOK, CallCounted
<1> QED
  BY <1>1, <1>2, <1>5, <1>6, <1>7, <1>8, <1>9, <1>10 DEF RateNext, RateTypeInv

\* The limiters' variables keep their types: a caller never sleeps past the time
\* the oldest request needs to leave the window, plus the time for which the
\* answer about it was under way.
THEOREM RateTyped == ASSUME RateAssumption PROVE RateSpec => []RateTypeOK
<1>1. RateInit => RateTypeInv
  <2> SUFFICES ASSUME RateInit PROVE RateTypeInv
    OBVIOUS
  <2>1. 0 \in 0 .. MaxTime /\ 0 \in 0 .. MaxCalls /\ 0 \in 0 .. 2 * MaxTime + Window
    BY DEF RateAssumption
  <2>2. RateTypeOK /\ CallCounted
    BY <2>1 DEF RateInit, RateTypeOK, CallCounted
  <2> QED
    BY <2>2, RateStarts DEF RateTypeInv
<1>2. RateTypeInv => RateTypeOK
  BY DEF RateTypeInv
<1> QED
  BY <1>1, <1>2, RateTypeStep, PTL DEF RateSpec

-----------------------------------------------------------------------------
(* SessionKeys.                                                            *)

\* Where a request and its job can be together, and what they hold.
KeyPlaces ==
  /\ \A q \in Requests :
       /\ rpc[q] # "done" => jpc[q] = "none"
       /\ rpc[q] \in {"exists", "unlink", "reuse"} => found[q] # NoToken
  /\ closer \in {"hash", "inbox", "link"} => closing # NoToken
  /\ changer # "idle" => changing # NoToken

KeysInv == KeysTypeOK /\ KeyPlaces /\ NoEternalKey /\ SessionReachable

\* The token of a request's session is a request's name.
LEMMA TokenType ==
  ASSUME KeysTypeOK, NEW q \in Requests PROVE Token(q) \in Requests
  BY DEF KeysTypeOK, Token, Tokens

\* The keys of two tokens, and the record, are different keys.
LEMMA KeysDiffer ==
  ASSUME NEW t \in Tokens, NEW u \in Tokens
  PROVE  /\ <<"hash", t>> # <<"inbox", u>> /\ <<"record", NoToken>> # <<"hash", t>>
         /\ <<"record", NoToken>> # <<"inbox", t>>
         /\ (<<"hash", t>> = <<"hash", u>> => t = u)
         /\ (<<"inbox", t>> = <<"inbox", u>> => t = u)
  OBVIOUS

\* The keys that a token has.
LEMMA KeysOfToken ==
  ASSUME NEW t \in Requests
  PROVE  {<<"hash", t>>, <<"inbox", t>>} \subseteq UNION {TokenKeys(u) : u \in Requests}
  BY DEF TokenKeys

\* The coordinator keeps the types and the places.
LEMMA RequestTyped ==
  ASSUME KeysAssumption, KeysInv, NEW q \in Requests,
         \/ FindLink(q) \/ FindHash(q) \/ FindUnlink(q) \/ ReuseRunning(q) \/ CreateKeys(q)
  PROVE  KeysTypeOK' /\ KeyPlaces'
<1>1. KeysTypeOK /\ KeyPlaces /\ Token(q) \in Requests /\ NoToken \notin Requests
  BY TokenType DEF KeysInv, KeysAssumption
<1>2. CASE FindLink(q)
  <2>1. KeysTypeOK'
    BY <1>1, <1>2 DEF KeysTypeOK, FindLink, Step, keys, close, change
  <2>2. KeyPlaces'
    BY <1>1, <1>2 DEF KeysTypeOK, KeyPlaces, FindLink, Step, keys, close, change
  <2> QED
    BY <2>1, <2>2
<1>3. CASE FindHash(q)
  <2>1. KeysTypeOK'
    BY <1>1, <1>3 DEF KeysTypeOK, FindHash, Step, keys, close, change
  <2>2. KeyPlaces'
    BY <1>1, <1>3 DEF KeysTypeOK, KeyPlaces, FindHash, Step, keys, close, change
  <2> QED
    BY <2>1, <2>2
<1>4. CASE FindUnlink(q)
  <2>1. KeysTypeOK'
    BY <1>1, <1>4 DEF KeysTypeOK, FindUnlink, Step, Linked, Tokens, close, change
  <2>2. KeyPlaces'
    BY <1>1, <1>4 DEF KeysTypeOK, KeyPlaces, FindUnlink, Step, close, change
  <2> QED
    BY <2>1, <2>2
<1>5. CASE ReuseRunning(q)
  <2>1. KeysTypeOK'
    BY <1>1, <1>5 DEF KeysTypeOK, ReuseRunning, SetRunning, Step, close, change
  <2>2. KeyPlaces'
    BY <1>1, <1>5 DEF KeysTypeOK, KeyPlaces, ReuseRunning, Step, close, change
  <2> QED
    BY <2>1, <2>2
<1>6. CASE CreateKeys(q)
  <2>1. KeysTypeOK'
    BY <1>1, <1>6 DEF KeysTypeOK, CreateKeys, CreateWith, Step, Linked, Tokens, close, change
  <2>2. KeyPlaces'
    BY <1>1, <1>6 DEF KeysTypeOK, KeyPlaces, CreateKeys, CreateWith, Step, close, change
  <2> QED
    BY <2>1, <2>2
<1> QED
  BY <1>2, <1>3, <1>4, <1>5, <1>6

\* Whoever pushes, and the jobs, keep the types and the places.
LEMMA JobTyped ==
  ASSUME KeysAssumption, KeysInv, NEW q \in Requests,
         \/ PushList(q) \/ PushExpire(q) \/ PopInbox(q) \/ JobRunning(q) \/ JobCompleted(q)
         \/ SaveBase(q) \/ SaveToken(q) \/ SaveExpire(q)
  PROVE  KeysTypeOK' /\ KeyPlaces'
<1>1. KeysTypeOK /\ KeyPlaces /\ Token(q) \in Requests /\ NoToken \notin Requests
  BY TokenType DEF KeysInv, KeysAssumption
<1>2. CASE PushList(q) \/ PushExpire(q)
  <2>1. <<"inbox", q>> \in UNION {TokenKeys(t) : t \in Requests}
    BY KeysOfToken
  <2>2. KeysTypeOK'
    BY <1>1, <1>2, <2>1 DEF KeysTypeOK, PushList, PushExpire, close, change
  <2>3. KeyPlaces'
    BY <1>1, <1>2 DEF KeyPlaces, PushList, PushExpire, close, change
  <2> QED
    BY <2>2, <2>3
<1>3. CASE PopInbox(q) \/ JobRunning(q)
  <2>1. KeysTypeOK'
    BY <1>1, <1>3 DEF KeysTypeOK, PopInbox, JobRunning, SetRunning, close, change
  <2>2. KeyPlaces'
    BY <1>1, <1>3 DEF KeyPlaces, PopInbox, JobRunning, close, change
  <2> QED
    BY <2>1, <2>2
<1>4. CASE JobCompleted(q)
  <2>1. KeysTypeOK'
    BY <1>1, <1>4, KeysOfToken DEF KeysTypeOK, JobCompleted, JobStep, close, change
  <2>2. KeyPlaces'
    BY <1>1, <1>4 DEF KeysTypeOK, KeyPlaces, JobCompleted, JobStep, close, change
  <2> QED
    BY <2>1, <2>2
<1>5. CASE SaveBase(q) \/ SaveToken(q) \/ SaveExpire(q)
  <2>1. KeysTypeOK'
    BY <1>1, <1>5 DEF KeysTypeOK, SaveBase, SaveToken, SaveExpire, JobStep, close, change
  <2>2. KeyPlaces'
    BY <1>1, <1>5
       DEF KeysTypeOK, KeyPlaces, SaveBase, SaveToken, SaveExpire, JobStep, close, change
  <2> QED
    BY <2>1, <2>2
<1> QED
  BY <1>2, <1>3, <1>4, <1>5

\* The cleanup, the change of the TTL and time keep the types and the places.
LEMMA CleanupTyped ==
  ASSUME KeysAssumption, KeysInv,
         \/ CloseRead \/ CloseHash \/ CloseInbox \/ CloseLink \/ CloseRecord
         \/ ExpireRecord \/ ExpireHash \/ ExpireInbox \/ ExpireLink \/ TimeOut
  PROVE  KeysTypeOK' /\ KeyPlaces'
<1>1. KeysTypeOK /\ KeyPlaces /\ NoToken \notin Requests /\ MaxTimes \in Nat
  BY DEF KeysInv, KeysAssumption
<1>2. CASE CloseRead
  <2>1. KeysTypeOK'
    BY <1>1, <1>2 DEF KeysTypeOK, CloseRead, CloseStep, RecordToken, Tokens, keys, change
  <2>2. KeyPlaces'
    BY <1>1, <1>2 DEF KeyPlaces, CloseRead, CloseStep, change
  <2> QED
    BY <2>1, <2>2
<1>3. CASE CloseHash \/ CloseInbox \/ CloseLink \/ CloseRecord
  <2>1. KeysTypeOK'
    BY <1>1, <1>3
       DEF KeysTypeOK, KeyPlaces, CloseHash, CloseInbox, CloseLink, CloseRecord, CloseStep,
           Linked, Tokens, change
  <2>2. KeyPlaces'
    BY <1>1, <1>3
       DEF KeyPlaces, CloseHash, CloseInbox, CloseLink, CloseRecord, CloseStep, change
  <2> QED
    BY <2>1, <2>2
<1>4. CASE ExpireRecord
  <2>1. KeysTypeOK'
    BY <1>1, <1>4 DEF KeysTypeOK, ExpireRecord, RecordToken, Tokens, close
  <2>2. KeyPlaces'
    BY <1>1, <1>4 DEF KeyPlaces, ExpireRecord, close
  <2> QED
    BY <2>1, <2>2
<1>5. CASE ExpireHash \/ ExpireInbox \/ ExpireLink
  <2>1. KeysTypeOK'
    BY <1>1, <1>5
       DEF KeysTypeOK, KeyPlaces, ExpireHash, ExpireInbox, ExpireLink, ExpireKey, close
  <2>2. KeyPlaces'
    BY <1>1, <1>5 DEF KeyPlaces, ExpireHash, ExpireInbox, ExpireLink, ExpireKey, close
  <2> QED
    BY <2>1, <2>2
<1>6. CASE TimeOut
  <2>1. KeysTypeOK'
    BY <1>1, <1>6 DEF KeysTypeOK, TimeOut, Tokens, close, change
  <2>2. KeyPlaces'
    BY <1>1, <1>6 DEF KeyPlaces, TimeOut, close, change
  <2> QED
    BY <2>1, <2>2
<1> QED
  BY <1>2, <1>3, <1>4, <1>5, <1>6

\* No step of a request leaves a key without a TTL, but where one is due.
LEMMA RequestTimed ==
  ASSUME KeysAssumption, KeysInv, NEW q \in Requests,
         \/ FindLink(q) \/ FindHash(q) \/ FindUnlink(q) \/ ReuseRunning(q) \/ CreateKeys(q)
  PROVE  NoEternalKey'
<1>1. KeysTypeOK /\ KeyPlaces /\ NoEternalKey /\ Token(q) \in Requests
  BY TokenType DEF KeysInv
<1>2. CASE FindLink(q) \/ FindHash(q) \/ FindUnlink(q)
  BY <1>1, <1>2 DEF NoEternalKey, FindLink, FindHash, FindUnlink, keys
<1>3. CASE ReuseRunning(q)
  BY <1>1, <1>3 DEF NoEternalKey, KeysTypeOK, ReuseRunning, SetRunning
<1>4. CASE CreateKeys(q)
  BY <1>1, <1>4 DEF NoEternalKey, KeysTypeOK, KeyPlaces, CreateKeys, CreateWith, Step
<1> QED
  BY <1>2, <1>3, <1>4

\* Nor does one of whoever pushes, or of a job.
LEMMA JobTimed ==
  ASSUME KeysAssumption, KeysInv, NEW q \in Requests,
         \/ PushList(q) \/ PushExpire(q) \/ PopInbox(q) \/ JobRunning(q) \/ JobCompleted(q)
         \/ SaveBase(q) \/ SaveToken(q) \/ SaveExpire(q)
  PROVE  NoEternalKey'
<1>1. KeysTypeOK /\ NoEternalKey /\ Token(q) \in Requests
  BY TokenType DEF KeysInv
<1>2. CASE PushList(q) \/ PushExpire(q)
  BY <1>1, <1>2 DEF NoEternalKey, KeysTypeOK, PushList, PushExpire
<1>3. CASE PopInbox(q) \/ JobRunning(q)
  BY <1>1, <1>3 DEF NoEternalKey, KeysTypeOK, PopInbox, JobRunning, SetRunning
<1>4. CASE JobCompleted(q)
  BY <1>1, <1>4 DEF NoEternalKey, KeysTypeOK, JobCompleted, JobStep
<1>5. CASE SaveBase(q) \/ SaveToken(q) \/ SaveExpire(q)
  BY <1>1, <1>5 DEF NoEternalKey, KeysTypeOK, SaveBase, SaveToken, SaveExpire, JobStep
<1> QED
  BY <1>2, <1>3, <1>4, <1>5

\* Nor does one of the cleanup, of a change of the TTL, or time.
LEMMA CleanupTimed ==
  ASSUME KeysAssumption, KeysInv,
         \/ CloseRead \/ CloseHash \/ CloseInbox \/ CloseLink \/ CloseRecord
         \/ ExpireRecord \/ ExpireHash \/ ExpireInbox \/ ExpireLink \/ TimeOut
  PROVE  NoEternalKey'
<1>1. KeysTypeOK /\ KeyPlaces /\ NoEternalKey
  BY DEF KeysInv
<1>2. CASE CloseRead \/ CloseHash \/ CloseInbox \/ CloseLink \/ CloseRecord
  BY <1>1, <1>2
     DEF NoEternalKey, KeysTypeOK, CloseRead, CloseHash, CloseInbox, CloseLink, CloseRecord,
         keys
<1>3. CASE ExpireRecord \/ ExpireHash \/ ExpireInbox \/ ExpireLink
  BY <1>1, <1>3
     DEF NoEternalKey, ExpireRecord, ExpireHash, ExpireInbox, ExpireLink, ExpireKey
<1>4. CASE TimeOut
  BY <1>1, <1>4 DEF NoEternalKey, KeysTypeOK, TimeOut
<1> QED
  BY <1>2, <1>3, <1>4

\* A session that the lookup key no longer leads to is noted by who took or
\* deleted the key.
LEMMA ReachStep ==
  ASSUME KeysAssumption, KeysInv, KeysNext PROVE SessionReachable'
<1>1. /\ KeysTypeOK /\ KeyPlaces /\ NoEternalKey /\ SessionReachable
      /\ NoToken \notin Requests
  BY DEF KeysInv, KeysAssumption
<1>2. ASSUME UNCHANGED <<hash, link, unlinked>> PROVE SessionReachable'
  BY <1>1, <1>2 DEF SessionReachable
<1>3. ASSUME NEW t \in Requests, hash' = [hash EXCEPT ![t] = IF @ = "absent" THEN "partial" ELSE @],
             UNCHANGED <<link, unlinked>>
      PROVE  SessionReachable'
  BY <1>1, <1>3 DEF SessionReachable, KeysTypeOK
<1>4. ASSUME link' = NoToken, unlinked' = unlinked \cup Linked, UNCHANGED hash
      PROVE  SessionReachable'
  BY <1>1, <1>4 DEF SessionReachable, Linked
<1>5. ASSUME NEW q \in Requests, FindUnlink(q) \/ CreateKeys(q) \/ ReuseRunning(q)
      PROVE  SessionReachable'
  <2>1. Token(q) \in Requests
    BY <1>1, TokenType
  <2>2. CASE FindUnlink(q)
    BY <1>4, <2>2 DEF FindUnlink
  <2>3. CASE ReuseRunning(q)
    <3>1. found[q] \in Requests
      BY <1>1, <2>3 DEF ReuseRunning, Step, KeyPlaces, KeysTypeOK, Tokens
    <3> QED
      BY <1>3, <2>3, <3>1 DEF ReuseRunning, SetRunning
  <2>4. CASE CreateKeys(q)
    <3>1. /\ \A t \in Requests : hash'[t] = IF t = Token(q) THEN "full" ELSE hash[t]
          /\ link' = Token(q) /\ unlinked' = (unlinked \cup Linked) \ {Token(q)}
      BY <1>1, <2>1, <2>4 DEF CreateKeys, CreateWith, KeysTypeOK
    <3> QED
      BY <1>1, <3>1 DEF SessionReachable, Linked
  <2> QED
    BY <1>5, <2>2, <2>3, <2>4
<1>6. ASSUME NEW q \in Requests, JobRunning(q) \/ JobCompleted(q) PROVE SessionReachable'
  BY <1>1, <1>3, <1>6, TokenType DEF JobRunning, SetRunning, JobCompleted
<1>7. CASE CloseLink
  BY <1>4, <1>7 DEF CloseLink
<1>8. CASE CloseHash
  BY <1>1, <1>8 DEF CloseHash, SessionReachable, KeysTypeOK
<1>9. CASE TimeOut
  BY <1>1, <1>9 DEF TimeOut, SessionReachable, KeysTypeOK, NoEternalKey, Tokens
<1>10. ASSUME NEW q \in Requests,
              \/ FindLink(q) \/ FindHash(q) \/ PushList(q) \/ PushExpire(q) \/ PopInbox(q)
              \/ SaveBase(q) \/ SaveToken(q) \/ SaveExpire(q)
       PROVE  SessionReachable'
  BY <1>2, <1>10
     DEF FindLink, FindHash, PushList, PushExpire, PopInbox, SaveBase, SaveToken, SaveExpire,
         keys
<1>11. CASE CloseRead \/ CloseInbox \/ CloseRecord \/ ExpireRecord \/ ExpireHash
            \/ ExpireInbox \/ ExpireLink
  BY <1>2, <1>11
     DEF CloseRead, CloseInbox, CloseRecord, ExpireRecord, ExpireHash, ExpireInbox,
         ExpireLink, ExpireKey, keys
<1> QED
  BY <1>5, <1>6, <1>7, <1>8, <1>9, <1>10, <1>11 DEF KeysNext

\* Every step keeps the invariant.
LEMMA KeysStep ==
  ASSUME KeysAssumption PROVE KeysInv /\ [KeysNext]_keyVars => KeysInv'
<1> SUFFICES ASSUME KeysInv, [KeysNext]_keyVars PROVE KeysInv'
  OBVIOUS
<1>1. CASE KeysNext
  <2>1. KeysTypeOK' /\ KeyPlaces' /\ NoEternalKey'
    BY <1>1, RequestTyped, JobTyped, CleanupTyped, RequestTimed, JobTimed, CleanupTimed
       DEF KeysNext
  <2> QED
    BY <1>1, <2>1, ReachStep DEF KeysInv
<1>2. CASE UNCHANGED keyVars
  BY <1>2
     DEF keyVars, KeysInv, KeysTypeOK, KeyPlaces, NoEternalKey, SessionReachable
<1> QED
  BY <1>1, <1>2

\* The invariant holds at the start.
LEMMA KeysStarts == ASSUME KeysAssumption PROVE KeysInit => KeysInv
  BY DEF KeysAssumption, KeysInit, KeysInv, KeysTypeOK, KeyPlaces, NoEternalKey,
         SessionReachable, Tokens

\* The session's keys and the actors keep their types.
THEOREM KeysTyped == ASSUME KeysAssumption PROVE KeysSpec => []KeysTypeOK
<1>1. KeysInv => KeysTypeOK
  BY DEF KeysInv
<1> QED
  BY <1>1, KeysStarts, KeysStep, PTL DEF KeysSpec

\* Whatever requests, pushes, jobs, cleanups and changes of the TTL do to one
\* thread's sessions, a key without a TTL is one whose EXPIRE is still to come, or
\* the partial hash of a session that ended under its job.
THEOREM EveryKeyExpires == ASSUME KeysAssumption PROVE KeysSpec => []NoEternalKey
<1>1. KeysInv => NoEternalKey
  BY DEF KeysInv
<1> QED
  BY <1>1, KeysStarts, KeysStep, PTL DEF KeysSpec

\* A complete session that find_session does not find lost the lookup key to
\* another session, a deletion, or an expiry before its renewed hash.
THEOREM SessionsFound == ASSUME KeysAssumption PROVE KeysSpec => []SessionReachable
<1>1. KeysInv => SessionReachable
  BY DEF KeysInv
<1> QED
  BY <1>1, KeysStarts, KeysStep, PTL DEF KeysSpec

-----------------------------------------------------------------------------
(* Scheduler.                                                              *)

\* An instance in its loop has a repository to serve.
RestLeft == \A i \in Instances : task[i] \in {"lock", "record", "publish"} => rest[i] # <<>>

\* Who works on a repository under a stamp, or has published for it.
AtWork(r, s) ==
  {i \in Instances :
     task[i] \in {"record", "publish"} /\ Head(rest[i]) = r /\ stamp[i] = s}
Done(r, s) == {i \in Instances : \E a \in sent : a.repo = r /\ a.stamp = s /\ a.by = i}
Owners(r, s) == AtWork(r, s) \cup Done(r, s)

\* A stamp is a minute that has come.
StampPast == \A i \in Instances : stamp[i] <= minute

\* The owner's lock outlives its stamp by the TTL.
LockCovers ==
  \A r \in Repos, s \in Stamps : \A i \in Owners(r, s) : lock[<<r, s>>] >= s + Ttl

\* A repository and a stamp have one owner.
OneOwner ==
  overrun \/ \A r \in Repos, s \in Stamps : \A i, j \in Owners(r, s) : i = j

SchedInv == SchedTypeOK /\ RestLeft /\ StampPast /\ LockCovers /\ OneOwner

\* A step that adds no owner and changes no lock keeps the invariant.
LEMMA SchedKept ==
  ASSUME SchedAssumption, SchedInv, SchedTypeOK', RestLeft', StampPast',
         UNCHANGED <<lock, overrun>>,
         \A r \in Repos, s \in Stamps : Owners(r, s)' \subseteq Owners(r, s)
  PROVE  SchedInv'
  BY DEF SchedInv, LockCovers, OneOwner

\* The installation walk yields repositories of the installation.
LEMMA WalkType ==
  ASSUME SchedAssumption, NEW n \in 0 .. Len(Installed)
  PROVE  /\ SubSeq(Installed, 1, n) \in Seq(Repos)
         /\ Range(SubSeq(Installed, 1, n)) \subseteq Repos
<1>1. Installed \in Seq(Repos)
  BY DEF SchedAssumption, Repos
<1>2. SubSeq(Installed, 1, n) \in Seq(Repos)
  BY <1>1
<1> QED
  BY <1>2 DEF Range

\* The loop goes on to the next repository, or ends.
LEMMA NextRepoType ==
  ASSUME SchedTypeOK, RestLeft, NEW i \in Instances, NextRepo(i),
         task[i] \in {"lock", "record", "publish"}
  PROVE  /\ rest' \in [Instances -> Seq(Repos)]
         /\ task' \in [Instances -> {"idle", "resolve", "lock", "record", "publish"}]
         /\ task'[i] \in {"idle", "lock"}
         /\ \A j \in Instances \ {i} : task'[j] = task[j] /\ rest'[j] = rest[j]
         /\ RestLeft'
<1>1. rest[i] \in Seq(Repos) /\ rest[i] # <<>>
  BY DEF SchedTypeOK, RestLeft
<1>2. Tail(rest[i]) \in Seq(Repos)
  BY <1>1
<1>3. \A j \in Instances : rest'[j] = IF j = i THEN Tail(rest[i]) ELSE rest[j]
  BY DEF NextRepo, SchedTypeOK
<1>4. /\ task'[i] = IF Tail(rest[i]) = <<>> THEN "idle" ELSE "lock"
      /\ \A j \in Instances \ {i} : task'[j] = task[j]
  BY DEF NextRepo, SchedTypeOK
<1>5. RestLeft'
  BY <1>3, <1>4 DEF RestLeft
<1> QED
  BY <1>2, <1>3, <1>4, <1>5 DEF NextRepo, SchedTypeOK

\* The clock, the cron jobs, the reloads and the one-shot jobs keep the types.
LEMMA AroundTyped ==
  ASSUME SchedAssumption, SchedTypeOK,
         \/ PassMinute
         \/ \E c \in Calls : ToolCall(c) \/ RefuseOneShot(c)
         \/ \E i \in Instances :
              \/ TriggerWorkflow(i) \/ Misfire(i) \/ LoadSchedules(i) \/ LoadFails(i)
              \/ Reload(i) \/ RestartScheduler(i) \/ CacheExpires(i)
              \/ \E c \in Calls : TriggerOneShot(c, i)
  PROVE  SchedTypeOK'
<1>1. CASE PassMinute
  BY <1>1 DEF SchedAssumption, SchedTypeOK, PassMinute, Stamps, Sends
<1>2. ASSUME NEW c \in Calls, ToolCall(c) \/ RefuseOneShot(c) PROVE SchedTypeOK'
  BY <1>2 DEF SchedTypeOK, ToolCall, RefuseOneShot, Sends
<1>3. ASSUME NEW i \in Instances, TriggerWorkflow(i) \/ Misfire(i) \/ Reload(i) \/ CacheExpires(i)
      PROVE  SchedTypeOK'
  <2>1. CASE TriggerWorkflow(i)
    BY <2>1 DEF SchedTypeOK, TriggerWorkflow, Sends
  <2>2. CASE Misfire(i)
    BY <2>2 DEF SchedTypeOK, Misfire, Sends
  <2>3. CASE Reload(i)
    BY <2>3 DEF SchedTypeOK, Reload, Sends
  <2>4. CASE CacheExpires(i)
    BY <2>4 DEF SchedTypeOK, CacheExpires, Sends
  <2> QED
    BY <1>3, <2>1, <2>2, <2>3, <2>4
<1>4. ASSUME NEW i \in Instances, LoadSchedules(i) \/ LoadFails(i) PROVE SchedTypeOK'
  <2>1. PICK b \in BOOLEAN : cron' = [cron EXCEPT ![i] = b]
    BY <1>4 DEF LoadSchedules, LoadFails
  <2>3. /\ due' = [due EXCEPT ![i] = NoTick] /\ store' = [store EXCEPT ![i] = {}]
        /\ failures < MaxFailures /\ failures' = failures + 1
    BY <1>4 DEF LoadSchedules, LoadFails, SchedFault
  <2>4. cron' \in [Instances -> BOOLEAN]
    BY <2>1 DEF SchedTypeOK
  <2>5. due' \in [Instances -> Stamps \cup {NoTick}] /\ store' \in [Instances -> SUBSET Calls]
    BY <2>3 DEF SchedTypeOK
  <2>6. failures' \in 0 .. MaxFailures
    BY <2>3 DEF SchedTypeOK, SchedAssumption
  <2>2. UNCHANGED <<minute, task, stamp, rest, lock, history, cache, call, sent, overrun>>
    BY <1>4 DEF LoadSchedules, LoadFails
  <2> QED
    BY <2>2, <2>4, <2>5, <2>6 DEF SchedTypeOK, Sends
<1>5. ASSUME NEW i \in Instances, RestartScheduler(i) PROVE SchedTypeOK'
  <2>1. <<>> \in Seq(Repos)
    OBVIOUS
  <2> QED
    BY <1>5, <2>1 DEF SchedTypeOK, RestartScheduler, SchedFault, Sends, SchedAssumption
<1>6. ASSUME NEW i \in Instances, NEW c \in Calls, TriggerOneShot(c, i) PROVE SchedTypeOK'
  BY <1>6 DEF SchedTypeOK, TriggerOneShot, Sends
<1> QED
  BY <1>1, <1>2, <1>3, <1>4, <1>5, <1>6

\* The walk of a task keeps the types.
LEMMA ResolveTyped ==
  ASSUME SchedAssumption, SchedTypeOK, NEW i \in Instances, ResolveRepositories(i)
  PROVE  SchedTypeOK'
<1>1. PICK n \in 0 .. Len(Installed) :
        /\ Walk(SubSeq(Installed, 1, n))
        /\ rest' = [rest EXCEPT ![i] = SubSeq(Installed, 1, n)]
        /\ \E p \in {"idle", "lock"} : task' = [task EXCEPT ![i] = p]
  BY DEF ResolveRepositories
<1>2. rest' \in [Instances -> Seq(Repos)]
  BY <1>1, WalkType DEF SchedTypeOK
<1>3. task' \in [Instances -> {"idle", "resolve", "lock", "record", "publish"}]
  BY <1>1 DEF SchedTypeOK
<1>4. failures' \in 0 .. MaxFailures
  BY <1>1 DEF SchedTypeOK, SchedAssumption, Walk, SchedFault
<1>5. stamp' \in [Instances -> Stamps]
  BY DEF SchedTypeOK, ResolveRepositories
<1>6. UNCHANGED <<minute, cron, due, lock, history, cache, store, call, sent, overrun>>
  BY DEF ResolveRepositories
<1> QED
  BY <1>2, <1>3, <1>4, <1>5, <1>6 DEF SchedTypeOK, Sends

\* The scope check of a one-shot job keeps the types.
LEMMA OneShotTyped ==
  ASSUME SchedAssumption, SchedTypeOK, NEW c \in Calls, NEW i \in Instances,
         NEW r \in Repos, ScheduleOneShot(c, i, r)
  PROVE  SchedTypeOK'
<1>1. PICK n \in 0 .. Len(Installed) :
        /\ failures' = failures \/ Walk(SubSeq(Installed, 1, n))
        /\ \E known : /\ known \in {cache[i], Range(SubSeq(Installed, 1, n))}
                      /\ cache' = [cache EXCEPT ![i] = known]
        /\ store' = store \/ store' = [store EXCEPT ![i] = @ \cup {c}]
        /\ \E p \in {"ok", "failed"} : call' = [call EXCEPT ![c] = p]
  BY DEF ScheduleOneShot, AddOneShot, CallSchedulerApi
<1>2. cache' \in [Instances -> SUBSET Repos]
  <2>1. PICK known \in {cache[i], Range(SubSeq(Installed, 1, n))} :
          cache' = [cache EXCEPT ![i] = known]
    BY <1>1
  <2>2. known \subseteq Repos
    BY WalkType DEF SchedTypeOK
  <2> QED
    BY <2>1, <2>2 DEF SchedTypeOK
<1>3. store' \in [Instances -> SUBSET Calls]
  <2>1. store[i] \cup {c} \subseteq Calls /\ store \in [Instances -> SUBSET Calls]
    BY DEF SchedTypeOK
  <2>2. store' = store \/ store' = [store EXCEPT ![i] = store[i] \cup {c}]
    BY <1>1
  <2> QED
    BY <2>1, <2>2
<1>4. failures' \in 0 .. MaxFailures
  BY <1>1 DEF SchedTypeOK, SchedAssumption, Walk, SchedFault
<1>5. call' \in [Calls -> {"new", "asked", "ok", "failed"}]
  BY <1>1 DEF SchedTypeOK
<1>6. UNCHANGED <<minute, cron, due, task, stamp, rest, lock, history, sent, overrun>>
  BY DEF ScheduleOneShot
<1> QED
  BY <1>2, <1>3, <1>4, <1>5, <1>6 DEF SchedTypeOK, Sends

\* An instance in its loop serves a repository of the installation.
LEMMA HeadType ==
  ASSUME SchedTypeOK, RestLeft, NEW i \in Instances,
         task[i] \in {"lock", "record", "publish"}
  PROVE  Head(rest[i]) \in Repos /\ stamp[i] \in Stamps
<1>1. rest[i] \in Seq(Repos) /\ rest[i] # <<>>
  BY DEF SchedTypeOK, RestLeft
<1> QED
  BY <1>1 DEF SchedTypeOK

\* The loop of a task keeps the types.
LEMMA LoopTyped ==
  ASSUME SchedAssumption, SchedTypeOK, RestLeft, NEW i \in Instances,
         AcquireMinute(i) \/ AcquireFails(i) \/ Record(i) \/ PublishTick(i) \/ PublishTickFails(i)
  PROVE  SchedTypeOK'
<1>1. task[i] \in {"lock", "record", "publish"}
  BY DEF AcquireMinute, AcquireFails, Record, PublishTick, PublishTickFails
<1>2. Head(rest[i]) \in Repos /\ stamp[i] \in Stamps
  BY <1>1, HeadType
<1>3. CASE AcquireMinute(i)
  <2> DEFINE k == <<Head(rest[i]), stamp[i]>>
  <2>1. /\ overrun' = (overrun \/ minute >= stamp[i] + Ttl)
        /\ UNCHANGED <<minute, cron, due, stamp, history, cache, store, call, sent, failures>>
        /\ \/ NextRepo(i) /\ UNCHANGED lock
           \/ /\ lock' = [lock EXCEPT ![k] = minute + Ttl]
              /\ task' = [task EXCEPT ![i] = "record"] /\ UNCHANGED rest
    BY <1>3 DEF AcquireMinute
  <2>2. overrun' \in BOOLEAN
    BY <2>1 DEF SchedTypeOK
  <2>3. minute + Ttl \in 0 .. MaxMinute + Ttl /\ k \in Repos \X Stamps
    BY <1>2 DEF SchedTypeOK, SchedAssumption, Stamps
  <2>4. lock' \in [Repos \X Stamps -> 0 .. MaxMinute + Ttl]
    BY <2>1, <2>3 DEF SchedTypeOK
  <2>5. /\ rest' \in [Instances -> Seq(Repos)]
        /\ task' \in [Instances -> {"idle", "resolve", "lock", "record", "publish"}]
    BY <1>1, <2>1, NextRepoType DEF SchedTypeOK
  <2> QED
    BY <2>1, <2>2, <2>4, <2>5 DEF SchedTypeOK, Sends
<1>4. CASE AcquireFails(i)
  <2>1. /\ task' = [task EXCEPT ![i] = "idle"] /\ rest' = [rest EXCEPT ![i] = <<>>]
        /\ failures < MaxFailures /\ failures' = failures + 1
        /\ UNCHANGED <<minute, cron, due, stamp, lock, history, cache, store, call, sent,
                       overrun>>
    BY <1>4 DEF AcquireFails, SchedFault
  <2>2. <<>> \in Seq(Repos)
    OBVIOUS
  <2>3. rest' \in [Instances -> Seq(Repos)]
    BY <2>1, <2>2 DEF SchedTypeOK
  <2>4. failures' \in 0 .. MaxFailures
    BY <2>1 DEF SchedTypeOK, SchedAssumption
  <2> QED
    BY <2>1, <2>3, <2>4 DEF SchedTypeOK, Sends
<1>5. CASE Record(i)
  <2>1. history' \subseteq Repos \X Stamps
    BY <1>2, <1>5 DEF Record, SchedTypeOK
  <2> QED
    BY <1>5, <2>1 DEF Record, SchedTypeOK, Sends
<1>6. CASE PublishTick(i)
  <2>1. sent' = sent \cup
          {[tick |-> TickAt, repo |-> Head(rest[i]), stamp |-> stamp[i], by |-> i]}
    BY <1>6 DEF PublishTick
  <2>2. sent' \subseteq Sends
    BY <1>2, <2>1 DEF SchedTypeOK, SchedAssumption, Sends, Stamps
  <2>3. /\ NextRepo(i)
        /\ UNCHANGED <<minute, cron, due, stamp, lock, history, cache, store, call,
                       overrun, failures>>
    BY <1>6 DEF PublishTick
  <2> QED
    BY <1>1, <2>2, <2>3, NextRepoType DEF SchedTypeOK
<1>7. CASE PublishTickFails(i)
  <2>1. /\ NextRepo(i) /\ failures < MaxFailures /\ failures' = failures + 1
        /\ UNCHANGED <<minute, cron, due, stamp, lock, history, cache, store, call, sent,
                       overrun>>
    BY <1>7 DEF PublishTickFails, SchedFault
  <2>2. failures' \in 0 .. MaxFailures
    BY <2>1 DEF SchedTypeOK, SchedAssumption
  <2> QED
    BY <1>1, <2>1, <2>2, NextRepoType DEF SchedTypeOK, Sends
<1> QED
  BY <1>3, <1>4, <1>5, <1>6, <1>7

\* Steps around the tasks give no repository another owner.
LEMMA AroundKept ==
  ASSUME SchedAssumption, SchedInv, SchedTypeOK',
         UNCHANGED <<stamp, lock, sent, overrun>>, minute <= minute',
         \A i \in Instances :
           \/ task'[i] = task[i] /\ rest'[i] = rest[i]
           \/ task'[i] \in {"idle", "resolve"}
  PROVE  SchedInv'
<1>1. SchedTypeOK /\ RestLeft /\ StampPast
  BY DEF SchedInv
<1>2. RestLeft'
  BY <1>1 DEF RestLeft
<1>3. StampPast'
  BY <1>1 DEF StampPast, SchedTypeOK, Stamps, SchedAssumption
<1>4. \A r \in Repos, s \in Stamps : Owners(r, s)' \subseteq Owners(r, s)
  BY <1>1 DEF Owners, AtWork, Done
<1> QED
  BY <1>2, <1>3, <1>4, SchedKept

\* A task that goes on from its place gives no repository another owner.
LEMMA TaskKept ==
  ASSUME SchedAssumption, SchedInv, SchedTypeOK', NEW i \in Instances,
         \/ ResolveRepositories(i) \/ AcquireFails(i) \/ Record(i) \/ PublishTick(i)
         \/ PublishTickFails(i)
  PROVE  SchedInv'
<1>1. SchedTypeOK /\ RestLeft /\ StampPast
  BY DEF SchedInv
<1>2. CASE ResolveRepositories(i)
  <2>1. /\ task[i] = "resolve" /\ UNCHANGED <<minute, lock, sent, overrun>>
        /\ stamp' = [stamp EXCEPT ![i] = minute]
        /\ \E n \in 0 .. Len(Installed) :
             /\ rest' = [rest EXCEPT ![i] = SubSeq(Installed, 1, n)]
             /\ task' = [task EXCEPT ![i] =
                           IF SubSeq(Installed, 1, n) = <<>> THEN "idle" ELSE "lock"]
    BY <1>2 DEF ResolveRepositories
  <2>2. PICK q : /\ rest' = [rest EXCEPT ![i] = q]
                 /\ task' = [task EXCEPT ![i] = IF q = <<>> THEN "idle" ELSE "lock"]
    BY <2>1
  <2>3. RestLeft'
    BY <1>1, <2>2 DEF RestLeft, SchedTypeOK
  <2>4. StampPast'
    BY <1>1, <2>1 DEF StampPast, SchedTypeOK, Stamps, SchedAssumption
  <2>5. \A r \in Repos, s \in Stamps : Owners(r, s)' \subseteq Owners(r, s)
    BY <1>1, <2>1, <2>2 DEF SchedTypeOK, Owners, AtWork, Done
  <2> QED
    BY <2>1, <2>3, <2>4, <2>5, SchedKept
<1>3. CASE AcquireFails(i)
  <2>1. /\ UNCHANGED <<minute, stamp, lock, sent, overrun>>
        /\ task' = [task EXCEPT ![i] = "idle"] /\ rest' = [rest EXCEPT ![i] = <<>>]
    BY <1>3 DEF AcquireFails
  <2> QED
    BY <1>1, <2>1, AroundKept DEF SchedTypeOK, Stamps, SchedAssumption
<1>4. CASE Record(i)
  <2>1. /\ UNCHANGED <<minute, stamp, rest, lock, sent, overrun>> /\ task[i] = "record"
        /\ task' = [task EXCEPT ![i] = "publish"]
    BY <1>4 DEF Record
  <2>2. RestLeft' /\ StampPast'
    BY <1>1, <2>1 DEF RestLeft, StampPast, SchedTypeOK
  <2>3. \A r \in Repos, s \in Stamps : Owners(r, s)' \subseteq Owners(r, s)
    BY <1>1, <2>1 DEF SchedTypeOK, Owners, AtWork, Done
  <2> QED
    BY <2>1, <2>2, <2>3, SchedKept
<1>5. CASE PublishTick(i)
  <2>1. /\ NextRepo(i) /\ UNCHANGED <<minute, stamp, lock, overrun>> /\ task[i] = "publish"
        /\ sent' = sent \cup
             {[tick |-> TickAt, repo |-> Head(rest[i]), stamp |-> stamp[i], by |-> i]}
    BY <1>5 DEF PublishTick
  <2>2. /\ RestLeft' /\ task'[i] \in {"idle", "lock"}
        /\ \A j \in Instances \ {i} : task'[j] = task[j] /\ rest'[j] = rest[j]
    BY <1>1, <2>1, NextRepoType
  <2>3. StampPast'
    BY <1>1, <2>1 DEF StampPast
  <2>4. ASSUME NEW r \in Repos, NEW s \in Stamps PROVE Owners(r, s)' \subseteq Owners(r, s)
    <3>1. AtWork(r, s)' \subseteq AtWork(r, s)
      BY <2>1, <2>2 DEF AtWork
    <3>2. ASSUME NEW j \in Instances, j \in Done(r, s)' PROVE j \in Owners(r, s)
      <4>1. PICK a \in sent' : a.repo = r /\ a.stamp = s /\ a.by = j
        BY <3>2 DEF Done
      <4>2. CASE a \in sent
        BY <4>1, <4>2 DEF Owners, Done
      <4>3. CASE a \notin sent
        <5>1. r = Head(rest[i]) /\ s = stamp[i] /\ j = i
          BY <2>1, <4>1, <4>3
        <5> QED
          BY <2>1, <5>1 DEF Owners, AtWork
      <4> QED
        BY <4>2, <4>3
    <3> QED
      BY <3>1, <3>2 DEF Owners, Done
  <2> QED
    BY <2>1, <2>2, <2>3, <2>4, SchedKept
<1>6. CASE PublishTickFails(i)
  <2>1. /\ NextRepo(i) /\ UNCHANGED <<minute, stamp, lock, sent, overrun>>
        /\ task[i] \in {"record", "publish"}
    BY <1>6 DEF PublishTickFails
  <2>2. /\ RestLeft' /\ task'[i] \in {"idle", "lock"}
        /\ \A j \in Instances \ {i} : task'[j] = task[j] /\ rest'[j] = rest[j]
    BY <1>1, <2>1, NextRepoType
  <2>3. StampPast'
    BY <1>1, <2>1 DEF StampPast
  <2>4. \A r \in Repos, s \in Stamps : Owners(r, s)' \subseteq Owners(r, s)
    BY <2>1, <2>2 DEF Owners, AtWork, Done
  <2> QED
    BY <2>1, <2>2, <2>3, <2>4, SchedKept
<1> QED
  BY <1>2, <1>3, <1>4, <1>5, <1>6

\* A lock that is taken anew in time had no owner.
LEMMA AcquireKept ==
  ASSUME SchedAssumption, SchedInv, SchedTypeOK', NEW i \in Instances, AcquireMinute(i)
  PROVE  SchedInv'
<1>1. /\ SchedTypeOK /\ RestLeft /\ StampPast /\ LockCovers /\ OneOwner
      /\ task[i] = "lock" /\ UNCHANGED <<minute, stamp, sent>>
      /\ overrun' = (overrun \/ minute >= stamp[i] + Ttl)
  BY DEF SchedInv, AcquireMinute
<1>2. PICK rep \in Repos, st \in Stamps : rep = Head(rest[i]) /\ st = stamp[i]
  BY <1>1, HeadType
<1>3. StampPast'
  BY <1>1 DEF StampPast
<1>4. OneOwner => overrun' \/ \A r \in Repos, s \in Stamps : \A j, k \in Owners(r, s) : j = k
  BY <1>1 DEF OneOwner, SchedTypeOK
<1>5. CASE NextRepo(i) /\ UNCHANGED lock
  <2>1. /\ RestLeft' /\ task'[i] \in {"idle", "lock"}
        /\ \A j \in Instances \ {i} : task'[j] = task[j] /\ rest'[j] = rest[j]
    BY <1>1, <1>5, NextRepoType
  <2>2. \A r \in Repos, s \in Stamps : Owners(r, s)' \subseteq Owners(r, s)
    BY <1>1, <2>1 DEF Owners, AtWork, Done
  <2>3. LockCovers' /\ OneOwner'
    BY <1>1, <1>4, <1>5, <2>2 DEF LockCovers, OneOwner
  <2> QED
    BY <1>3, <2>1, <2>3 DEF SchedInv
<1>6. CASE lock[<<rep, st>>] <= minute /\ lock' = [lock EXCEPT ![<<rep, st>>] = minute + Ttl]
           /\ task' = [task EXCEPT ![i] = "record"] /\ UNCHANGED rest
  <2>1. RestLeft'
    BY <1>1, <1>6 DEF RestLeft, SchedTypeOK
  <2>2. \A r \in Repos, s \in Stamps :
          Owners(r, s)' \subseteq
            Owners(r, s) \cup (IF r = rep /\ s = st THEN {i} ELSE {})
    BY <1>1, <1>2, <1>6 DEF Owners, AtWork, Done, SchedTypeOK
  <2>3. \A r \in Repos, s \in Stamps :
          lock'[<<r, s>>] = IF r = rep /\ s = st THEN minute + Ttl ELSE lock[<<r, s>>]
    BY <1>1, <1>6 DEF SchedTypeOK
  <2>4. st \in Nat /\ minute \in Nat /\ Ttl \in Nat /\ st <= minute /\ lock[<<rep, st>>] \in Int
    BY <1>1, <1>2 DEF SchedTypeOK, StampPast, SchedAssumption, Stamps
  <2>5. LockCovers'
    <3> SUFFICES ASSUME NEW r \in Repos, NEW s \in Stamps, NEW j \in Owners(r, s)'
                 PROVE  lock'[<<r, s>>] >= s + Ttl
      BY DEF LockCovers
    <3>1. CASE r = rep /\ s = st
      BY <2>3, <2>4, <3>1
    <3>2. CASE ~(r = rep /\ s = st)
      <4>1. j \in Owners(r, s)
        BY <2>2, <3>2
      <4> QED
        BY <1>1, <2>3, <3>2, <4>1 DEF LockCovers
    <3> QED
      BY <3>1, <3>2
  <2>6. ASSUME minute < st + Ttl, NEW j \in Owners(rep, st) PROVE FALSE
    <3>1. lock[<<rep, st>>] >= st + Ttl
      BY <1>1 DEF LockCovers
    <3> QED
      BY <1>6, <2>4, <2>6, <3>1
  <2>7. ASSUME ~overrun', NEW r \in Repos, NEW s \in Stamps,
               NEW j \in Owners(r, s)', NEW k \in Owners(r, s)'
        PROVE  j = k
    <3>1. minute < st + Ttl
      <4>1. ~(minute >= stamp[i] + Ttl)
        BY <1>1, <2>7
      <4> QED
        BY <1>2, <2>4, <4>1
    <3>2. CASE r = rep /\ s = st
      BY <2>2, <2>6, <3>1, <3>2
    <3>3. CASE ~(r = rep /\ s = st)
      <4>1. j \in Owners(r, s) /\ k \in Owners(r, s)
        BY <2>2, <3>3
      <4>2. ~overrun
        BY <1>1, <2>7
      <4> QED
        BY <1>1, <4>1, <4>2 DEF OneOwner
    <3> QED
      BY <3>2, <3>3
  <2>8. OneOwner'
    BY <2>7 DEF OneOwner
  <2> QED
    BY <1>3, <2>1, <2>5, <2>8 DEF SchedInv
<1> QED
  BY <1>2, <1>5, <1>6 DEF AcquireMinute

\* Every step keeps the invariant.
LEMMA SchedStep ==
  ASSUME SchedAssumption PROVE SchedInv /\ [SchedNext]_schedVars => SchedInv'
<1> SUFFICES ASSUME SchedInv, [SchedNext]_schedVars PROVE SchedInv'
  OBVIOUS
<1>1. SchedTypeOK /\ RestLeft
  BY DEF SchedInv
<1>2. CASE PassMinute
  <2>1. /\ UNCHANGED <<stamp, lock, sent, overrun, task, rest>> /\ minute <= minute'
    BY <1>1, <1>2 DEF PassMinute, SchedTypeOK, Stamps, SchedAssumption
  <2> QED
    BY <1>1, <1>2, <2>1, AroundTyped, AroundKept
<1>3. minute <= minute
  BY <1>1 DEF SchedTypeOK, Stamps, SchedAssumption
<1>4. ASSUME NEW c \in Calls, ToolCall(c) \/ RefuseOneShot(c) PROVE SchedInv'
  <2>1. UNCHANGED <<minute, stamp, lock, sent, overrun, task, rest>>
    BY <1>4 DEF ToolCall, RefuseOneShot
  <2> QED
    BY <1>1, <1>3, <1>4, <2>1, AroundTyped, AroundKept
<1>5. ASSUME NEW i \in Instances,
             Misfire(i) \/ LoadSchedules(i) \/ LoadFails(i) \/ Reload(i) \/ CacheExpires(i)
      PROVE  SchedInv'
  <2>1. UNCHANGED <<minute, stamp, lock, sent, overrun, task, rest>>
    BY <1>5 DEF Misfire, LoadSchedules, LoadFails, Reload, CacheExpires
  <2> QED
    BY <1>1, <1>3, <1>5, <2>1, AroundTyped, AroundKept
<1>6. ASSUME NEW i \in Instances, TriggerWorkflow(i) \/ RestartScheduler(i) PROVE SchedInv'
  <2>1. /\ UNCHANGED <<minute, stamp, lock, sent, overrun>>
        /\ \A j \in Instances : \/ task'[j] = task[j] /\ rest'[j] = rest[j]
                                \/ task'[j] \in {"idle", "resolve"}
    BY <1>1, <1>6 DEF TriggerWorkflow, RestartScheduler, SchedTypeOK
  <2> QED
    BY <1>1, <1>3, <1>6, <2>1, AroundTyped, AroundKept
<1>7. ASSUME NEW i \in Instances, NEW c \in Calls, TriggerOneShot(c, i) PROVE SchedInv'
  <2>1. UNCHANGED <<minute, stamp, lock, sent, overrun, task, rest>>
    BY <1>7 DEF TriggerOneShot
  <2> QED
    BY <1>1, <1>3, <1>7, <2>1, AroundTyped, AroundKept
<1>8. ASSUME NEW i \in Instances, NEW c \in Calls, NEW r \in Repos, ScheduleOneShot(c, i, r)
      PROVE  SchedInv'
  <2>1. UNCHANGED <<minute, stamp, lock, sent, overrun, task, rest>>
    BY <1>8 DEF ScheduleOneShot
  <2> QED
    BY <1>1, <1>3, <1>8, <2>1, OneShotTyped, AroundKept
<1>9. ASSUME NEW i \in Instances,
             \/ ResolveRepositories(i) \/ AcquireFails(i) \/ Record(i) \/ PublishTick(i)
             \/ PublishTickFails(i) \/ AcquireMinute(i)
      PROVE  SchedInv'
  <2>1. SchedTypeOK'
    BY <1>1, <1>9, ResolveTyped, LoopTyped
  <2> QED
    BY <1>9, <2>1, TaskKept, AcquireKept
<1>10. CASE UNCHANGED schedVars
  <2>1. SchedTypeOK'
    BY <1>1, <1>10 DEF schedVars, SchedTypeOK, Sends
  <2> QED
    BY <1>3, <1>10, <2>1, AroundKept DEF schedVars
<1> QED
  BY <1>2, <1>4, <1>5, <1>6, <1>7, <1>8, <1>9, <1>10 DEF SchedNext

\* The invariant holds at the start.
LEMMA SchedStarts == ASSUME SchedAssumption PROVE SchedInit => SchedInv
<1> SUFFICES ASSUME SchedInit PROVE SchedInv
  OBVIOUS
<1>1. <<>> \in Seq(Repos)
  OBVIOUS
<1>2. rest \in [Instances -> Seq(Repos)]
  BY <1>1 DEF SchedInit
<1>3. /\ 0 \in Stamps /\ 0 \in 0 .. MaxMinute + Ttl /\ 0 \in 0 .. MaxFailures
  BY DEF SchedAssumption, Stamps
<1>4. lock \in [Repos \X Stamps -> 0 .. MaxMinute + Ttl]
  BY <1>3 DEF SchedInit
<1>6. SchedTypeOK
  BY <1>2, <1>3, <1>4 DEF SchedInit, SchedTypeOK
<1>5. RestLeft /\ StampPast
  BY DEF SchedInit, RestLeft, StampPast
<1>7. \A r \in Repos, s \in Stamps : Owners(r, s) = {}
  BY DEF SchedInit, Owners, AtWork, Done
<1> QED
  BY <1>5, <1>6, <1>7 DEF SchedInv, LockCovers, OneOwner

\* The instances, their locks and the one-shot jobs keep their types.
THEOREM SchedTyped == ASSUME SchedAssumption PROVE SchedSpec => []SchedTypeOK
<1>1. SchedInv => SchedTypeOK
  BY DEF SchedInv
<1> QED
  BY <1>1, SchedStarts, SchedStep, PTL DEF SchedSpec

\* Whatever instances run, walk, crash and reload, two requests of one tick for a
\* repository carry different stamps, unless a lock was asked for a stamp as old
\* as the TTL.
THEOREM TickDeduplicated == ASSUME SchedAssumption PROVE SchedSpec => []OnePerStamp
<1>1. SchedInv => OnePerStamp
  <2> SUFFICES ASSUME SchedInv, ~overrun, NEW a \in sent, NEW b \in sent,
                      a.repo = b.repo, a.stamp = b.stamp
               PROVE  a.by = b.by
    BY DEF OnePerStamp
  <2>1. a \in Sends /\ b \in Sends
    BY DEF SchedInv, SchedTypeOK
  <2>2. a.repo \in Repos /\ a.stamp \in Stamps /\ a.by \in Instances /\ b.by \in Instances
    BY <2>1 DEF Sends
  <2>3. {a.by, b.by} \subseteq Owners(a.repo, a.stamp)
    BY <2>2 DEF Owners, Done
  <2> QED
    BY <2>2, <2>3 DEF SchedInv, OneOwner
<1> QED
  BY <1>1, SchedStarts, SchedStep, PTL DEF SchedSpec

=============================================================================
