---------------------------- MODULE RateLimiter ----------------------------
(***************************************************************************)
(* The limiters in front of the Anthropic and GitHub APIs: at most         *)
(* MaxRequests requests in a sliding window.  The agent worker uses the    *)
(* Redis backend, shared by every worker, and falls back to one deque per  *)
(* process when Redis cannot be reached at start; Init leaves the choice   *)
(* open.                                                                   *)
(*                                                                         *)
(* The in-memory backend runs from one sleep to the next without giving up *)
(* the event loop, so that a pass of its loop is one step.  The Redis      *)
(* backend counts in one round trip and adds in another.                   *)
(***************************************************************************)
EXTENDS Integers, FiniteSets, Sequences

CONSTANTS Callers,
          MaxRequests, \* max_requests
          Window,    \* time_window
          Timeout,   \* timeout of an acquire
          MaxTime,   \* a bound
          MaxCalls   \* acquires of one caller, a bound

RateAssumption ==
  /\ IsFiniteSet(Callers) /\ Callers # {}
  /\ MaxRequests \in Nat \ {0} /\ Window \in Nat /\ MaxTime \in Nat /\ MaxCalls \in Nat

VARIABLES backend,  \* "memory" or "redis"
          now,
          pc,       \* a caller: "idle", "loop" (about to look), "add", "full", "sleep"
          since,    \* start_time of its acquire
          counted,  \* Redis: `now` at the count, the score it would add
          wake,     \* when its sleep ends
          calls,    \* acquires it has begun
          requests, \* requests[key] / rate_limit:<key>: caller, call and time
          granted   \* history: every request let through, with the time noted for it

rateVars == <<backend, now, pc, since, counted, wake, calls, requests, granted>>

Grants == [by : Callers, call : 1 .. MaxCalls, at : 0 .. MaxTime]

RateTypeOK ==
  /\ backend \in {"memory", "redis"} /\ now \in 0 .. MaxTime
  /\ pc \in [Callers -> {"idle", "loop", "add", "full", "sleep"}]
  /\ since \in [Callers -> 0 .. MaxTime] /\ counted \in [Callers -> 0 .. MaxTime]
  /\ wake \in [Callers -> 0 .. 2 * MaxTime + Window] /\ calls \in [Callers -> 0 .. MaxCalls]
  /\ requests \subseteq Grants /\ granted \subseteq Grants

RateInit ==
  /\ backend \in {"memory", "redis"} /\ now = 0
  /\ pc = [c \in Callers |-> "idle"] /\ since = [c \in Callers |-> 0]
  /\ counted = [c \in Callers |-> 0] /\ wake = [c \in Callers |-> 0]
  /\ calls = [c \in Callers |-> 0] /\ requests = {} /\ granted = {}

Proceed(c, p) == pc' = [pc EXCEPT ![c] = p]

Clock ==
  /\ now < MaxTime /\ now' = now + 1
  /\ UNCHANGED <<backend, pc, since, counted, wake, calls, requests, granted>>

\* RateLimiter.acquire begins.
Acquire(c) ==
  /\ pc[c] = "idle" /\ calls[c] < MaxCalls
  /\ calls' = [calls EXCEPT ![c] = @ + 1] /\ since' = [since EXCEPT ![c] = now]
  /\ Proceed(c, "loop")
  /\ UNCHANGED <<backend, now, counted, wake, requests, granted>>

\* What remains after requests[0] <= now - time_window is removed.
Live == {r \in requests : r.at > now - Window}

Request(c, t) == [by |-> c, call |-> calls[c], at |-> t]

Oldest(rs) == CHOOSE t \in {r.at : r \in rs} : \A r \in rs : t <= r.at

\* Mutant: the length is checked against the limit with <=.
MemoryPassOff(c) ==
  /\ backend = "memory" /\ pc[c] = "loop"
  /\ \/ /\ Cardinality(Live) <= MaxRequests
        /\ requests' = Live \cup {Request(c, now)}
        /\ granted' = granted \cup {Request(c, now)}
        /\ Proceed(c, "idle") /\ UNCHANGED wake
     \/ /\ Cardinality(Live) > MaxRequests
        /\ requests' = Live /\ UNCHANGED granted
        /\ wake' = [wake EXCEPT ![c] = Oldest(Live) + Window] /\ Proceed(c, "sleep")
  /\ UNCHANGED <<backend, now, since, counted, calls>>

\* One pass of the in-memory loop: drop the expired requests, then take a
\* place, or raise TimeoutError, or sleep until the oldest expires.
MemoryPass(c) ==
  /\ backend = "memory" /\ pc[c] = "loop"
  /\ \/ /\ Cardinality(Live) < MaxRequests
        /\ requests' = Live \cup {Request(c, now)}
        /\ granted' = granted \cup {Request(c, now)}
        /\ Proceed(c, "idle") /\ UNCHANGED wake
     \/ /\ Cardinality(Live) >= MaxRequests
        /\ requests' = Live /\ UNCHANGED granted
        /\ IF now - since[c] >= Timeout
             THEN Proceed(c, "idle") /\ UNCHANGED wake
             ELSE Proceed(c, "sleep") /\ wake' = [wake EXCEPT ![c] = Oldest(Live) + Window]
  /\ UNCHANGED <<backend, now, since, counted, calls>>

\* The sleep ends, and the loop runs again.
WakeUp(c) ==
  /\ pc[c] = "sleep" /\ wake[c] <= now
  /\ Proceed(c, "loop")
  /\ UNCHANGED <<backend, now, since, counted, wake, calls, requests, granted>>

\* The pipeline ZREMRANGEBYSCORE, ZCARD: with room the caller goes on to add,
\* without it times out or goes on to look at the oldest request.
RedisCount(c) ==
  /\ backend = "redis" /\ pc[c] = "loop"
  /\ requests' = Live /\ counted' = [counted EXCEPT ![c] = now]
  /\ \/ Cardinality(Live) < MaxRequests /\ Proceed(c, "add")
     \/ Cardinality(Live) >= MaxRequests
        /\ Proceed(c, IF now - since[c] >= Timeout THEN "idle" ELSE "full")
  /\ UNCHANGED <<backend, now, since, wake, calls, granted>>

\* ZRANGE: the caller sleeps for the time that the oldest request had left at the
\* count, or for a moment (within one unit of the clock) when there is none.
RedisSleep(c) ==
  /\ pc[c] = "full" /\ Proceed(c, "sleep")
  /\ wake' = [wake EXCEPT ![c] =
                IF requests = {} \/ Oldest(requests) + Window <= counted[c] THEN now
                ELSE now + Oldest(requests) + Window - counted[c]]
  /\ UNCHANGED <<backend, now, since, counted, calls, requests, granted>>

\* ZADD, with the time of the count as the score and a member of its own.
RedisAdd(c) ==
  /\ pc[c] = "add"
  /\ requests' = requests \cup {Request(c, counted[c])}
  /\ granted' = granted \cup {Request(c, counted[c])}
  /\ Proceed(c, "idle")
  /\ UNCHANGED <<backend, now, since, counted, wake, calls>>

RateNext ==
  \/ Clock
  \/ \E c \in Callers :
       Acquire(c) \/ MemoryPass(c) \/ WakeUp(c) \/ RedisCount(c) \/ RedisSleep(c) \/ RedisAdd(c)

RateSpec == RateInit /\ [][RateNext]_rateVars

-----------------------------------------------------------------------------
(* Properties.                                                             *)

InWindow(t) == {r \in granted : r.at >= t /\ r.at < t + Window}

\* Whatever callers wake together after a sleep, the in-memory limiter notes at
\* most MaxRequests in any window.  The Redis backend counts and adds in two
\* round trips, so every other caller may be between the two: it notes at most
\* that many more, and never more than that.
WindowRespected ==
  \A t \in 0 .. MaxTime :
    Cardinality(InWindow(t)) <=
      MaxRequests + (IF backend = "redis" THEN Cardinality(Callers) - 1 ELSE 0)
=============================================================================
