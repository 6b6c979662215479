------------------------------ MODULE JobLife ------------------------------
(***************************************************************************)
(* What the job queue promises the coordinator, the session service and    *)
(* the recovery sweep, which know a job by its id and read only its status *)
(* key: a job is announced, queued, taken by a worker, started and over,   *)
(* in this order, and until its data key expires the status key follows    *)
(* that life, never running ahead of a start and never falling behind one. *)
(* A job past its TTL may be delivered again and its status may say        *)
(* anything, but a job once started is never unstarted and one that has a  *)
(* result keeps it.                                                        *)
(*                                                                         *)
(* A job may stay in any state for ever: crashes lose jobs, and the        *)
(* liveness properties of JobQueue say when.                               *)
(***************************************************************************)
CONSTANT Jobs

VARIABLES
  state,       \* new, queued, taken, running, over
  seen,        \* the status a caller reads
  late         \* jobs whose data key has expired

Final == {"success", "error", "superseded", "cancelled"}

lifeVars == <<state, seen, late>>

LifeInit ==
  /\ state = [j \in Jobs |-> "new"]
  /\ seen = [j \in Jobs |-> "none"]
  /\ late = {}

Goes(j, from, to) == state[j] = from /\ state' = [state EXCEPT ![j] = to]
Says(j, from, to) == seen[j] = from /\ seen' = [seen EXCEPT ![j] = to]

Announce(j) ==
  /\ state[j] = "new" /\ Says(j, "none", "pending") /\ UNCHANGED <<state, late>>

Enqueue(j) ==
  /\ seen[j] = "pending" /\ Goes(j, "new", "queued") /\ UNCHANGED <<seen, late>>

Take(j) ==
  /\ Goes(j, "queued", "taken") /\ UNCHANGED <<seen, late>>

Report(j) ==
  /\ state[j] = "taken" /\ Says(j, "pending", "processing") /\ UNCHANGED <<state, late>>

Start(j) ==
  /\ seen[j] = "processing" \/ j \in late
  /\ state[j] \in {"taken", "queued"} /\ (state[j] = "queued" => j \in late)
  /\ state' = [state EXCEPT ![j] = "running"]
  /\ UNCHANGED <<seen, late>>

Finish(j) ==
  /\ Goes(j, "running", "over") /\ UNCHANGED <<seen, late>>

\* The final status; a complete_job that fails half-way is repeated with
\* "error".
Close(j) ==
  /\ state[j] = "over" /\ seen[j] \in {"processing"} \cup Final
  /\ \E f \in Final : seen' = [seen EXCEPT ![j] = f]
  /\ UNCHANGED <<state, late>>

Expire(j) ==
  /\ seen[j] # "none" \/ state[j] = "new"
  /\ late' = late \cup {j} /\ UNCHANGED <<state, seen>>

Redeliver(j) ==
  /\ j \in late /\ Goes(j, "taken", "queued") /\ UNCHANGED <<seen, late>>

\* The status of a late job expires, or is written anew by a reclaim or by the
\* worker that still runs the job.
Blur(j) ==
  /\ j \in late
  /\ \E s \in {"none", "pending", "processing"} \cup Final :
       seen' = [seen EXCEPT ![j] = s]
  /\ UNCHANGED <<state, late>>

LifeNext ==
  \E j \in Jobs :
    \/ Announce(j) \/ Enqueue(j) \/ Take(j) \/ Report(j) \/ Start(j) \/ Finish(j)
    \/ Close(j) \/ Expire(j) \/ Redeliver(j) \/ Blur(j)

LifeSpec == LifeInit /\ [][LifeNext]_lifeVars

=============================================================================
