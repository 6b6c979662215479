--------------------------- MODULE MCJobProcessor ---------------------------
(* JobProcessor on small instances.                                        *)
EXTENDS JobProcessor, TLC

CONSTANTS r1, r2, r3, j1, j2, j3

\* Every job is run once.
DistinctJobs == [r \in Runs |-> CASE r = r1 -> j1 [] r = r2 -> j2 [] OTHER -> j3]

\* Renaming the runs together with their jobs.
Symmetry ==
  {[x \in Runs \cup Jobs |->
      IF x \in Runs THEN p[x]
      ELSE DistinctJobs[p[CHOOSE r \in Runs : DistinctJobs[r] = x]]] :
     p \in Permutations(Runs)}

\* Bounds for the safety run: two runs with a control channel each and messages
\* (both only if the lock does not expire under its holder), or three runs, two
\* of which can wait for the third, and a crash without.
Started == {r \in Runs : pc[r] # "idle"}
Small ==
  \/ /\ Cardinality(Started) <= 2 /\ crashes = 0
     /\ Cardinality(sent) <= 1 \/ ~lockExpired
     /\ \A r \in Runs : pc[r] = "turn" \/ JobOf[r] \in ran => streaming[r] \/ ctl[r] # "off"
  \/ sent = {} /\ \A r \in Runs : ctl[r] = "off"

=============================================================================
