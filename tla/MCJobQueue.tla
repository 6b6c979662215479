----------------------------- MODULE MCJobQueue -----------------------------
(* JobQueue on small instances: job ids and workers are interchangeable.   *)
EXTENDS JobQueue, TLC

Symmetry == Permutations(Jobs) \cup Permutations(Workers)
=============================================================================
