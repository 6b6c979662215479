------------------------- MODULE MCStreamingSession -------------------------
(* StreamingSession for TLC.  Requests are interchangeable, and so are      *)
(* browser messages; liveness is checked without symmetry.                 *)
EXTENDS StreamingSession, TLC

Symmetry == Permutations(Reqs) \cup Permutations(Resumes)
=============================================================================
