CONSTANTS
  Reqs = {q1, q2}
  Sweeps = {w1}
  Resumes = {r1, r2}
  None = None
  MaxEvents = 3
SPECIFICATION Spec
SYMMETRY Symmetry
INVARIANT
  TypeOK
  OneCreator
  OneResume
  
PROPERTY
  SweepSparesLive
CHECK_DEADLOCK FALSE
