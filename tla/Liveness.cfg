CONSTANTS
  Jobs = {j1}
  Workers = {w1, w2}
  Nothing = Nothing
  Waiters = {n1}
  Syncers = {s1}
  main = main
  Reqs = {q1}
  Sweeps = {p1}
  None = None
SPECIFICATION Spec
CHECK_DEADLOCK FALSE
PROPERTIES
  EveryJobSettles
  EveryWaitEnds
  RequestsDrain
  ZombieRecovered
