CHECK_DEADLOCK FALSE
SPECIFICATION Spec
CONSTANTS
  main = main
  pr = pr
  j1 = j1
  Refs = {main}
  Jobs = {j1, j2}
  RefOf <- JobsOnMain
  Syncers = {s1}
  None = None
  Starts = {"ok"}
  MaxPushes = 1
  MaxFails = 0
INVARIANT JobsSeeTheirSync
