CHECK_DEADLOCK FALSE
SPECIFICATION Spec
CONSTANTS
  main = main
  pr = pr
  j1 = j1
  Refs = {main, pr}
  Jobs = {j1}
  RefOf <- JobsOnMain
  Syncers = {s1, s2}
  None = None
  Starts = {"absent", "ok"}
  MaxPushes = 1
  MaxFails = 1
SYMMETRY Symmetry
INVARIANTS TypeOK OneSyncWithinTTL SyncedHasClone AnswerComes
