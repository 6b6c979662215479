CONSTANTS
  r1 = r1
  r2 = r2
  r3 = r3
  j1 = j1
  j2 = j2
  j3 = j3
  Runs = {r1, r2, r3}
  Jobs = {j1, j2, j3}
  JobOf <- DistinctJobs
  Msgs = {m1}
  Stop = Stop
  Browser = {m1, Stop}
  Setups = {"none", "streaming", "leaked"}
  None = None
  MaxContinues = 1
  MaxCrashes = 1
SYMMETRY Symmetry
SPECIFICATION Spec
CONSTRAINT Small
CHECK_DEADLOCK FALSE
INVARIANTS
  TypeOK
  
  DuplicateNeedsLeak
  MutexWithinTTL
  PromptLostOnlyByOverwrite
PROPERTY
  ReleaseFreesOwnLock
