CONSTANTS
  r1 = r1
  r2 = r2
  r3 = r3
  j1 = j1
  j2 = j2
  j3 = j3
  Runs = {r1}
  Jobs = {j1}
  JobOf <- DistinctJobs
  Msgs = {m1}
  Stop = Stop
  Browser = {m1, Stop}
  Setups = {"none", "streaming"}
  None = None
  MaxContinues = 1
  MaxCrashes = 0
SPECIFICATION FairSpec
CHECK_DEADLOCK FALSE
PROPERTY
  CancelledTurnRunsFollowUp
