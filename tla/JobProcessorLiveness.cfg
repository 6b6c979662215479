CONSTANTS
  r1 = r1
  r2 = r2
  r3 = r3
  j1 = j1
  j2 = j2
  j3 = j3
  Runs = {r1, r2}
  Jobs = {j1, j2}
  JobOf <- DistinctJobs
  Msgs = {}
  Stop = Stop
  Browser = {Stop}
  Setups = {"streaming"}
  None = None
  MaxContinues = 0
  MaxCrashes = 1
SPECIFICATION FairSpec
CHECK_DEADLOCK FALSE
PROPERTIES
  EveryRunEnds
  HolderReleases
