CONSTANTS
  Jobs = {j1}
  Cleanups = {}
  NoJob = NoJob
  MaxFails = 1
SPECIFICATION FairSpec
CHECK_DEADLOCK FALSE
PROPERTY
  OrphansRemoved
