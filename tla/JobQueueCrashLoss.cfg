CONSTANTS
  Jobs = {j1}
  Workers = {w1}
  Outcomes = {"success", "error"}
  NoJob = NoJob
  MaxFails = 1
SPECIFICATION Spec
INVARIANT
  JobsSurviveCrashes
