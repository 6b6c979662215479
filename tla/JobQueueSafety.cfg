CONSTANTS
  Jobs = {j1, j2}
  Workers = {w1, w2}
  Outcomes = {"success", "error"}
  NoJob = NoJob
  MaxFails = 1
SPECIFICATION Spec
SYMMETRY Symmetry
INVARIANTS
  TypeOK
  SingleCopyWithinTTL
  RunIsRecoverableWithinTTL
  NoLossWithoutFailure
PROPERTY
  ImplementsJobLife
  NoRerunWithinTTL
