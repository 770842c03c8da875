\* Runs one after the other and at the same time, interrupted or not, over the same files.
SPECIFICATION Spec
CONSTANTS
  R1 = R1
  R2 = R2
  Runs <- MCRuns
  MaxAge = 0
  Horizon = 1
  Absent = Absent
  Torn = Torn
  NoRun = NoRun
SYMMETRY SameRun
INVARIANTS
  PassedVerdictIsOwn
  LiveAcceptanceIsOneRun
CHECK_DEADLOCK FALSE
