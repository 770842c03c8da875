\* Does a live run beside another run pass on real evidence only?
SPECIFICATION Spec
CONSTANTS
  R1 = R1
  R2 = R2
  Runs <- MCRuns
  MaxAge = 0
  Horizon = 0
  Absent = Absent
  Torn = Torn
  NoRun = NoRun
SYMMETRY SameRun
INVARIANTS
  LiveVerdictOnRealEvidence
CHECK_DEADLOCK FALSE
