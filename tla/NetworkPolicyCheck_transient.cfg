SPECIFICATION Spec
CONSTANTS
  Tries = 2
  MaxFaults = 1
  MaxRuns = 1
INVARIANT VerdictNeedsEnforcement
\* The check ends after its last run.
CHECK_DEADLOCK FALSE
