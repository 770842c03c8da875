SPECIFICATION Spec
CONSTANTS
  Pipelines = {p1, p2}
  RunIdOf <- OwnRunIds
  Artifacts = 1
  Absent = Absent
INVARIANT PublishedWhole
\* Every pipeline publishes once and ends.
CHECK_DEADLOCK FALSE
