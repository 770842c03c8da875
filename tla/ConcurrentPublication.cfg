\* Three pipelines, so that one can take the .tmp name that two others have fought over.
SPECIFICATION Spec
CONSTANTS
  Pipelines = {p1, p2, p3}
  RunIdOf <- OwnRunIds
  Artifacts = 2
  Absent = Absent
SYMMETRY Symmetry
INVARIANTS
  ArchiveIsOwn
  CleanExitsLeaveWhole
\* Every pipeline publishes once and ends.
CHECK_DEADLOCK FALSE
