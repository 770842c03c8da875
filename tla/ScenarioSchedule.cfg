\* Attribution of sensor events under the default ratio of grace and pause.
\* Deadlock is not checked: the loop ends, and the clock stops at Horizon.
SPECIFICATION Spec
CONSTANTS
  N = 3
  Grace = 1
  Pause = 3
  Timeout = 2
  MaxSkew = 1
  Horizon = 9
  MaxEvents = 1
INVARIANTS
  AttributionExact
  WindowsDisjoint
CHECK_DEADLOCK FALSE
