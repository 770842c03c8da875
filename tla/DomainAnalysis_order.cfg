\* Two events of one workload, converted in either order.
SPECIFICATION DomainSpec
CONSTANTS
  Findings <- MCFindings
  Detections <- MCDetections
  Bindings <- MCBindings
  Times = {1, 2}
  MaxEvents = 2
  MaxIncidents = 0
  Statements <- MCStatements
  NodeIds = {"user"}
  MaxEdges = 0
  MaxDepth = 0
  Procs = {"p"}
  MaxSaved = 0
  MaxScraped = 0
  MaxRewrites = 0
  Templates <- MCTemplates
INVARIANTS
  RuntimeChronological
CHECK_DEADLOCK FALSE
