\* Three events, each converted at either of two times, and one incident, with both bindings
\* registered at any time; every policy of seven statements; every graph of three edges over
\* four nodes; three saved incidents.
SPECIFICATION DomainSpec
CONSTANTS
  Findings <- MCFindings
  Detections <- MCDetections
  Bindings <- MCBindings
  Times = {1, 2}
  MaxEvents = 3
  MaxIncidents = 1
  Statements <- MCStatements
  NodeIds = {"user", "role", "cluster", "secret"}
  MaxEdges = 3
  MaxDepth = 2
  Procs = {"p"}
  MaxSaved = 3
  MaxScraped = 1
  MaxRewrites = 1
  Templates <- MCTemplates
INVARIANTS
  DomainTypes
  EvidenceSurvives
  ChainIsCausal
  ExactOnLiteralPolicies
  PathsAreTheSimplePaths
  StoreSound
PROPERTIES
  EvidenceNeverLowersRisk
  ScrapeIsHonest
\* A torn store stops every later process.
CHECK_DEADLOCK FALSE
