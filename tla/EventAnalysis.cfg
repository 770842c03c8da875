SPECIFICATION AnalysisSpec
CONSTANTS
  Ids = {i1, i2}
  MaxSteps = 4
  Namespaces = {"tg", "kube"}
  Protected = "tg"
  Switchable = {"R2"}
  MaxSeen = 2
  MaxEvents = 4
  Pods = {"web-1", "db-1"}
  Pod = "web-1"
  Matching = {"web-1"}
  Pids = {100, 101}
  MaxProcs = 3
  MaxPackages = 2
  TechniqueWeights <- MCTechniques
  NamespaceWeights <- MCNamespaces
  NoTechnique = NoTechnique
  RawEvents <- MCRawEvents
  RawFiles <- MCFiles
  Events <- MCEvents
  Specs <- MCSpecs
  AffectedPods <- MCPods
  Published <- MCPublished
INVARIANTS
  AnalysisTypes
  HistoryIsAChain
  AuditTellsHistory
  RulesAgree
  IngestLosesNothing
  IncidentsFaithful
  TreeIsReal
  PlaybookGrounded
  PackageHonest
PROPERTIES
  EvidenceNeverDiscounted
\* Commands end, and lists are complete at their bound.
CHECK_DEADLOCK FALSE
