SPECIFICATION Spec
CONSTANTS
  n1 = n1
  n2 = n2
  p1 = p1
  p2 = p2
  None = None
  Policies <- MCPolicies
  Negative <- MCNegative
  Positive <- MCPositive
  Breaks <- MCBreaks
  PolicyOf <- MCPolicyOf
  Tries = 2
  Nodes <- MCNodes
  PodNode = n1
  Tracing <- MCTracing
  Probes = 2
  AdmissionFaults = 2
  NetworkFaults = 1
  NetworkRuns = 2
  SensorTroubles = 2
  VerifyTroubles = 3
SYMMETRY PolicySymmetry
INVARIANTS
  SuccessIsEnforcement
  SoundVerdict
  PassLeavesNothing
  DiagnosisIsOfThePod
  ZeroIsHealthy
\* Every command ends with its verdict.
CHECK_DEADLOCK FALSE
