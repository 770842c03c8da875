\* The retry loop against a stream that grows, overflows the tail and may vanish.
\* Deadlock is not checked: the pipeline ends.
SPECIFICATION Spec
CONSTANTS
  Catalog <- MCCatalog
  RunChoices <- MCRunChoices
  Fixture <- MCFixture
  Lines <- MCLines
  Grace = 1
  WaitSeconds = 3
  TailLines = 3
  MaxLog = 4
  Nothing = Nothing
INVARIANTS
  PassedIsBacked
  LostStreamConfirmsNothing
  ExitMatchesManifest
  FailedOnlyAfterFullWait
PROPERTIES
  AttackPassIsStable
  Terminates
CHECK_DEADLOCK FALSE
