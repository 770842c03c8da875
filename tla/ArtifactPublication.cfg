\* Three attempts with fresh run ids, each of which may die anywhere, and a reader.
SPECIFICATION Spec
CONSTANTS
  MaxAttempts = 3
  RunIdOf <- FreshRunIds
  Absent = Absent
INVARIANTS
  ManifestCommits
  PublishedIsArchived
  ScorecardNeverPairsOlderEvents
PROPERTIES
  ArchiveImmutable
  ImplementsLedger
