SPECIFICATION FairSpec
CONSTANTS
  None = None
  Files <- MCFiles
INVARIANTS
  TypeOK
  VersionsTellTables
  SeedNeverConflicts
  ServesMigrated
  WorkerHasDatabase
PROPERTIES
  EndsOnceTold
