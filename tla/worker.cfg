SPECIFICATION FairSpec
CONSTANTS
  None = None
  Jobs = {j1, j2, j3}
  Size = 2
  MaxAttempts = 2
  Workers = {d, r1, r2}
  Direct = d
\* The system stops when Stop has returned, or in a panic.
CHECK_DEADLOCK FALSE
INVARIANTS
  TypeOK
  OnePlace
  GivenUpForAReason
  OneLiveWorker
  StopDrains
PROPERTIES
  StopEnds
  JobsSettle
  ImplementsBoard
