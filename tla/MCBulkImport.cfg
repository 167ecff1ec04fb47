\* Three channels, so that two faults of any kind leave one; progress is saved once,
\* at the end.
SPECIFICATION FairSpec
CONSTANTS
  Consumers = {c1, c2, c3}
  RowCount = 2
  ChunkSize = 2
  FaultKinds = {"drop", "crash", "database", "redis", "duplicate"}
  MaxFaults = 2
CHECK_DEADLOCK FALSE
INVARIANTS
  CompletedCoversEveryRow
  OnlyFaultsFailAJob
  NothingLeftUndone
PROPERTIES
  KeepsImport
  JobSettles
