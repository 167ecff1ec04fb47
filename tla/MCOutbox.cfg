\* Two replicas, two rows, every kind of fault, two of them in one behaviour.
SPECIFICATION FairSpec
CONSTANTS
  Events = {1, 2}
  NoReplica = NoReplica
  Replicas = {r1, r2}
  BatchSize = 2
  MaxAttempts = 2
  MaxFaults = 2
  FaultKinds = {"crash", "timeout", "database", "drop", "channel", "nack", "lostConfirm"}
CHECK_DEADLOCK FALSE
INVARIANTS
  ParkedOnlyAfterMaxErrors
  ExtraCopiesHaveACause
PROPERTIES
  KeepsPromise
  SettlesWhileARelayDrains
