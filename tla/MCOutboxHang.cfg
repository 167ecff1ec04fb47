\* One replica whose connection drops once, swallowing the confirm it waits for.
SPECIFICATION FairSpec
CONSTANTS
  Events = {1, 2}
  NoReplica = NoReplica
  Replicas = {r1}
  BatchSize = 1
  MaxAttempts = 2
  MaxFaults = 1
  FaultKinds = {"drop", "lostConfirm"}
CHECK_DEADLOCK FALSE
PROPERTY
  EverySettles
