\* Two uploads of one image, one slot, two faults of any kind.
SPECIFICATION FairSpec
CONSTANTS
  Uploads = {u1, u2}
  Images = {i1}
  Workers = {w1}
  NoUpload = NoUpload
  MaxAttempts = 2
  FaultKinds = {"drop", "crash", "database"}
  MaxFaults = 2
CHECK_DEADLOCK FALSE
INVARIANTS
  QueuedIsNeverLost
  DeadAfterAllAttempts
PROPERTIES
  DuplicateOnlyByRace
  KeepsTask
  QueuedComesToAnEnd
