\* Two consumers, four faults: two leaks, say, and the closes of the leaked
\* connections.
SPECIFICATION FairSpec
CONSTANTS
  Consumers = {faces, imports}
  Conns = {1, 2, 3, 4, 5, 6}
  MaxFaults = 4
CHECK_DEADLOCK FALSE
INVARIANTS
  ReadyMeansOpen
  AttachedTwiceOnlyAfterALeak
  ReconnectsDoNotPileUp
PROPERTY
  ConnectedInTheEnd
