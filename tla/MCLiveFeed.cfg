\* A page with three sockets to use up, two replicas, one event, two faults.
SPECIFICATION FairSpec
CONSTANTS
  Pages = {p1}
  Replicas = {r1, r2}
  Sockets = {1, 2, 3}
  Nobody = Nobody
  MaxEvents = 1
  MaxFaults = 2
CHECK_DEADLOCK FALSE
INVARIANTS
  SubscribedMissNothing
  ExtraFramesHaveACause
  OnlyLeakedSocketsLinger
  PageShowsWhatItWasTold
PROPERTY
  FeedComesBack
