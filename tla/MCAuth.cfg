\* Two browsers of one user, three requests, three seconds, one fault.
SPECIFICATION Spec
CONSTANTS
  Browsers = {1, 2}
  Calls = {c1, c2, c3}
  NoBrowser = NoBrowser
  AccessTTL = 2
  RefreshTTL = 3
  MaxNow = 3
  MaxFaults = 1
SYMMETRY CallSymmetry
CHECK_DEADLOCK FALSE
INVARIANTS
  TurnedAwayForAReason
  LiveTokensAreHeld
  HeirsWereRacing
