\* Three attempts with one key, which expires once, and three faults.
SPECIFICATION FairSpec
CONSTANTS
  Requests = {r1, r2, r3}
  Nobody = Nobody
  MaxTerms = 1
  MaxFaults = 3
CHECK_DEADLOCK FALSE
INVARIANTS
  OneSuccessPerTerm
  OrphanHasACause
PROPERTY
  FailureFreesTheKey
