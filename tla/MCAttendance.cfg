\* Opening, closing, marking and identifying, four requests at a time.
SPECIFICATION Spec
CONSTANTS
  Requests = {q1, q2, q3, q4}
  Sessions = {s1}
  Students = {a, b}
  Professors = {p1, p2}
  Admin = Admin
  Deleted = Deleted
  Null = Null
  Similarities = {0, 1, 2}
  Threshold = 1
SYMMETRY IdSymmetry
CHECK_DEADLOCK FALSE
INVARIANTS
  FaceRecordsClearThreshold
  AnsweredIsRecorded
PROPERTIES
  LateWritesWereInFlight
