\* Two students and two numbers, a submission of the form, an enrollment by another,
\* two loads on their way, a fault.
SPECIFICATION RosterSpec
CONSTANTS
  Ids = {s1, s2}
  Numbers = {n1, n2}
  Submits = {f1}
  Others = {o1}
  None = None
  Gone = Gone
  MaxLoads = 2
  MaxFailures = 1
SYMMETRY Symmetry
CHECK_DEADLOCK FALSE
INVARIANTS
  SubmitsWhatItShows
  EventPerLink
  OwnEnrollmentStays
