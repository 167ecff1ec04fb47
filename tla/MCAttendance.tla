---------------------------- MODULE MCAttendance ----------------------------
(* Instances of Attendance for TLC.                                         *)
EXTENDS Attendance, TLC

\* Requests run the same code; students and professors are only compared for
\* equality.
IdSymmetry ==
  Permutations(Requests) \cup Permutations(Students) \cup Permutations(Professors)
=============================================================================
