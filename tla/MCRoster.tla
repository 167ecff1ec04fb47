------------------------------- MODULE MCRoster -------------------------------
(* Instances of Roster for TLC.  No definition tells two students or two       *)
(* numbers apart, and only safety is checked, so both are interchangeable.     *)
EXTENDS Roster, TLC

Symmetry == Permutations(Ids) \cup Permutations(Numbers)
=============================================================================
