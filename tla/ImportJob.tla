------------------------------ MODULE ImportJob ------------------------------
(***************************************************************************)
(* What a bulk import promises to whoever submitted it, with no queue, no  *)
(* redelivery, no chunks and no handlers in sight.  As long as nothing     *)
(* outside its rows goes wrong, a job is worked off once: it starts, links *)
(* rows, and completes with a report that names exactly the linked ones.   *)
(* Once disturbed it may be started again and fail, even after it had      *)
(* ended, but its report still claims no row that is not linked.           *)
(***************************************************************************)
EXTENDS Naturals

CONSTANT RowCount

VARIABLES
  status,    \* what the database says of the job
  report,    \* the outcome of each row, once it has completed
  linked,    \* the rows that were linked to the course
  disturbed  \* whether anything but a row has gone wrong

vars == <<status, report, linked, disturbed>>

Rows == 1..RowCount
Claimed(r) == {i \in Rows : r[i] = "linked"}

Init ==
  /\ status = "NONE" /\ report = <<>>
  /\ linked = {}
  /\ disturbed = FALSE

\* A job being worked on, or that somebody still takes for one.
Underway ==
  \/ status = "PROCESSING"
  \/ disturbed /\ status \in {"COMPLETED", "FAILED"}

Create ==
  /\ status = "NONE"
  /\ status' = "PENDING"
  /\ UNCHANGED <<report, linked, disturbed>>

Start ==
  /\ status = "PENDING" \/ (disturbed /\ Underway)
  /\ status' = "PROCESSING"
  /\ UNCHANGED <<report, linked, disturbed>>

\* A row is linked for good.  The disturbance may be that nobody hears of it.
Link(i) ==
  /\ Underway
  /\ linked' = linked \cup {i}
  /\ disturbed => disturbed'
  /\ UNCHANGED <<status, report>>

Complete(r) ==
  /\ Underway
  /\ Claimed(r) \subseteq linked
  /\ ~disturbed => Claimed(r) = linked
  /\ status' = "COMPLETED"
  /\ report' = r
  /\ UNCHANGED <<linked, disturbed>>

Fail ==
  /\ disturbed /\ status \notin {"NONE", "GONE"}
  /\ status' = "FAILED"
  /\ report' = <<>>
  /\ UNCHANGED <<linked, disturbed>>

\* The course is deleted, which the job does not survive.
Delete ==
  /\ status \notin {"NONE", "GONE"}
  /\ status' = "GONE"
  /\ report' = <<>>
  /\ UNCHANGED <<linked, disturbed>>

Disturb == disturbed' = TRUE /\ UNCHANGED <<status, report, linked>>

Next ==
  \/ Create \/ Start \/ Fail \/ Delete \/ Disturb
  \/ \E i \in Rows : Link(i)
  \/ \E r \in [Rows -> {"linked", "error"}] : Complete(r)

Spec == Init /\ [][Next]_vars
=============================================================================
