------------------------------ MODULE FaceTask ------------------------------
(***************************************************************************)
(* What the queue of face images promises to an upload that was accepted   *)
(* for later: no retry queue, no attempt counts, no handlers, no           *)
(* connection.  A task stays open until it is settled or buried, and is    *)
(* buried only when processing it has failed as often as it may.  As long  *)
(* as nothing but its processing goes wrong, that happens once.  After a   *)
(* disturbance an ended task may be handed out again, and then even both   *)
(* be settled and buried, but none is forgotten.                           *)
(***************************************************************************)
EXTENDS Naturals

CONSTANTS Uploads, MaxAttempts

VARIABLES
  queued,    \* tasks waiting or being worked on
  failures,  \* how often processing a task has failed, up to MaxAttempts
  settled,   \* tasks that were dealt with
  dead,      \* tasks that were given up
  disturbed  \* whether anything but a task has gone wrong

vars == <<queued, failures, settled, dead, disturbed>>

Ended == settled \cup dead

Init ==
  /\ queued = {} /\ settled = {} /\ dead = {}
  /\ failures = [u \in Uploads |-> 0]
  /\ disturbed = FALSE

\* A task being worked on, or that somebody still takes for one.
Open(u) == u \in queued \/ (disturbed /\ u \in Ended)

\* A copy of the task has ended: the only one, unless there was a disturbance.
Leaves(u) ==
  \/ queued' = queued \ {u}
  \/ disturbed /\ queued' = queued

Accept(u) ==
  /\ u \notin queued \cup Ended /\ failures[u] = 0
  /\ queued' = queued \cup {u}
  /\ UNCHANGED <<failures, settled, dead, disturbed>>

\* The failure may be a disturbance itself.
Fail(u) ==
  /\ Open(u)
  /\ \/ failures[u] < MaxAttempts /\ failures' = [failures EXCEPT ![u] = @ + 1]
     \/ disturbed' /\ failures[u] = MaxAttempts /\ UNCHANGED failures
  /\ disturbed => disturbed'
  /\ UNCHANGED <<queued, settled, dead>>

Settle(u) ==
  /\ Open(u)
  /\ settled' = settled \cup {u}
  /\ Leaves(u)
  /\ UNCHANGED <<failures, dead, disturbed>>

Bury(u) ==
  /\ Open(u) /\ failures[u] = MaxAttempts
  /\ dead' = dead \cup {u}
  /\ Leaves(u)
  /\ UNCHANGED <<failures, settled, disturbed>>

\* Something else goes wrong, and tasks that have ended are handed out again.
Disturb(us) ==
  /\ us \subseteq Ended
  /\ disturbed' = TRUE
  /\ queued' = queued \cup us
  /\ UNCHANGED <<failures, settled, dead>>

Next ==
  \/ \E u \in Uploads : Accept(u) \/ Fail(u) \/ Settle(u) \/ Bury(u)
  \/ \E us \in SUBSET Uploads : Disturb(us)

Spec == Init /\ [][Next]_vars
=============================================================================
