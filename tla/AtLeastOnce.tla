---------------------------- MODULE AtLeastOnce ----------------------------
(***************************************************************************)
(* What the outbox promises its callers, with no batches, locks, replicas  *)
(* or transactions in sight: an event committed with a business write is   *)
(* handed to the broker at least once before it counts as published, its   *)
(* fate is final, and the only other fate is to be parked as failed.       *)
(***************************************************************************)
CONSTANT Events

VARIABLES
  fate,      \* what the database says of each event
  delivered  \* the events the broker has accepted at least once

vars == <<fate, delivered>>

Init ==
  /\ fate = [e \in Events |-> "ABSENT"]
  /\ delivered = {}

\* The business write commits, and the event with it.
Record(e) ==
  /\ fate[e] = "ABSENT"
  /\ fate' = [fate EXCEPT ![e] = "PENDING"]
  /\ UNCHANGED delivered

\* The broker accepts a copy, the first or a later one.  A message is only ever
\* sent for an event that was committed.
Deliver(e) ==
  /\ fate[e] # "ABSENT"
  /\ delivered' = delivered \cup {e}
  /\ UNCHANGED fate

\* One commit decides the fate of several pending events.
Settle(published, failed) ==
  /\ \A e \in published \cup failed : fate[e] = "PENDING"
  /\ published \subseteq delivered
  /\ published \cap failed = {}
  /\ fate' = [e \in Events |-> IF e \in published THEN "PUBLISHED"
                               ELSE IF e \in failed THEN "FAILED"
                               ELSE fate[e]]
  /\ UNCHANGED delivered

Next ==
  \/ \E e \in Events : Record(e) \/ Deliver(e)
  \/ \E published, failed \in SUBSET Events : Settle(published, failed)

Spec == Init /\ [][Next]_vars
=============================================================================
