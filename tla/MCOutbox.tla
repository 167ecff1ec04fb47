------------------------------ MODULE MCOutbox ------------------------------
(* Instances of Outbox for TLC; the configurations choose the faults.       *)
EXTENDS Outbox
=============================================================================
