---------------------------- MODULE MCIdempotency ----------------------------
(* Instances of Idempotency for TLC.                                         *)
EXTENDS Idempotency
=============================================================================
