---------------------------- MODULE MCConnection ----------------------------
(* Instances of Connection for TLC; the connections are numbered, so that one *)
(* that closed can be told from the ones that remain.                         *)
EXTENDS Connection
=============================================================================
