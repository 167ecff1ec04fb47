---------------------------- MODULE MCBulkImport ----------------------------
(* Instances of BulkImport for TLC.                                         *)
EXTENDS BulkImport
=============================================================================
