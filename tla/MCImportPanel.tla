---------------------------- MODULE MCImportPanel ----------------------------
(* Instances of ImportPanel for TLC.                                         *)
EXTENDS ImportPanel
=============================================================================
