------------------------------ MODULE MCFaces ------------------------------
(* Instances of Faces for TLC.                                             *)
EXTENDS Faces
=============================================================================
