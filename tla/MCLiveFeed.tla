----------------------------- MODULE MCLiveFeed -----------------------------
(* Instances of LiveFeed for TLC.  Liveness is checked, so nothing is taken   *)
(* for symmetric; the sockets are used in the order of their numbers.         *)
EXTENDS LiveFeed
=============================================================================
