---------------------------- MODULE MCEdgeReporting ----------------------------
(* Instances of EdgeReporting for TLC. *)
EXTENDS EdgeReporting
=============================================================================
