---------------------------- MODULE MCLiveDashboard ----------------------------
(* Instances of LiveDashboard for TLC. *)
EXTENDS LiveDashboard
=============================================================================
