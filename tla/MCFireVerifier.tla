---------------------------- MODULE MCFireVerifier ----------------------------
(* Instances of FireVerifier for TLC. *)
EXTENDS FireVerifier
=============================================================================
