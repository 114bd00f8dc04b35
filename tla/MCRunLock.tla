------------------------------- MODULE MCRunLock -------------------------------
(***************************************************************************)
(* Instances of RunLock.  Three starts with two signals: one run's edge or *)
(* lock is left behind, the lock is found by the second and the third at   *)
(* once.                                                                   *)
(***************************************************************************)
EXTENDS RunLock
=============================================================================
