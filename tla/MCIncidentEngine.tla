---------------------------- MODULE MCIncidentEngine ----------------------------
(* Instances of IncidentEngine for TLC. *)
EXTENDS IncidentEngine

Shows(fire, smoke, box) == [fire |-> fire, smoke |-> smoke, box |-> box]

\* Nothing, a box without a detection, a weak and a strong fire, one that may grow, smoke, and both.
SomeEvidence ==
    {Shows(0, FALSE, FALSE), Shows(0, FALSE, TRUE), Shows(1, FALSE, TRUE), Shows(2, FALSE, FALSE),
     Shows(0, TRUE, FALSE), Shows(1, TRUE, FALSE)}
=============================================================================
