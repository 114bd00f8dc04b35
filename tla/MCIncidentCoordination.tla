------------------------ MODULE MCIncidentCoordination ------------------------
(* Instances of IncidentCoordination for TLC. *)
EXTENDS IncidentCoordination

Report(h, r) == [hazard |-> h, response |-> r]

\* What the two senders of INCIDENT_UPDATE put on the wire: the POC edge runtime
\* (AWAITING_RESPONSE exactly once its verifier has confirmed) and the simulator.
EdgeReports == {Report("SUSPECTED", "IDLE"), Report("CONFIRMED", "AWAITING_RESPONSE"),
                Report("VISUAL_SIGNATURE_LOST", "AWAITING_RESPONSE")}

\* A fire that stays in view: the call path without the visual history.
SteadyReports == {Report("CONFIRMED", "AWAITING_RESPONSE")}
=============================================================================
