----------------------------- MODULE LocalIncident -----------------------------
(***************************************************************************)
(* What the edge's verifier promises to its readers (the loop, the log and *)
(* the display in poc/pi/ignis_poc/edge.py): at most one incident is open, *)
(* it is suspected, verified and confirmed in that order, only a confirmed *)
(* one goes out of sight, and an incident that ended never comes back.     *)
(* How many frames each step takes is not said: FireVerifier says it, and  *)
(* implements this.                                                        *)
(***************************************************************************)
EXTENDS Naturals

VARIABLES
    counter,        \* incidents opened so far
    incident_id,    \* the open incident, 0 when there is none
    hazard_state

incidentVars == <<counter, incident_id, hazard_state>>

Confirmed == hazard_state \in {"CONFIRMED", "VISUAL_SIGNATURE_LOST"}

Init == counter = 0 /\ incident_id = 0 /\ hazard_state = "CLEAR"

Open ==
    /\ incident_id = 0
    /\ counter' = counter + 1
    /\ incident_id' = counter + 1
    /\ hazard_state' = "SUSPECTED"

\* The open incident goes on from one state to another.
Move(from, to) ==
    /\ incident_id # 0 /\ hazard_state = from
    /\ hazard_state' = to
    /\ UNCHANGED <<counter, incident_id>>

Advance ==
    \/ Move("SUSPECTED", "VERIFYING")
    \/ Move("VERIFYING", "CONFIRMED")
    \/ Move("CONFIRMED", "VISUAL_SIGNATURE_LOST")
    \/ Move("VISUAL_SIGNATURE_LOST", "CONFIRMED")

\* From whatever state: the camera may have stalled for longer than any patience.
End ==
    /\ incident_id # 0
    /\ incident_id' = 0 /\ hazard_state' = "CLEAR"
    /\ UNCHANGED counter

Next == Open \/ Advance \/ End

Spec == Init /\ [][Next]_incidentVars
=============================================================================
