----------------------------- MODULE FireVerifier -----------------------------
(***************************************************************************)
(* The edge's temporal gate (poc/pi/ignis_poc/core.py, FireVerifier): one  *)
(* update per camera frame decides from the last frames whether there is   *)
(* an incident, whether it is confirmed and whether it is out of sight.    *)
(*                                                                         *)
(* A frame is its number, its time and whether a fire or smoke detection   *)
(* reached its threshold.  The deque of booleans is the set of the numbers *)
(* of relevant frames still in it: only their count is ever read.          *)
(***************************************************************************)
EXTENDS Integers, FiniteSets

CONSTANTS
    Window,        \* frames the verifier looks back on
    Required,      \* relevant frames among them that confirm
    ConfirmTime,   \* age of an incident that may be confirmed
    ClearTime,     \* silence that ends a suspicion, or puts a fire out of sight
    ResetTime,     \* silence that ends a confirmed incident
    Gaps,          \* time between two frames: the camera may stall
    MaxTime        \* bound: the clock

ASSUME ThresholdAssumption ==
    /\ Window \in Nat /\ Required \in Nat
    /\ ConfirmTime \in Nat
    /\ ClearTime \in Nat \ {0} /\ ResetTime \in Nat \ {0}
    /\ Gaps \subseteq Nat
    /\ MaxTime \in Nat

VARIABLES
    clock,             \* monotonic_ns of the last frame
    frame,             \* frames seen so far
    window,            \* the relevant frames among the last Window
    counter,           \* incidents opened so far
    incident_id,       \* the open incident, 0 when there is none
    hazard_state,
    confirmed,
    first_detection,
    last_relevant,
    evidence           \* history: the relevant frames of the open incident

stateVars == <<incident_id, hazard_state, confirmed, first_detection, last_relevant>>
vars      == <<clock, frame, window, counter, stateVars, evidence>>

FireState ==
    /\ incident_id     = 0
    /\ hazard_state    = "CLEAR"
    /\ confirmed       = FALSE
    /\ first_detection = 0
    /\ last_relevant   = 0

Init ==
    /\ FireState
    /\ clock = 0
    /\ frame = 0
    /\ window = {}
    /\ counter = 0
    /\ evidence = {}

\* Variant: a suspicion is not verified before it has the frames that confirm it.
VerifyFramesAll == Required

\* Half the frames that confirm, and three at least, make a suspicion worth verifying.
VerifyFrames == IF Required \div 2 > 3 THEN Required \div 2 ELSE 3

\* What deque(maxlen=Window) keeps once the current frame is appended.
InWindow(frames) == {f \in frames : f > frame + 1 - Window}

\* Variant: the age of the incident is not looked at.
ConfirmsAtOnce(hits, age) == hits >= Required

\* Enough of the last frames were relevant, over a long enough time.
Confirms(hits, age) == hits >= Required /\ age >= ConfirmTime

\* Variant: verification is not skipped for a confirmed incident.
VerifiesAgain(hits) == hits >= VerifyFrames

Verifies(hits) == hits >= VerifyFrames /\ ~confirmed

\* update() with a relevant detection at time t.
Relevant(t) ==
    LET recent   == InWindow(window \cup {frame + 1})
        opens    == incident_id = 0
        first    == IF opens THEN t ELSE first_detection
        confirms == Confirms(Cardinality(recent), t - first)
        verifies == Verifies(Cardinality(recent))
    IN /\ window' = recent
       /\ last_relevant' = t
       /\ first_detection' = first
       /\ counter' = IF opens THEN counter + 1 ELSE counter
       /\ incident_id' = IF opens THEN counter + 1 ELSE incident_id
       /\ confirmed' = (confirmed \/ confirms)
       /\ hazard_state' = CASE confirms                           -> "CONFIRMED"
                            [] ~confirms /\ verifies              -> "VERIFYING"
                            [] ~confirms /\ ~verifies /\ opens    -> "SUSPECTED"
                            [] ~confirms /\ ~verifies /\ ~opens   -> hazard_state
       /\ evidence' = evidence \cup {frame + 1}

\* Variant: the confirmation survives the incident.
RenewButConfirmed ==
    /\ incident_id'     = 0
    /\ hazard_state'    = "CLEAR"
    /\ first_detection' = 0
    /\ last_relevant'   = 0
    /\ UNCHANGED confirmed

\* A new FireState replaces the incident.
Renew ==
    /\ incident_id'     = 0
    /\ hazard_state'    = "CLEAR"
    /\ confirmed'       = FALSE
    /\ first_detection' = 0
    /\ last_relevant'   = 0

\* Variant: the state is renewed, the window is not cleared.
ForgetKeepsWindow == Renew /\ window' = InWindow(window)

\* The incident is over: window.clear() and a new FireState.
Forget == Renew /\ window' = {}

\* How long the open incident may be silent.
Patience == IF confirmed THEN ResetTime ELSE ClearTime

\* Variant: a confirmed incident ends as soon as it is out of sight.
OverOutOfSight(silence) == incident_id # 0 /\ silence >= ClearTime

\* Variant: one moment too late.
OverLate(silence) == incident_id # 0 /\ silence > Patience

Over(silence) == incident_id # 0 /\ silence >= Patience

\* update() without a relevant detection at time t.
Irrelevant(t) ==
    LET silence == t - last_relevant
    IN \/ /\ Over(silence)
          /\ Forget
          /\ evidence' = {}
          /\ UNCHANGED counter
       \/ /\ ~Over(silence)
          /\ window' = InWindow(window)
          /\ hazard_state' = IF confirmed /\ silence >= ClearTime
                             THEN "VISUAL_SIGNATURE_LOST" ELSE hazard_state
          /\ UNCHANGED <<counter, incident_id, confirmed, first_detection, last_relevant, evidence>>

Frame(gap) ==
    /\ clock + gap <= MaxTime
    /\ clock' = clock + gap
    /\ frame' = frame + 1
    /\ Relevant(clock + gap) \/ Irrelevant(clock + gap)

Next == \E gap \in Gaps : Frame(gap)

Spec == Init /\ [][Next]_vars

-----------------------------------------------------------------------------
(* Properties *)

\* Every variable has its type, and no incident means the state of FireState().
TypeOK ==
    /\ clock \in Nat /\ frame \in Nat /\ counter \in Nat
    /\ window \subseteq 1..frame /\ evidence \subseteq 1..frame
    /\ incident_id \in 0..counter
    /\ hazard_state \in {"CLEAR", "SUSPECTED", "VERIFYING", "CONFIRMED", "VISUAL_SIGNATURE_LOST"}
    /\ confirmed \in BOOLEAN
    /\ first_detection \in 0..clock /\ last_relevant \in 0..clock
    /\ incident_id = 0 => FireState /\ evidence = {}

\* No detection of an earlier event counts for a later incident: the window holds the
\* relevant frames of the open incident that are among the last Window frames, no other
\* (test_short_false_event_does_not_seed_later_incident).
WindowIsOfIncident ==
    /\ window \subseteq evidence
    /\ \A f \in evidence : f \in window <=> f > frame - Window

\* A confirmed incident has been seen in Required frames of its own over ConfirmTime:
\* neither one output of the model nor a burst of them confirms.
ConfirmedByEvidence ==
    confirmed =>
      /\ Cardinality(evidence) >= Required
      /\ last_relevant - first_detection >= ConfirmTime

\* A confirmed incident is reported as confirmed or out of sight and nothing else, and
\* no other is: the device asks for a response only in states the backend escalates.
ReportsVisible ==
    confirmed <=> hazard_state \in {"CONFIRMED", "VISUAL_SIGNATURE_LOST"}

\* An incident does not outlive its evidence: as of the last frame, it has been silent
\* for less than the time that ends it, however long the camera stalled in between.
OpenIncidentIsRecent == incident_id # 0 => clock - last_relevant < Patience

\* A confirmation is only lost to ResetTime of silence, and a fire only called out of
\* sight after ClearTime of it; two incidents are never joined nor swapped.
ConfirmationStands ==
    [][/\ confirmed /\ ~confirmed' => clock' - last_relevant >= ResetTime
       /\ hazard_state' = "VISUAL_SIGNATURE_LOST" /\ hazard_state # "VISUAL_SIGNATURE_LOST" =>
            clock' - last_relevant >= ClearTime
       /\ incident_id # 0 /\ incident_id' # incident_id => incident_id' = 0]_vars

\* Readers of the verifier's state see one incident at a time, suspected, verified and
\* confirmed in that order however the frames come; the loop's log and the backend's row
\* rely on it.
Promised == INSTANCE LocalIncident
KeepsPromise == Promised!Spec
=============================================================================
