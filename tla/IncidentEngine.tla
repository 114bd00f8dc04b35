---------------------------- MODULE IncidentEngine ----------------------------
(***************************************************************************)
(* The visual incident engine of the QNX edge (qnx/common/src/incident.cpp,*)
(* IncidentEngine): one process() per camera frame, and the operations of  *)
(* its owner: cancel, confirm_occupant, manual_reset and set_degraded, in  *)
(* any order.  A library: nothing calls it yet but its tests.              *)
(*                                                                         *)
(* A frame is the thresholds its detections reached, not their scores.  A  *)
(* frame whose sequence number is not new, or without a time, changes      *)
(* nothing and is no step here.  What is only reported is left out: peaks, *)
(* zones, times of update, and which of smoke and fire came first.         *)
(***************************************************************************)
EXTENDS Integers, Sequences, FiniteSets

CONSTANTS
    Window,          \* persistence_window_frames
    Required,        \* persistence_required_frames
    HighTime,        \* confirmed_fire_duration_ns
    VisibleTime,     \* confirmed_visible_duration_ns
    BothTime,        \* one second of fire and smoke together
    GraceTime,       \* clear_grace_period_ns
    GrowthTime,      \* growth_window_ns
    GrowthFrames,    \* boxes a growth is computed from
    Evidence,        \* the frames the camera may show
    Gaps,            \* time between two frames
    MaxTime          \* bound: the clock

\* fire: 0, or the thresholds reached: 1 suspected, 2 confirmed.  box: a valid fire box of
\* at least the minimal area.
Detections == [fire : 0..2, smoke : BOOLEAN, box : BOOLEAN]

ASSUME EngineAssumption ==
    /\ Window \in Nat /\ Required \in Nat \ {0}
    /\ HighTime \in Nat /\ VisibleTime \in Nat /\ BothTime \in Nat /\ GraceTime \in Nat
    /\ GrowthTime \in Nat /\ GrowthFrames \in Nat
    /\ Evidence \subseteq Detections
    /\ Gaps \subseteq Nat \ {0}
    /\ MaxTime \in Nat

VARIABLES
    clock,             \* monotonic_ns of the last frame
    incident_id,       \* the incident of the snapshot, and incident_counter_
    hazard_state,
    response_state,
    first_detection,
    was_confirmed,
    window,            \* the last frames, with their times
    last_relevant,
    high_start,        \* sustained_high_fire_start_ns_
    degraded,
    seen               \* history: relevant frames processed since the last manual_reset

snapshot == <<incident_id, hazard_state, response_state, first_detection, was_confirmed>>
vars     == <<clock, snapshot, window, last_relevant, high_start, degraded, seen>>

Init ==
    /\ clock = 0
    /\ incident_id = 0 /\ hazard_state = "CLEAR" /\ response_state = "IDLE"
    /\ first_detection = 0 /\ was_confirmed = FALSE
    /\ window = << >> /\ last_relevant = 0 /\ high_start = 0
    /\ degraded = FALSE
    /\ seen = 0

Relevant(e) == e.fire > 0 \/ e.smoke

\* persistence_count()
Hits(frames) == Cardinality({k \in DOMAIN frames : Relevant(frames[k].shown)})

\* What the window keeps once a frame is appended.
Pushed(e, now) ==
    LET all == Append(window, [shown |-> e, time |-> now])
    IN IF Len(all) > Window THEN Tail(all) ELSE all

-----------------------------------------------------------------------------
(* process(): the snapshot goes through the stages of the method in order. *)

Opened(now) == [id |-> incident_id + 1, hazard |-> "SUSPECTED", response |-> "IDLE",
                first |-> now, confirmed |-> FALSE]

Kept == [id |-> incident_id, hazard |-> hazard_state, response |-> response_state,
         first |-> first_detection, confirmed |-> was_confirmed]

\* Variant: a confirmed incident is verified again.
VerifiedAgain(i, hits) == IF hits >= Required THEN [i EXCEPT !.hazard = "VERIFYING"] ELSE i

Verified(i, hits) ==
    IF ~i.confirmed /\ hits >= Required THEN [i EXCEPT !.hazard = "VERIFYING"] ELSE i

\* update_growth(): boxes enough in the growth window may or may not show a stable growth.
GrowthStable(frames, now) ==
    LET boxes == {k \in DOMAIN frames : frames[k].shown.box /\ now - frames[k].time <= GrowthTime}
    IN IF Cardinality(boxes) >= GrowthFrames THEN BOOLEAN ELSE {FALSE}

\* The frames with both fire and smoke; the first of them is the oldest in the window.
FireAndSmoke(frames, now) ==
    LET both == {k \in DOMAIN frames : frames[k].shown.fire > 0 /\ frames[k].shown.smoke}
    IN /\ Cardinality(both) >= Required
       /\ \E k \in both : now - frames[k].time >= BothTime

\* confirmation_rule_met(), but for the growth.
RuleMet(i, frames, high, now) ==
    \/ high # 0 /\ now - high >= HighTime
    \/ i.first # 0 /\ now - i.first >= VisibleTime /\ Hits(frames) >= Required
    \/ FireAndSmoke(frames, now)

\* confirm_visual()
Confirm(i) == [i EXCEPT !.hazard = "CONFIRMED", !.response = "AWAITING_RESPONSE", !.confirmed = TRUE]

Confirmed(i, met) == IF ~i.confirmed /\ i.hazard = "VERIFYING" /\ met THEN Confirm(i) ELSE i

\* Variant: a fire that is seen again is confirmed again.
SeenAgainConfirms(i) == IF i.hazard = "VISUAL_SIGNATURE_LOST" /\ i.confirmed THEN Confirm(i) ELSE i

SeenAgain(i) ==
    IF i.hazard = "VISUAL_SIGNATURE_LOST" /\ i.confirmed THEN [i EXCEPT !.hazard = "CONFIRMED"] ELSE i

\* Out of sight for the grace period: a confirmed fire is lost, a suspicion cleared.
OutOfSight(i) ==
    IF i.confirmed THEN [i EXCEPT !.hazard = "VISUAL_SIGNATURE_LOST"]
                   ELSE [i EXCEPT !.hazard = "CLEAR", !.response = "IDLE"]

Settled(i, relevant, now) ==
    IF relevant THEN SeenAgain(i)
    ELSE IF last_relevant # 0 /\ now - last_relevant >= GraceTime THEN OutOfSight(i) ELSE i

\* Since when the fire is above the confirming threshold in every frame.
HighStart(e, opens, now) ==
    IF e.fire < 2 THEN 0 ELSE IF opens \/ high_start = 0 THEN now ELSE high_start

Process(e, gap) ==
    LET now      == clock + gap
        frames   == Pushed(e, now)
        relevant == Relevant(e)
        opens    == relevant /\ hazard_state \in {"CLEAR", "RESOLVED"}
        high     == HighStart(e, opens, now)
        verified == Verified(IF opens THEN Opened(now) ELSE Kept, Hits(frames))
    IN /\ ~degraded
       /\ now <= MaxTime
       /\ clock' = now
       /\ window' = frames
       /\ last_relevant' = IF relevant THEN now ELSE last_relevant
       /\ high_start' = high
       /\ \E growth \in GrowthStable(frames, now) :
            LET i == Settled(Confirmed(verified, RuleMet(verified, frames, high, now) \/ growth), relevant, now)
            IN /\ incident_id' = i.id
               /\ hazard_state' = i.hazard
               /\ response_state' = i.response
               /\ first_detection' = i.first
               /\ was_confirmed' = i.confirmed
       /\ seen' = IF relevant THEN seen + 1 ELSE seen
       /\ UNCHANGED degraded

\* A frame while degraded is not looked at.
ProcessDegraded(gap) ==
    /\ degraded
    /\ clock + gap <= MaxTime
    /\ clock' = clock + gap
    /\ hazard_state' = "DEGRADED"
    /\ UNCHANGED <<incident_id, response_state, first_detection, was_confirmed>>
    /\ UNCHANGED <<window, last_relevant, high_start, degraded, seen>>

-----------------------------------------------------------------------------
(* The owner's operations.  The engine never sets a CALL state itself. *)

Cancel ==
    /\ was_confirmed
    /\ response_state \notin {"CALL_CONNECTED", "CALL_COMPLETED"}
    /\ response_state' = "CANCELLED"
    /\ UNCHANGED <<clock, incident_id, hazard_state, first_detection, was_confirmed>>
    /\ UNCHANGED <<window, last_relevant, high_start, degraded, seen>>

ConfirmOccupant ==
    /\ was_confirmed /\ response_state # "CANCELLED"
    /\ response_state' = "ESCALATING"
    /\ UNCHANGED <<clock, incident_id, hazard_state, first_detection, was_confirmed>>
    /\ UNCHANGED <<window, last_relevant, high_start, degraded, seen>>

ManualReset ==
    /\ response_state \in {"CANCELLED", "CALL_COMPLETED", "CALL_FAILED"}
    /\ hazard_state' = "RESOLVED"
    /\ window' = << >>
    /\ seen' = 0
    /\ UNCHANGED <<clock, incident_id, response_state, first_detection, was_confirmed>>
    /\ UNCHANGED <<last_relevant, high_start, degraded>>

\* What the engine shows when it is no longer degraded.
Recovered == IF was_confirmed THEN "CONFIRMED" ELSE "CLEAR"

SetDegraded(value) ==
    /\ degraded' = value
    /\ hazard_state' = IF value THEN "DEGRADED" ELSE Recovered
    /\ UNCHANGED <<clock, incident_id, response_state, first_detection, was_confirmed>>
    /\ UNCHANGED <<window, last_relevant, high_start, seen>>

Next ==
    \/ \E gap \in Gaps : ProcessDegraded(gap) \/ \E e \in Evidence : Process(e, gap)
    \/ Cancel \/ ConfirmOccupant \/ ManualReset
    \/ \E value \in BOOLEAN : SetDegraded(value)

Spec == Init /\ [][Next]_vars

-----------------------------------------------------------------------------
(* Properties *)

Frames == [shown : Detections, time : Nat]

\* Every variable has its type; times are those of frames and the window is bounded.
TypeOK ==
    /\ clock \in Nat /\ incident_id \in Nat /\ seen \in Nat
    /\ hazard_state \in {"CLEAR", "SUSPECTED", "VERIFYING", "CONFIRMED", "VISUAL_SIGNATURE_LOST",
                         "RESOLVED", "DEGRADED"}
    /\ response_state \in {"IDLE", "AWAITING_RESPONSE", "CANCELLED", "ESCALATING"}
    /\ first_detection \in 0..clock /\ last_relevant \in 0..clock /\ high_start \in 0..clock
    /\ was_confirmed \in BOOLEAN /\ degraded \in BOOLEAN
    /\ window \in Seq(Frames) /\ Len(window) <= Window

\* Through every mix of frames, degraded periods and the owner's calls, what is shown agrees
\* with what happened: unless degraded, a state of a confirmed fire is shown exactly when it
\* was confirmed, and a response is under way exactly then (the stages of process() and
\* set_degraded each decide by another of the two).
ShowsHistory ==
    /\ hazard_state # "DEGRADED" =>
         (was_confirmed <=> hazard_state \in {"CONFIRMED", "VISUAL_SIGNATURE_LOST", "RESOLVED"})
    /\ was_confirmed <=> response_state # "IDLE"

\* The occupant is asked once for an incident, with Required relevant frames at least since
\* the last reset, whatever answers, losses of sight and degraded periods follow; and a
\* confirmed incident is only replaced by another after it was cancelled.
AskedOnce ==
    [][/\ response_state' = "AWAITING_RESPONSE" /\ response_state # "AWAITING_RESPONSE" =>
            /\ ~was_confirmed \/ incident_id' # incident_id
            /\ seen' >= Required
       /\ incident_id' # incident_id /\ was_confirmed =>
            response_state = "CANCELLED" /\ ~degraded]_vars
=============================================================================
