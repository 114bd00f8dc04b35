----------------------------- MODULE EdgeReporting -----------------------------
(***************************************************************************)
(* The edge's main loop (poc/pi/ignis_poc/edge.py, run) and what becomes   *)
(* of its reports: per camera frame one step of the verifier, here the     *)
(* abstract LocalIncident, then the packets of the frame one after the     *)
(* other, the local log in between.  The loop is one thread: a send that   *)
(* has to wait makes the next frame wait.                                  *)
(*                                                                         *)
(* The wire is TCP's buffers: it is in order and bounded, sendall() waits  *)
(* while it is full, and nothing is lost but with the connection.  What a  *)
(* superseded connection had buffered at the backend is DeviceLink's       *)
(* subject; here it was dispatched in time or is lost.  Of the backend's   *)
(* store only a row's response is kept, the answers that                   *)
(* IncidentCoordination tells apart being one state, ANSWERED.             *)
(***************************************************************************)
EXTENDS Naturals, Sequences

CONSTANTS
    MaxIncidents,    \* bound: incidents the verifier opens
    WireSize,        \* packets the buffers of a connection hold
    MaxFaults        \* bound: outages, backend restarts and disarmings

ASSUME ReportingAssumption ==
    /\ MaxIncidents \in Nat \ {0}
    /\ WireSize \in Nat \ {0}
    /\ MaxFaults \in Nat

Ids == 1..MaxIncidents

VARIABLES
    \* the verifier
    counter, incident_id, hazard_state,
    \* the loop
    pc,            \* "capture", or the packet that is to be sent next
    last_state,
    logged,        \* per incident, the states in the local log
    \* BackendStream
    conn,          \* "none", "open", or "broken": dead, and the edge does not know yet
    backoff,       \* next_reconnect is in the future
    network,       \* "up", "down" (connections fail) or "silent" (they just wait)
    wire,
    \* the backend
    armed,
    response,      \* per incident, response_state, "none" without a row
    timers,        \* incidents with a response timer
    ignored,       \* history: incidents with an update dropped while not armed
    faults

verifierVars == <<counter, incident_id, hazard_state>>
loopVars     == <<pc, last_state, logged>>
streamVars   == <<conn, backoff, wire>>
backendVars  == <<armed, response, timers, ignored>>
vars == <<verifierVars, loopVars, streamVars, network, backendVars, faults>>

Verifier == INSTANCE LocalIncident

Hazards == {"CLEAR", "SUSPECTED", "VERIFYING", "CONFIRMED", "VISUAL_SIGNATURE_LOST"}
Kinds   == {"FRAME", "DETECTIONS", "INCIDENT_UPDATE", "INCIDENT_TIMELINE_EVENT", "HEALTH_UPDATE"}

Telling == {"INCIDENT_UPDATE", "INCIDENT_TIMELINE_EVENT"}

\* Frames, detections and health change nothing here but the room in the buffers: they are
\* all TELEMETRY.  opener: the connection was opened to send the packet.
Packet == [type : {"TELEMETRY"} \cup Telling, incident_id : 0..MaxIncidents,
           hazard_state : Hazards, opener : BOOLEAN]

\* The loop starts with a first connect().
Init ==
    /\ Verifier!Init
    /\ pc = "capture" /\ last_state = "CLEAR"
    /\ logged = [k \in Ids |-> {}]
    /\ network \in {"up", "down"}
    /\ conn = IF network = "up" THEN "open" ELSE "none"
    /\ backoff = (network # "up")
    /\ wire = << >>
    /\ armed = FALSE
    /\ response = [k \in Ids |-> "none"]
    /\ timers = {} /\ ignored = {}
    /\ faults = 0

Fault == faults < MaxFaults /\ faults' = faults + 1

-----------------------------------------------------------------------------
(* The loop *)

\* A frame is read and looked at; the verifier may change its mind by one step.
Capture ==
    /\ pc = "capture"
    /\ \/ Verifier!Next /\ counter' <= MaxIncidents
       \/ UNCHANGED verifierVars
    /\ pc' = "FRAME"
    /\ UNCHANGED <<last_state, logged, streamVars, network, backendVars, faults>>

\* Variant: the event is sent before the update.
AfterEventFirst(kind) ==
    CASE kind = "FRAME"                   -> "DETECTIONS"
      [] kind = "DETECTIONS"              -> IF incident_id = 0 THEN "HEALTH_UPDATE"
                                             ELSE IF hazard_state # last_state
                                             THEN "INCIDENT_TIMELINE_EVENT" ELSE "INCIDENT_UPDATE"
      [] kind = "INCIDENT_TIMELINE_EVENT" -> "INCIDENT_UPDATE"
      [] kind = "INCIDENT_UPDATE"         -> "HEALTH_UPDATE"
      [] kind = "HEALTH_UPDATE"           -> "capture"

\* The order of a frame's packets: an open incident is reported with every frame, its
\* event only when its state is new.
After(kind) ==
    CASE kind = "FRAME"                   -> "DETECTIONS"
      [] kind = "DETECTIONS"              -> IF incident_id # 0 THEN "INCIDENT_UPDATE" ELSE "HEALTH_UPDATE"
      [] kind = "INCIDENT_UPDATE"         -> IF hazard_state # last_state
                                             THEN "INCIDENT_TIMELINE_EVENT" ELSE "HEALTH_UPDATE"
      [] kind = "INCIDENT_TIMELINE_EVENT" -> "HEALTH_UPDATE"
      [] kind = "HEALTH_UPDATE"           -> "capture"

\* Variant: the log is written only when the laptop hears of it too.
LogWhenConnected == IF conn = "open" THEN [logged EXCEPT ![incident_id] = @ \cup {hazard_state}] ELSE logged

\* _append_local_log() of a new state.
Log == [logged EXCEPT ![incident_id] = @ \cup {hazard_state}]

\* send() has returned, whatever it returned: the loop goes on.  The log is written before
\* the event is sent, last_state after.
Sent ==
    /\ pc' = After(pc)
    /\ logged' = IF After(pc) = "INCIDENT_TIMELINE_EVENT" THEN Log ELSE logged
    /\ last_state' = IF pc = "INCIDENT_TIMELINE_EVENT" THEN hazard_state ELSE last_state
    /\ UNCHANGED <<verifierVars, network, backendVars, faults>>

Report(opener) ==
    IF pc \in Telling
    THEN [type |-> pc, incident_id |-> incident_id, hazard_state |-> hazard_state, opener |-> opener]
    ELSE [type |-> "TELEMETRY", incident_id |-> 0, hazard_state |-> "CLEAR", opener |-> FALSE]

\* The packet is written.  While the buffers are full, sendall() waits.
Write ==
    /\ pc # "capture" /\ conn = "open"
    /\ Len(wire) < WireSize
    /\ wire' = Append(wire, Report(FALSE))
    /\ Sent
    /\ UNCHANGED <<conn, backoff>>

\* connect() opens a connection, HELLO is acknowledged and the packet written.
Connect ==
    /\ pc # "capture" /\ conn = "none" /\ ~backoff /\ network = "up"
    /\ conn' = "open"
    /\ wire' = <<Report(TRUE)>>
    /\ Sent
    /\ UNCHANGED backoff

\* Variant: the send is tried again until it succeeds.
RetryUntilConnected ==
    /\ pc # "capture" /\ conn = "none" /\ ~backoff /\ network # "up"
    /\ backoff' = TRUE
    /\ UNCHANGED <<verifierVars, loopVars, conn, wire, network, backendVars, faults>>

\* connect() fails, at once or after its timeout; the packet is dropped.
ConnectFails ==
    /\ pc # "capture" /\ conn = "none" /\ ~backoff /\ network # "up"
    /\ backoff' = TRUE
    /\ Sent
    /\ UNCHANGED <<conn, wire>>

\* Too early to try again: the packet is dropped.
Skip ==
    /\ pc # "capture" /\ conn = "none" /\ backoff
    /\ Sent
    /\ UNCHANGED streamVars

\* The kernel takes the packet for a connection that is dead.
WriteLost ==
    /\ pc # "capture" /\ conn = "broken"
    /\ Sent
    /\ UNCHANGED streamVars

\* sendall() raises: the connection is closed, the packet dropped.
WriteFails ==
    /\ pc # "capture" /\ conn = "broken"
    /\ conn' = "none" /\ backoff' = TRUE
    /\ Sent
    /\ UNCHANGED wire

\* Less than a second since the last health update: none is sent.
NoHealth ==
    /\ pc = "HEALTH_UPDATE"
    /\ pc' = "capture"
    /\ UNCHANGED <<verifierVars, last_state, logged, streamVars, network, backendVars, faults>>

Loop == Capture \/ Write \/ Connect \/ ConnectFails \/ Skip \/ WriteLost \/ WriteFails \/ NoHealth

\* Two seconds pass; the loop is somewhere between two sends.
BackoffOver ==
    /\ backoff
    /\ backoff' = FALSE
    /\ UNCHANGED <<verifierVars, loopVars, conn, wire, network, backendVars, faults>>

-----------------------------------------------------------------------------
(* The network *)

\* A connection in use dies with what it holds; the edge sees it at a later send.
Break ==
    /\ conn' = IF conn = "open" THEN "broken" ELSE conn
    /\ wire' = << >>

Outage(kind) ==
    /\ network = "up" /\ Fault
    /\ network' = kind
    /\ IF kind = "down" THEN Break ELSE UNCHANGED <<conn, wire>>
    /\ UNCHANGED <<verifierVars, loopVars, backoff, backendVars>>

\* The kernel gives up a connection whose packets are not acknowledged.
KernelGivesUp ==
    /\ network = "silent" /\ conn = "open"
    /\ Break
    /\ UNCHANGED <<verifierVars, loopVars, backoff, network, backendVars, faults>>

NetworkBack ==
    /\ network # "up"
    /\ network' = "up"
    /\ UNCHANGED <<verifierVars, loopVars, streamVars, backendVars, faults>>

-----------------------------------------------------------------------------
(* The backend *)

\* The device decides the response of a row until the backend has an answer.
Merged(packet) ==
    IF response[packet.incident_id] = "ANSWERED" THEN "ANSWERED"
    ELSE IF packet.hazard_state \in {"CONFIRMED", "VISUAL_SIGNATURE_LOST"} THEN "AWAITING_RESPONSE"
    ELSE "IDLE"

\* Variant: the timer starts only as the row begins to wait.
TimersOnTurn(packet) ==
    IF Merged(packet) = "AWAITING_RESPONSE" /\ response[packet.incident_id] # "AWAITING_RESPONSE"
    THEN timers \cup {packet.incident_id} ELSE timers

\* observe(): an awaiting incident has a timer, the one it has or a new one.
Observed(packet) ==
    IF Merged(packet) = "AWAITING_RESPONSE" THEN timers \cup {packet.incident_id} ELSE timers

\* _dispatch() of the next packet; an event of an incident without a row is an error that
\* ends the connection with what is behind it.
Dispatch ==
    /\ conn = "open" /\ network = "up" /\ wire # << >>
    /\ LET packet == Head(wire)
           k      == packet.incident_id
           rejected == packet.type = "INCIDENT_TIMELINE_EVENT" /\ response[k] = "none"
       IN /\ IF rejected THEN Break ELSE wire' = Tail(wire) /\ UNCHANGED conn
          /\ IF packet.type = "INCIDENT_UPDATE" /\ armed
             THEN /\ response' = [response EXCEPT ![k] = Merged(packet)]
                  /\ timers' = Observed(packet)
             ELSE UNCHANGED <<response, timers>>
          /\ ignored' = IF packet.type = "INCIDENT_UPDATE" /\ ~armed THEN ignored \cup {k} ELSE ignored
    /\ UNCHANGED <<verifierVars, loopVars, backoff, network, armed, faults>>

\* The timer fires or the occupant answers.
Answer(k) ==
    /\ response[k] = "AWAITING_RESPONSE"
    /\ response' = [response EXCEPT ![k] = "ANSWERED"]
    /\ timers' = timers \ {k}
    /\ UNCHANGED <<verifierVars, loopVars, streamVars, network, armed, ignored, faults>>

Arm ==
    /\ ~armed
    /\ armed' = TRUE
    /\ UNCHANGED <<verifierVars, loopVars, streamVars, network, response, timers, ignored, faults>>

Disarm ==
    /\ armed /\ Fault
    /\ armed' = FALSE
    /\ UNCHANGED <<verifierVars, loopVars, streamVars, network, response, timers, ignored>>

\* The process starts anew: connections, timers and the arming switch are gone.
Restart ==
    /\ Fault
    /\ Break
    /\ timers' = {} /\ armed' = FALSE
    /\ UNCHANGED <<verifierVars, loopVars, backoff, network, response, ignored>>

Next ==
    \/ Loop \/ BackoffOver
    \/ Outage("down") \/ Outage("silent") \/ KernelGivesUp \/ NetworkBack
    \/ Dispatch \/ (\E k \in Ids : Answer(k)) \/ Arm \/ Disarm \/ Restart

Spec == Init /\ [][Next]_vars

\* The loop and the backend's receiver run, time passes, the kernel gives up a silent
\* connection in the end, and a dead one does not swallow packets for ever.  The network
\* may stay away, the operator may never arm.
FairSpec ==
    /\ Spec
    /\ WF_vars(Loop) /\ SF_vars(WriteFails)
    /\ WF_vars(BackoffOver) /\ WF_vars(KernelGivesUp) /\ WF_vars(Dispatch)

-----------------------------------------------------------------------------
(* Properties *)

\* Every variable has its type, and only an open connection holds packets.
TypeOK ==
    /\ counter \in 0..MaxIncidents /\ incident_id \in 0..counter
    /\ hazard_state \in Hazards /\ (incident_id = 0 <=> hazard_state = "CLEAR")
    /\ pc \in Kinds \cup {"capture"} /\ last_state \in Hazards
    /\ logged \in [Ids -> SUBSET Hazards]
    /\ conn \in {"none", "open", "broken"}
    /\ backoff \in BOOLEAN
    /\ network \in {"up", "down", "silent"}
    /\ wire \in Seq(Packet) /\ Len(wire) <= WireSize
    /\ conn # "open" => wire = << >>
    /\ armed \in BOOLEAN
    /\ response \in [Ids -> {"none", "IDLE", "AWAITING_RESPONSE", "ANSWERED"}]
    /\ timers \subseteq Ids /\ ignored \subseteq Ids
    /\ faults \in 0..MaxFaults

\* What the incident open now has gone through up to its state.
Course ==
    CASE hazard_state = "SUSPECTED" -> {"SUSPECTED"}
      [] hazard_state = "VERIFYING" -> {"SUSPECTED", "VERIFYING"}
      [] hazard_state = "CONFIRMED" -> {"SUSPECTED", "VERIFYING", "CONFIRMED"}
      [] hazard_state = "VISUAL_SIGNATURE_LOST" ->
             {"SUSPECTED", "VERIFYING", "CONFIRMED", "VISUAL_SIGNATURE_LOST"}
      [] OTHER -> {}

\* The local log tells the whole course of the open incident when a frame is done, whatever
\* became of the packets; only the first suspicion may be missing, where the incident before
\* ended as one (last_state outlives the incident).  No event is sent that the log does not hold.
LogIsComplete ==
    /\ pc = "capture" /\ incident_id # 0 =>
         \/ Course \subseteq logged[incident_id]
         \/ /\ Course \ {"SUSPECTED"} \subseteq logged[incident_id]
            /\ incident_id > 1
            /\ "VERIFYING" \notin logged[incident_id - 1]
    /\ \A i \in DOMAIN wire : wire[i].type = "INCIDENT_TIMELINE_EVENT" =>
         wire[i].hazard_state \in logged[wire[i].incident_id]

\* An event follows its incident's update on the same connection, unless a disarmed backend
\* ignored that; only the packet that opens a connection, because the backoff ended between
\* the two, can be an event nobody announced.  Any other is what makes the backend end the
\* connection (tcp_server.py, "timeline event references unknown incident").
EventsAreAnnounced ==
    \A i \in DOMAIN wire :
        LET k == wire[i].incident_id
        IN wire[i].type = "INCIDENT_TIMELINE_EVENT" /\ ~wire[i].opener =>
             \/ response[k] # "none" \/ k \in ignored
             \/ \E j \in 1..(i - 1) : wire[j].type = "INCIDENT_UPDATE" /\ wire[j].incident_id = k

\* Inference goes on: the loop comes back to the camera again and again, whatever the
\* network and the backend do ("local inference continues").
LoopReturns == []<>(pc = "capture")

\* An incident that stays confirmed is answered or has its timer for good, if network and
\* arming last and its state settles: rejected or lost packets and outages, and the backend's
\* restarts, which forget every timer and restore none from the rows that wait for an answer,
\* are made good by the update in every frame.  (A state that changed at every single
\* reconnection, between the update's send and the event's, would have each event rejected.)
ConfirmedIsServed ==
    \A k \in Ids, state \in {"CONFIRMED", "VISUAL_SIGNATURE_LOST"} :
        <>[](network = "up" /\ armed /\ incident_id = k /\ hazard_state = state)
            => <>[](response[k] = "ANSWERED" \/ (response[k] = "AWAITING_RESPONSE" /\ k \in timers))
=============================================================================
