-------------------------- MODULE EdgeReporting_proofs --------------------------
(***************************************************************************)
(* Proofs about EdgeReporting, for any number of incidents, faults and     *)
(* packets in flight: what the local log holds, and which events the       *)
(* backend can be told of an incident it has no row of.                    *)
(***************************************************************************)
EXTENDS EdgeReporting, TLAPS

-----------------------------------------------------------------------------
(* Types *)

\* What is told of an incident names one, in the loop and on the wire.
NamesOne ==
    /\ pc \in Telling => incident_id # 0
    /\ \A i \in DOMAIN wire : wire[i].type \in Telling => wire[i].incident_id \in Ids

\* Who tells of an incident tells of an open one.
LEMMA TellingOpen == TypeOK /\ NamesOne /\ pc \in Telling => incident_id \in Ids
  BY ReportingAssumption DEF TypeOK, NamesOne, Ids

\* A packet made of what the verifier says now.
Made(packet) ==
    /\ packet.type \in Telling => /\ packet.type = pc
                                  /\ packet.incident_id = incident_id /\ incident_id \in Ids
                                  /\ packet.hazard_state = hazard_state
    /\ pc \in Telling => packet.type = pc

\* So is what the loop sends, and it says whether it opens the connection.
LEMMA ReportMade ==
  ASSUME TypeOK, NamesOne, NEW opener \in BOOLEAN, NEW packet, packet = Report(opener)
  PROVE  packet \in Packet /\ Made(packet) /\ (packet.type \in Telling => packet.opener = opener)
<1>1. incident_id \in 0..MaxIncidents /\ hazard_state \in Hazards
  BY ReportingAssumption DEF TypeOK
<1>2. CASE pc \in Telling
  <2>1. packet = [type |-> pc, incident_id |-> incident_id, hazard_state |-> hazard_state, opener |-> opener]
    BY <1>2 DEF Report
  <2>2. incident_id \in Ids
    BY <1>1, <1>2 DEF NamesOne, Ids
  <2>3. QED
    BY <1>1, <1>2, <2>1, <2>2 DEF Packet, Made
<1>3. CASE pc \notin Telling
  <2>1. packet = [type |-> "TELEMETRY", incident_id |-> 0, hazard_state |-> "CLEAR", opener |-> FALSE]
    BY <1>3 DEF Report
  <2>2. 0 \in 0..MaxIncidents /\ "CLEAR" \in Hazards
    BY ReportingAssumption DEF Hazards
  <2>3. QED
    BY <1>3, <2>1, <2>2 DEF Packet, Telling, Made
<1>4. QED
  BY <1>2, <1>3

\* A step of the loop goes on to the packet After names and leaves the rest alone.
LEMMA SentTypes ==
  ASSUME TypeOK, NamesOne, pc # "capture", Sent
  PROVE  /\ pc' \in Kinds \cup {"capture"} /\ last_state' \in Hazards
         /\ logged' \in [Ids -> SUBSET Hazards]
         /\ pc' \in Telling => incident_id' # 0
         /\ UNCHANGED <<counter, incident_id, hazard_state, network, armed, response, timers, ignored, faults>>
<1>1. pc \in Kinds
  BY DEF TypeOK
<1>2. After(pc) \in Kinds \cup {"capture"}
  BY <1>1 DEF After, Kinds
<1>3. After(pc) \in Telling => incident_id # 0
  BY <1>1 DEF After, Kinds, Telling, NamesOne
<1>4. Log \in [Ids -> SUBSET Hazards]
  BY DEF TypeOK, Log
<1>5. QED
  BY <1>2, <1>3, <1>4 DEF Sent, TypeOK, verifierVars, backendVars

\* What a step of the loop does to the connection.
LEMMA LoopWire ==
  ASSUME TypeOK, NamesOne, Loop, pc # "capture", ~NoHealth
  PROVE  /\ Sent /\ backoff' \in BOOLEAN
         /\ \/ /\ conn = "open" /\ conn' = "open"
               /\ \E packet \in Packet :
                    /\ Made(packet) /\ (packet.type \in Telling => ~packet.opener)
                    /\ Len(wire) < WireSize /\ wire' = Append(wire, packet)
            \/ /\ conn # "open" /\ conn' = "open"
               /\ \E packet \in Packet :
                    Made(packet) /\ (packet.type \in Telling => packet.opener) /\ wire' = <<packet>>
            \/ conn # "open" /\ conn' \in {"none", "broken"} /\ wire' = wire
<1>1. CASE Write
  BY <1>1, ReportMade DEF Write, TypeOK
<1>2. CASE Connect
  BY <1>2, ReportMade DEF Connect, TypeOK
<1>3. CASE ConnectFails
  BY <1>3 DEF ConnectFails
<1>4. CASE Skip
  BY <1>4 DEF Skip, streamVars, TypeOK
<1>5. CASE WriteLost
  BY <1>5 DEF WriteLost, streamVars, TypeOK
<1>6. CASE WriteFails
  BY <1>6 DEF WriteFails
<1>7. QED
  BY <1>1, <1>2, <1>3, <1>4, <1>5, <1>6 DEF Loop, Capture

\* What the steps of the network and the backend do to it.
LEMMA OtherWire ==
  ASSUME TypeOK,
         \/ Outage("down") \/ Outage("silent") \/ KernelGivesUp \/ NetworkBack
         \/ Dispatch \/ Arm \/ Disarm \/ Restart \/ BackoffOver
         \/ \E k \in Ids : Answer(k)
  PROVE  /\ UNCHANGED <<counter, incident_id, hazard_state, pc, last_state, logged>>
         /\ \/ UNCHANGED <<conn, wire>>
            \/ conn' \in {conn, "broken"} /\ conn' # "open" /\ wire' = << >>
            \/ wire # << >> /\ conn = "open" /\ conn' = conn /\ wire' = Tail(wire)
<1>1. CASE Dispatch
  BY <1>1 DEF Dispatch, Break, verifierVars, loopVars, TypeOK
<1>2. CASE Outage("down") \/ KernelGivesUp \/ Restart
  BY <1>2 DEF Outage, KernelGivesUp, Restart, Break, verifierVars, loopVars, TypeOK
<1>3. CASE Outage("silent") \/ NetworkBack \/ Arm \/ Disarm \/ BackoffOver \/ \E k \in Ids : Answer(k)
  BY <1>3 DEF Outage, NetworkBack, Arm, Disarm, BackoffOver, Answer, verifierVars, loopVars, streamVars
<1>4. QED
  BY <1>1, <1>2, <1>3

\* Every variable keeps its type, only an open connection holds packets, and what is told of an
\* incident names one.
THEOREM ReportingType == Spec => [](TypeOK /\ NamesOne)
<1> USE ReportingAssumption
<1>1. Init => TypeOK /\ NamesOne
  <2> SUFFICES ASSUME Init PROVE TypeOK /\ NamesOne
    OBVIOUS
  <2>1. 0 \in 0..MaxIncidents /\ 0 \in 0..MaxFaults
    OBVIOUS
  <2>2. wire \in Seq(Packet) /\ Len(wire) <= WireSize /\ DOMAIN wire = {}
    BY DEF Init
  <2>3. counter = 0 /\ incident_id = 0 /\ hazard_state = "CLEAR" /\ 0 \in 0..0
    BY DEF Init, Verifier!Init
  <2>4. conn \in {"none", "open", "broken"} /\ backoff \in BOOLEAN
    BY DEF Init
  <2>5. QED
    BY <2>1, <2>2, <2>3, <2>4 DEF Init, TypeOK, NamesOne, Hazards, Telling
<1>2. TypeOK /\ NamesOne /\ [Next]_vars => (TypeOK /\ NamesOne)'
  <2> SUFFICES ASSUME TypeOK, NamesOne, [Next]_vars PROVE TypeOK' /\ NamesOne'
    OBVIOUS
  <2>1. CASE Capture
    <3>1. counter' \in 0..MaxIncidents /\ incident_id' \in 0..counter'
      BY <2>1 DEF Capture, Verifier!Next, Verifier!Open, Verifier!Advance, Verifier!Move, Verifier!End,
            verifierVars, TypeOK
    <3>2. hazard_state' \in Hazards /\ (incident_id' = 0 <=> hazard_state' = "CLEAR")
      BY <2>1 DEF Capture, Verifier!Next, Verifier!Open, Verifier!Advance, Verifier!Move, Verifier!End,
            verifierVars, TypeOK, Hazards
    <3>3. pc' = "FRAME" /\ UNCHANGED <<last_state, logged, conn, backoff, wire, network, armed, response, timers, ignored, faults>>
      BY <2>1 DEF Capture, streamVars, backendVars
    <3>4. QED
      BY <3>1, <3>2, <3>3 DEF TypeOK, NamesOne, Kinds, Telling
  <2>2. CASE NoHealth
    BY <2>2 DEF NoHealth, TypeOK, NamesOne, Telling, verifierVars, streamVars, backendVars
  <2>3. CASE Loop /\ pc # "capture" /\ ~NoHealth
    <3>1. Sent /\ backoff' \in BOOLEAN
      BY <2>3, LoopWire
    <3>2. wire' \in Seq(Packet) /\ Len(wire') <= WireSize /\ (conn' # "open" => wire' = << >>)
          /\ conn' \in {"none", "open", "broken"}
      <4>1. ASSUME NEW packet \in Packet, Len(wire) < WireSize, wire' = Append(wire, packet)
            PROVE  wire' \in Seq(Packet) /\ Len(wire') <= WireSize
        BY <4>1 DEF TypeOK
      <4>2. ASSUME NEW packet \in Packet, wire' = <<packet>>
            PROVE  wire' \in Seq(Packet) /\ Len(wire') <= WireSize
        BY <4>2
      <4>3. CASE conn # "open" /\ conn' \in {"none", "broken"} /\ wire' = wire
        BY <4>3 DEF TypeOK
      <4>4. QED
        BY <2>3, <4>1, <4>2, <4>3, LoopWire
    <3>3. ASSUME NEW i \in DOMAIN wire', wire'[i].type \in Telling PROVE wire'[i].incident_id \in Ids
      <4>1. ASSUME NEW packet \in Packet, Made(packet), wire' = Append(wire, packet)
            PROVE  wire'[i].incident_id \in Ids
        <5>1. wire \in Seq(Packet)
          BY DEF TypeOK
        <5>2. i \in 1..(Len(wire) + 1)
          BY <3>3, <4>1, <5>1
        <5>3. CASE i = Len(wire) + 1
          <6>1. wire'[i] = packet
            BY <4>1, <5>1, <5>3
          <6>2. QED
            BY <3>3, <4>1, <6>1 DEF Made
        <5>4. CASE i \in 1..Len(wire)
          <6>1. wire'[i] = wire[i] /\ i \in DOMAIN wire
            BY <4>1, <5>1, <5>4
          <6>2. QED
            BY <3>3, <6>1 DEF NamesOne
        <5>5. QED
          BY <5>1, <5>2, <5>3, <5>4
      <4>2. ASSUME NEW packet \in Packet, Made(packet), wire' = <<packet>>
            PROVE  wire'[i].incident_id \in Ids
        <5>1. wire'[i] = packet
          BY <3>3, <4>2
        <5>2. QED
          BY <3>3, <4>2, <5>1 DEF Made
      <4>3. CASE wire' = wire
        BY <3>3, <4>3 DEF NamesOne
      <4>4. QED
        BY <2>3, <4>1, <4>2, <4>3, LoopWire
    <3>4. /\ pc' \in Kinds \cup {"capture"} /\ last_state' \in Hazards
          /\ logged' \in [Ids -> SUBSET Hazards]
          /\ pc' \in Telling => incident_id' # 0
          /\ UNCHANGED <<counter, incident_id, hazard_state, network, armed, response, timers, ignored, faults>>
      BY <2>3, <3>1, SentTypes
    <3>5. QED
      BY <3>1, <3>2, <3>3, <3>4 DEF TypeOK, NamesOne
  <2>4. ASSUME \/ Outage("down") \/ Outage("silent") \/ KernelGivesUp \/ NetworkBack
               \/ Dispatch \/ Arm \/ Disarm \/ Restart \/ BackoffOver
               \/ \E k \in Ids : Answer(k)
        PROVE  TypeOK' /\ NamesOne'
    <3>1. UNCHANGED <<counter, incident_id, hazard_state, pc, last_state, logged>>
      BY <2>4, OtherWire
    <3>2. /\ wire' \in Seq(Packet) /\ Len(wire') <= WireSize /\ (conn' # "open" => wire' = << >>)
          /\ conn' \in {"none", "open", "broken"}
          /\ \A i \in DOMAIN wire' : wire'[i].type \in Telling => wire'[i].incident_id \in Ids
      <4>1. CASE UNCHANGED <<conn, wire>>
        BY <4>1 DEF TypeOK, NamesOne
      <4>2. CASE conn' \in {conn, "broken"} /\ wire' = << >>
        BY <4>2 DEF TypeOK
      <4>3. CASE wire # << >> /\ conn = "open" /\ conn' = conn /\ wire' = Tail(wire)
        <5>1. wire \in Seq(Packet) /\ Len(wire) <= WireSize /\ wire # << >>
          BY <4>3 DEF TypeOK
        <5>2. Tail(wire) \in Seq(Packet) /\ Len(Tail(wire)) <= WireSize
          BY <5>1
        <5>3. \A i \in DOMAIN Tail(wire) : i + 1 \in DOMAIN wire /\ Tail(wire)[i] = wire[i + 1]
          BY <5>1
        <5>4. QED
          BY <4>3, <5>2, <5>3 DEF TypeOK, NamesOne
      <4>4. QED
        BY <2>4, <4>1, <4>2, <4>3, OtherWire
    <3>3. /\ backoff' \in BOOLEAN /\ network' \in {"up", "down", "silent"} /\ armed' \in BOOLEAN
          /\ faults' \in {faults, faults + 1} /\ (faults' # faults => faults < MaxFaults)
      BY <2>4 DEF TypeOK, Outage, KernelGivesUp, NetworkBack, Dispatch, Arm, Disarm, Restart, BackoffOver,
            Answer, Fault, streamVars, backendVars
    <3>4. /\ response' \in [Ids -> {"none", "IDLE", "AWAITING_RESPONSE", "ANSWERED"}]
          /\ timers' \subseteq Ids /\ ignored' \subseteq Ids
      <4>1. CASE Dispatch
        <5>1. Head(wire) = wire[1] /\ 1 \in DOMAIN wire
          BY <4>1 DEF Dispatch, TypeOK
        <5>2. Head(wire).type = "INCIDENT_UPDATE" => Head(wire).incident_id \in Ids
          BY <5>1 DEF NamesOne, Telling
        <5>3. Merged(Head(wire)) \in {"IDLE", "AWAITING_RESPONSE", "ANSWERED"}
          BY DEF Merged
        <5>4. QED
          BY <4>1, <5>2, <5>3 DEF Dispatch, TypeOK, Observed
      <4>2. CASE ~Dispatch
        BY <2>4, <4>2 DEF TypeOK, Outage, KernelGivesUp, NetworkBack, Arm, Disarm, Restart, BackoffOver,
              Answer, backendVars
      <4>3. QED
        BY <4>1, <4>2
    <3>5. faults' \in 0..MaxFaults
      BY <3>3 DEF TypeOK
    <3>6. QED
      BY <3>1, <3>2, <3>3, <3>4, <3>5 DEF TypeOK, NamesOne
  <2>5. CASE UNCHANGED vars
    BY <2>5 DEF TypeOK, NamesOne, vars, verifierVars, loopVars, streamVars, backendVars
  <2>6. QED
    BY <2>1, <2>2, <2>3, <2>4, <2>5 DEF Next, Loop, Write, Connect, ConnectFails, Skip, WriteLost, WriteFails
<1>3. QED
  BY <1>1, <1>2, PTL DEF Spec

-----------------------------------------------------------------------------
(* The local log *)

\* The log of the open incident tells these states, but perhaps for the first suspicion, where
\* the incident before never was more than one.
Told(states) ==
    \/ states \subseteq logged[incident_id]
    \/ /\ states \ {"SUSPECTED"} \subseteq logged[incident_id]
       /\ incident_id > 1
       /\ "VERIFYING" \notin logged[incident_id - 1]

\* What has been told at each place of the loop: between the camera and the update last_state
\* says whether the present state still is to be.
LogInv ==
    /\ incident_id \in {0, counter}
    /\ \A k \in Ids : k > counter => logged[k] = {}
    /\ incident_id # 0 /\ pc \in {"capture", "HEALTH_UPDATE"} => last_state = hazard_state /\ Told(Course)
    /\ incident_id # 0 /\ pc \in {"FRAME", "DETECTIONS", "INCIDENT_UPDATE"} =>
         Told(IF last_state = hazard_state THEN Course ELSE Course \ {hazard_state})
    /\ pc = "INCIDENT_TIMELINE_EVENT" => hazard_state \in logged[incident_id] /\ Told(Course)
    /\ incident_id # 0 /\ hazard_state = "SUSPECTED" => "VERIFYING" \notin logged[incident_id]
    /\ incident_id = 0 /\ last_state = "SUSPECTED" => counter >= 1 /\ "VERIFYING" \notin logged[counter]

\* No event is on its way that the log does not hold.
WireLogged ==
    \A i \in DOMAIN wire : wire[i].type = "INCIDENT_TIMELINE_EVENT" =>
        wire[i].hazard_state \in logged[wire[i].incident_id]

\* The verifier takes one step of an incident, or opens one, or ends it, at the camera.
LEMMA CaptureTold == TypeOK /\ LogInv /\ Capture => LogInv'
<1> SUFFICES ASSUME TypeOK, LogInv, Capture PROVE LogInv'
  OBVIOUS
<1>0. /\ pc = "capture" /\ pc' = "FRAME" /\ last_state' = last_state /\ logged' = logged
      /\ counter \in 0..MaxIncidents /\ incident_id \in 0..counter /\ last_state \in Hazards
      /\ hazard_state \in Hazards /\ (incident_id = 0 <=> hazard_state = "CLEAR")
      /\ logged \in [Ids -> SUBSET Hazards]
  BY DEF Capture, TypeOK
<1>1. CASE UNCHANGED verifierVars
  BY <1>0, <1>1 DEF LogInv, verifierVars, Told, Course
<1>2. CASE Verifier!Open /\ counter' <= MaxIncidents
  <2>1. /\ incident_id = 0 /\ counter' = counter + 1 /\ incident_id' = counter + 1 /\ hazard_state' = "SUSPECTED"
        /\ counter + 1 \in Ids
    BY <1>0, <1>2, ReportingAssumption DEF Verifier!Open, Ids
  <2>2. logged[counter + 1] = {} /\ \A k \in Ids : k > counter + 1 => logged[k] = {}
    BY <1>0, <2>1 DEF LogInv, Ids
  <2>3. Course' = {"SUSPECTED"}
    BY <2>1 DEF Course
  <2>4. Told(IF last_state = hazard_state THEN Course ELSE Course \ {hazard_state})'
    <3>1. CASE last_state = "SUSPECTED"
      <4>1. counter >= 1 /\ "VERIFYING" \notin logged[counter]
        BY <2>1, <3>1 DEF LogInv
      <4>2. incident_id' - 1 = counter /\ incident_id' > 1
        BY <1>0, <2>1, <4>1
      <4>3. QED
        BY <1>0, <2>1, <2>3, <3>1, <4>1, <4>2 DEF Told
    <3>2. CASE last_state # "SUSPECTED"
      BY <1>0, <2>1, <2>3, <3>2 DEF Told
    <3>3. QED
      BY <3>1, <3>2
  <2>5. incident_id' # 0
    BY <1>0, <2>1
  <2>6. QED
    BY <1>0, <2>1, <2>2, <2>4, <2>5 DEF LogInv
<1>3. CASE Verifier!Advance
  <2>1. /\ incident_id # 0 /\ UNCHANGED <<counter, incident_id>>
        /\ last_state = hazard_state /\ Told(Course)
    BY <1>0, <1>3 DEF Verifier!Advance, Verifier!Move, LogInv
  <2>2. /\ hazard_state' # hazard_state /\ hazard_state' # "SUSPECTED"
        /\ Course' \ {hazard_state'} \subseteq Course
    BY <1>3 DEF Verifier!Advance, Verifier!Move, Course
  <2>3. Told(IF last_state = hazard_state THEN Course ELSE Course \ {hazard_state})'
    BY <1>0, <2>1, <2>2 DEF Told
  <2>4. QED
    BY <1>0, <2>1, <2>2, <2>3 DEF LogInv
<1>4. CASE Verifier!End
  <2>1. /\ incident_id # 0 /\ incident_id' = 0 /\ hazard_state' = "CLEAR" /\ counter' = counter
        /\ last_state = hazard_state /\ incident_id = counter
    BY <1>0, <1>4 DEF Verifier!End, LogInv
  <2>2. last_state = "SUSPECTED" => counter >= 1 /\ "VERIFYING" \notin logged[counter]
    BY <1>0, <2>1 DEF LogInv
  <2>3. QED
    BY <1>0, <2>1, <2>2 DEF LogInv
<1>5. QED
  BY <1>1, <1>2, <1>3, <1>4 DEF Capture, Verifier!Next

\* Going on to the next packet writes the log before the event and last_state after it.
LEMMA SentTold == TypeOK /\ NamesOne /\ LogInv /\ pc # "capture" /\ Sent => LogInv'
<1> SUFFICES ASSUME TypeOK, NamesOne, LogInv, pc # "capture", Sent PROVE LogInv'
  OBVIOUS
<1>0. /\ UNCHANGED <<counter, incident_id, hazard_state>> /\ pc' = After(pc)
      /\ logged' = IF After(pc) = "INCIDENT_TIMELINE_EVENT" THEN Log ELSE logged
      /\ last_state' = IF pc = "INCIDENT_TIMELINE_EVENT" THEN hazard_state ELSE last_state
      /\ pc \in Kinds /\ Course' = Course
      /\ incident_id \in 0..counter /\ counter \in 0..MaxIncidents /\ logged \in [Ids -> SUBSET Hazards]
      /\ (incident_id = 0 <=> hazard_state = "CLEAR")
  BY DEF Sent, verifierVars, TypeOK, Course
<1>1. CASE pc = "FRAME"
  BY <1>0, <1>1 DEF LogInv, After, Told
<1>2. CASE pc = "DETECTIONS"
  BY <1>0, <1>2 DEF LogInv, After, Told
<1>3. CASE pc = "INCIDENT_UPDATE" /\ hazard_state = last_state
  BY <1>0, <1>3 DEF LogInv, After, Told, NamesOne, Telling
<1>4. CASE pc = "INCIDENT_UPDATE" /\ hazard_state # last_state
  <2>1. incident_id # 0 /\ incident_id \in Ids /\ incident_id = counter
    BY <1>0, <1>4, ReportingAssumption DEF NamesOne, Telling, Ids, LogInv
  <2>2. /\ pc' = "INCIDENT_TIMELINE_EVENT" /\ last_state' = last_state
        /\ logged' = [logged EXCEPT ![incident_id] = @ \cup {hazard_state}]
    BY <1>0, <1>4 DEF After, Log
  <2>3. /\ logged'[incident_id] = logged[incident_id] \cup {hazard_state}
        /\ \A k \in Ids \ {incident_id} : logged'[k] = logged[k]
    BY <1>0, <2>1, <2>2
  <2>4. Told(Course \ {hazard_state})
    BY <1>4, <2>1 DEF LogInv
  <2>5. incident_id > 1 => incident_id - 1 \in Ids \ {incident_id}
    BY <2>1, ReportingAssumption DEF Ids
  <2>6. Told(Course)'
    <3>1. incident_id' = incident_id /\ Course' = Course
      BY <1>0
    <3>2. CASE Course \ {hazard_state} \subseteq logged[incident_id]
      BY <2>3, <3>1, <3>2 DEF Told
    <3>3. CASE /\ (Course \ {hazard_state}) \ {"SUSPECTED"} \subseteq logged[incident_id]
               /\ incident_id > 1 /\ "VERIFYING" \notin logged[incident_id - 1]
      <4>1. Course \ {"SUSPECTED"} \subseteq logged'[incident_id]
        BY <2>3, <3>3
      <4>2. "VERIFYING" \notin logged'[incident_id - 1]
        BY <2>3, <2>5, <3>3
      <4>3. QED
        BY <3>1, <3>3, <4>1, <4>2 DEF Told
    <3>4. QED
      BY <2>4, <3>2, <3>3 DEF Told
  <2>7. hazard_state = "SUSPECTED" => "VERIFYING" \notin logged'[incident_id]
    BY <2>1, <2>3 DEF LogInv
  <2>8. \A k \in Ids : k > counter => logged'[k] = {}
    BY <2>1, <2>3 DEF LogInv, Ids
  <2>9. QED
    BY <1>0, <2>1, <2>2, <2>3, <2>6, <2>7, <2>8 DEF LogInv
<1>5. CASE pc = "INCIDENT_TIMELINE_EVENT"
  <2>1. incident_id # 0
    BY <1>5 DEF NamesOne, Telling
  <2>2. QED
    BY <1>0, <1>5, <2>1 DEF LogInv, After, Told
<1>6. CASE pc = "HEALTH_UPDATE"
  BY <1>0, <1>6 DEF LogInv, After, Told
<1>7. QED
  BY <1>0, <1>1, <1>2, <1>3, <1>4, <1>5, <1>6 DEF Kinds

LEMMA LogInductive == TypeOK /\ NamesOne /\ LogInv /\ [Next]_vars => LogInv'
<1> SUFFICES ASSUME TypeOK, NamesOne, LogInv, [Next]_vars PROVE LogInv'
  OBVIOUS
<1>1. CASE Capture
  BY <1>1, CaptureTold
<1>2. CASE NoHealth
  BY <1>2 DEF NoHealth, LogInv, Told, Course, verifierVars
<1>3. CASE Loop /\ pc # "capture" /\ ~NoHealth
  BY <1>3, LoopWire, SentTold
<1>4. ASSUME UNCHANGED <<counter, incident_id, hazard_state, pc, last_state, logged>> PROVE LogInv'
  BY <1>4 DEF LogInv, Told, Course
<1>5. CASE UNCHANGED vars
  BY <1>4, <1>5 DEF vars, verifierVars, loopVars
<1>6. QED
  BY <1>1, <1>2, <1>3, <1>4, <1>5, OtherWire
     DEF Next, Loop, Write, Connect, ConnectFails, Skip, WriteLost, WriteFails

\* An event is written when its state is in the log, and the log only grows.
LEMMA WireInductive == TypeOK /\ NamesOne /\ LogInv /\ WireLogged /\ [Next]_vars => WireLogged'
<1> SUFFICES ASSUME TypeOK, NamesOne, LogInv, WireLogged, [Next]_vars,
                    NEW i \in DOMAIN wire', wire'[i].type = "INCIDENT_TIMELINE_EVENT"
             PROVE  wire'[i].hazard_state \in logged'[wire'[i].incident_id]
  BY DEF WireLogged
<1>0. wire \in Seq(Packet) /\ logged \in [Ids -> SUBSET Hazards]
  BY DEF TypeOK
<1>1. ASSUME NEW j \in DOMAIN wire, wire'[i] = wire[j],
             \A k \in Ids : logged[k] \subseteq logged'[k]
      PROVE  wire'[i].hazard_state \in logged'[wire'[i].incident_id]
  BY <1>1 DEF WireLogged, NamesOne, Telling
<1>2. CASE Capture \/ NoHealth \/ UNCHANGED vars
  BY <1>1, <1>2 DEF Capture, NoHealth, vars, loopVars, streamVars
<1>3. CASE Loop /\ pc # "capture" /\ ~NoHealth
  <2>1. logged' = IF After(pc) = "INCIDENT_TIMELINE_EVENT" THEN Log ELSE logged
    BY <1>3, LoopWire DEF Sent
  <2>2. \A k \in Ids : logged[k] \subseteq logged'[k]
    BY <1>0, <2>1 DEF Log
  <2>3. ASSUME NEW packet \in Packet, Made(packet), wire'[i] = packet
        PROVE  wire'[i].hazard_state \in logged'[wire'[i].incident_id]
    BY <2>2, <2>3 DEF Made, LogInv, Telling
  <2>4. ASSUME NEW packet \in Packet, Made(packet), wire' = Append(wire, packet)
        PROVE  wire'[i].hazard_state \in logged'[wire'[i].incident_id]
    <3>1. i \in 1..(Len(wire) + 1)
      BY <1>0, <2>4
    <3>2. CASE i = Len(wire) + 1
      BY <1>0, <2>3, <2>4, <3>2
    <3>3. CASE i \in 1..Len(wire)
      <4>1. i \in DOMAIN wire /\ wire'[i] = wire[i]
        BY <1>0, <2>4, <3>3
      <4>2. QED
        BY <1>1, <2>2, <4>1
    <3>4. QED
      BY <1>0, <3>1, <3>2, <3>3
  <2>5. ASSUME NEW packet \in Packet, Made(packet), wire' = <<packet>>
        PROVE  wire'[i].hazard_state \in logged'[wire'[i].incident_id]
    <3>1. wire'[i] = packet
      BY <2>5
    <3>2. QED
      BY <2>3, <2>5, <3>1
  <2>6. CASE wire' = wire
    BY <1>1, <2>2, <2>6
  <2>7. QED
    BY <1>3, <2>4, <2>5, <2>6, LoopWire
<1>4. ASSUME \/ Outage("down") \/ Outage("silent") \/ KernelGivesUp \/ NetworkBack
             \/ Dispatch \/ Arm \/ Disarm \/ Restart \/ BackoffOver
             \/ \E k \in Ids : Answer(k)
      PROVE  wire'[i].hazard_state \in logged'[wire'[i].incident_id]
  <2>1. logged' = logged
    BY <1>4, OtherWire
  <2>2. CASE wire' = wire
    BY <1>1, <2>1, <2>2
  <2>3. CASE wire # << >> /\ wire' = Tail(wire)
    <3>1. i + 1 \in DOMAIN wire /\ wire'[i] = wire[i + 1]
      BY <1>0, <2>3
    <3>2. QED
      BY <1>1, <2>1, <3>1
  <2>4. wire' # << >>
    OBVIOUS
  <2>5. QED
    BY <1>4, <2>2, <2>3, <2>4, OtherWire
<1>5. QED
  BY <1>2, <1>3, <1>4 DEF Next, Loop, Write, Connect, ConnectFails, Skip, WriteLost, WriteFails

\* The local log tells the whole course of the open incident when a frame is done, whatever
\* became of the packets, but perhaps for the first suspicion; and no event is sent that the
\* log does not hold (Sent, Log and the verifier's steps; LogIsComplete).
THEOREM LogTellsAll == Spec => []LogIsComplete
<1>1. Init => LogInv /\ WireLogged
  <2> SUFFICES ASSUME Init PROVE LogInv /\ WireLogged
    OBVIOUS
  <2>1. /\ pc = "capture" /\ last_state = "CLEAR" /\ logged = [k \in Ids |-> {}]
        /\ counter = 0 /\ incident_id = 0 /\ DOMAIN wire = {}
    BY DEF Init, Verifier!Init
  <2>2. QED
    BY <2>1 DEF LogInv, WireLogged
<1>2. TypeOK /\ NamesOne /\ LogInv /\ WireLogged /\ [Next]_vars => LogInv' /\ WireLogged'
  BY LogInductive, WireInductive
<1>3. LogInv /\ WireLogged => LogIsComplete
  BY DEF LogInv, WireLogged, LogIsComplete, Told
<1>4. QED
  BY <1>1, <1>2, <1>3, ReportingType, PTL DEF Spec

-----------------------------------------------------------------------------
(* Updates before events *)

\* The backend knows of the incident, did not want to, or is about to.
Known(k) ==
    \/ response[k] # "none" \/ k \in ignored
    \/ \E j \in DOMAIN wire : wire[j].type = "INCIDENT_UPDATE" /\ wire[j].incident_id = k

\* The event that is to be sent next on an open connection has its update before it.
UpdateFirst ==
    /\ EventsAreAnnounced
    /\ pc = "INCIDENT_TIMELINE_EVENT" /\ conn = "open" => Known(incident_id)

LEMMA UpdateFirstInductive == TypeOK /\ NamesOne /\ UpdateFirst /\ [Next]_vars => UpdateFirst'
<1> SUFFICES ASSUME TypeOK, NamesOne, UpdateFirst, [Next]_vars PROVE UpdateFirst'
  OBVIOUS
<1>0. /\ wire \in Seq(Packet) /\ DOMAIN wire = 1..Len(wire) /\ Len(wire) \in Nat
      /\ pc \in Kinds \cup {"capture"} /\ (conn # "open" => wire = << >>)
  BY DEF TypeOK
\* Nothing that is said of an incident's event is disturbed where the wire stays.
<1>1. ASSUME UNCHANGED <<wire, response, ignored>>,
             pc' = "INCIDENT_TIMELINE_EVENT" /\ conn' = "open" =>
               pc = "INCIDENT_TIMELINE_EVENT" /\ conn = "open" /\ incident_id' = incident_id
      PROVE  UpdateFirst'
  BY <1>1 DEF UpdateFirst, EventsAreAnnounced, Known
<1>2. CASE Capture \/ NoHealth \/ UNCHANGED vars
  <2>1. /\ UNCHANGED <<wire, response, ignored>>
        /\ pc' # "INCIDENT_TIMELINE_EVENT" \/ UNCHANGED <<pc, conn, incident_id>>
    BY <1>2 DEF Capture, NoHealth, vars, verifierVars, loopVars, streamVars, backendVars
  <2>2. QED
    BY <1>1, <2>1
<1>3. CASE Loop /\ pc # "capture" /\ ~NoHealth
  <2>1. /\ UNCHANGED <<incident_id, response, ignored>> /\ pc' = After(pc)
        /\ pc' = "INCIDENT_TIMELINE_EVENT" => pc = "INCIDENT_UPDATE"
    BY <1>0, <1>3, LoopWire DEF Sent, verifierVars, backendVars, After, Kinds
  <2>2. ASSUME NEW packet \in Packet, Made(packet), packet.type \in Telling => ~packet.opener,
               conn = "open", conn' = "open", wire' = Append(wire, packet)
        PROVE  UpdateFirst'
    <3>1. /\ DOMAIN wire' = 1..(Len(wire) + 1) /\ wire'[Len(wire) + 1] = packet
          /\ \A j \in 1..Len(wire) : wire'[j] = wire[j]
      BY <1>0, <2>2
    <3>2. ASSUME NEW k, Known(k) PROVE Known(k)'
      BY <1>0, <2>1, <3>1, <3>2 DEF Known
    <3>3. pc' = "INCIDENT_TIMELINE_EVENT" => Known(incident_id)'
      <4>1. SUFFICES ASSUME pc' = "INCIDENT_TIMELINE_EVENT" PROVE Known(incident_id)'
        OBVIOUS
      <4>2. packet.type = "INCIDENT_UPDATE" /\ packet.incident_id = incident_id
        BY <2>1, <2>2, <4>1 DEF Made, Telling
      <4>3. Len(wire) + 1 \in DOMAIN wire'
        BY <1>0, <3>1
      <4>4. QED
        BY <2>1, <3>1, <4>2, <4>3 DEF Known
    <3>4. ASSUME NEW i \in DOMAIN wire', wire'[i].type = "INCIDENT_TIMELINE_EVENT", ~wire'[i].opener
          PROVE  \/ response'[wire'[i].incident_id] # "none" \/ wire'[i].incident_id \in ignored'
                 \/ \E j \in 1..(i - 1) : wire'[j].type = "INCIDENT_UPDATE"
                                       /\ wire'[j].incident_id = wire'[i].incident_id
      <4>1. CASE i \in 1..Len(wire)
        <5>1. wire'[i] = wire[i] /\ i \in DOMAIN wire
          BY <1>0, <3>1, <4>1
        <5>2. \A j \in 1..(i - 1) : wire'[j] = wire[j]
          BY <1>0, <3>1, <4>1
        <5>3. QED
          BY <2>1, <3>4, <5>1, <5>2 DEF UpdateFirst, EventsAreAnnounced
      <4>2. CASE i = Len(wire) + 1
        <5>1. wire'[i] = packet /\ pc = "INCIDENT_TIMELINE_EVENT" /\ packet.incident_id = incident_id
          BY <2>2, <3>1, <3>4, <4>2 DEF Made, Telling
        <5>2. Known(incident_id)
          BY <2>2, <5>1 DEF UpdateFirst
        <5>3. i - 1 = Len(wire)
          BY <1>0, <4>2
        <5>4. QED
          BY <1>0, <2>1, <3>1, <5>1, <5>2, <5>3 DEF Known
      <4>3. QED
        BY <1>0, <3>1, <4>1, <4>2
    <3>5. QED
      BY <3>3, <3>4 DEF UpdateFirst, EventsAreAnnounced
  <2>3. ASSUME NEW packet \in Packet, Made(packet), packet.type \in Telling => packet.opener,
               conn # "open", conn' = "open", wire' = <<packet>>
        PROVE  UpdateFirst'
    <3>1. DOMAIN wire' = {1} /\ wire'[1] = packet
      BY <2>3
    <3>2. EventsAreAnnounced'
      BY <2>3, <3>1 DEF EventsAreAnnounced, Telling
    <3>3. pc' = "INCIDENT_TIMELINE_EVENT" => Known(incident_id)'
      BY <2>1, <2>3, <3>1 DEF Made, Telling, Known
    <3>4. QED
      BY <3>2, <3>3 DEF UpdateFirst
  <2>4. CASE conn' \in {"none", "broken"} /\ wire' = wire
    BY <1>1, <2>1, <2>4
  <2>5. QED
    BY <1>3, <2>2, <2>3, <2>4, LoopWire
<1>4. CASE Dispatch
  <2>0. wire # << >> /\ conn = "open" /\ UNCHANGED <<incident_id, pc>>
    BY <1>4 DEF Dispatch, verifierVars, loopVars
  <2>1. CASE wire' = << >> /\ conn' # "open"
    BY <2>1 DEF UpdateFirst, EventsAreAnnounced
  <2>2. CASE wire' = Tail(wire) /\ conn' = "open"
    <3>1. /\ DOMAIN wire' = 1..(Len(wire) - 1) /\ Head(wire) = wire[1] /\ Len(wire) >= 1
          /\ \A j \in 1..(Len(wire) - 1) : wire'[j] = wire[j + 1]
      BY <1>0, <2>0, <2>2
    <3>2. wire[1].type = "INCIDENT_UPDATE" => wire[1].incident_id \in Ids
      BY <1>0, <3>1 DEF NamesOne, Telling
    \* The update that is read is a row from now on, or was ignored.
    <3>3. wire[1].type = "INCIDENT_UPDATE" =>
            response'[wire[1].incident_id] # "none" \/ wire[1].incident_id \in ignored'
      <4>1. CASE armed
        BY <1>4, <3>1, <3>2, <4>1 DEF Dispatch, TypeOK, Merged
      <4>2. CASE ~armed
        BY <1>4, <3>1, <4>2 DEF Dispatch
      <4>3. QED
        BY <4>1, <4>2
    <3>4. \A k \in Ids : response[k] # "none" \/ k \in ignored => response'[k] # "none" \/ k \in ignored'
      BY <1>4, <3>1, <3>2 DEF Dispatch, TypeOK, Merged
    <3>5. ASSUME NEW k \in Ids, NEW n \in DOMAIN wire,
                 \/ response[k] # "none" \/ k \in ignored
                 \/ \E j \in 1..n : wire[j].type = "INCIDENT_UPDATE" /\ wire[j].incident_id = k
          PROVE  \/ response'[k] # "none" \/ k \in ignored'
                 \/ \E j \in 1..(n - 1) : wire'[j].type = "INCIDENT_UPDATE" /\ wire'[j].incident_id = k
      <4>1. CASE response[k] # "none" \/ k \in ignored
        BY <3>4, <4>1
      <4>2. ASSUME NEW j \in 1..n, wire[j].type = "INCIDENT_UPDATE", wire[j].incident_id = k
            PROVE  \/ response'[k] # "none" \/ k \in ignored'
                   \/ \E l \in 1..(n - 1) : wire'[l].type = "INCIDENT_UPDATE" /\ wire'[l].incident_id = k
        <5>1. CASE j = 1
          BY <3>3, <4>2, <5>1
        <5>2. CASE j > 1
          <6>1. j - 1 \in 1..(n - 1) /\ j - 1 \in 1..(Len(wire) - 1) /\ (j - 1) + 1 = j
            BY <1>0, <5>2
          <6>2. wire'[j - 1] = wire[j]
            BY <3>1, <6>1
          <6>3. QED
            BY <4>2, <6>1, <6>2
        <5>3. QED
          BY <1>0, <5>1, <5>2
      <4>3. QED
        BY <3>5, <4>1, <4>2
    <3>6. ASSUME NEW i \in DOMAIN wire', wire'[i].type = "INCIDENT_TIMELINE_EVENT", ~wire'[i].opener
          PROVE  \/ response'[wire'[i].incident_id] # "none" \/ wire'[i].incident_id \in ignored'
                 \/ \E j \in 1..(i - 1) : wire'[j].type = "INCIDENT_UPDATE"
                                       /\ wire'[j].incident_id = wire'[i].incident_id
      <4>1. wire'[i] = wire[i + 1] /\ i + 1 \in DOMAIN wire /\ i \in DOMAIN wire /\ (i + 1) - 1 = i
        BY <1>0, <3>1
      <4>2. wire'[i].incident_id \in Ids
        BY <3>6, <4>1 DEF NamesOne, Telling
      <4>3. \/ response[wire'[i].incident_id] # "none" \/ wire'[i].incident_id \in ignored
            \/ \E j \in 1..i : wire[j].type = "INCIDENT_UPDATE" /\ wire[j].incident_id = wire'[i].incident_id
        BY <3>6, <4>1 DEF UpdateFirst, EventsAreAnnounced
      <4>4. QED
        BY <3>5, <4>1, <4>2, <4>3
    <3>7. pc' = "INCIDENT_TIMELINE_EVENT" => Known(incident_id)'
      <4>1. SUFFICES ASSUME pc = "INCIDENT_TIMELINE_EVENT" PROVE Known(incident_id)'
        BY <2>0
      <4>2. incident_id \in Ids
        BY <4>1, TellingOpen DEF Telling
      <4>t. Known(incident_id)
        BY <2>0, <4>1 DEF UpdateFirst
      <4>3. Len(wire) \in DOMAIN wire /\ 1..(Len(wire) - 1) = DOMAIN wire'
        BY <1>0, <3>1
      <4>4. QED
        BY <1>0, <2>0, <3>5, <4>2, <4>t, <4>3 DEF Known
    <3>8. QED
      BY <3>6, <3>7 DEF UpdateFirst, EventsAreAnnounced
  <2>3. QED
    BY <1>4, <2>0, <2>1, <2>2 DEF Dispatch, Break
<1>5. ASSUME ~Dispatch,
             \/ Outage("down") \/ Outage("silent") \/ KernelGivesUp \/ NetworkBack
             \/ Arm \/ Disarm \/ Restart \/ BackoffOver
             \/ \E k \in Ids : Answer(k)
      PROVE  UpdateFirst'
  <2>1. UNCHANGED <<incident_id, pc, ignored>> /\ (\A k \in Ids : response[k] # "none" => response'[k] # "none")
    BY <1>5 DEF Outage, KernelGivesUp, NetworkBack, Arm, Disarm, Restart, BackoffOver, Answer,
       verifierVars, loopVars, backendVars, TypeOK
  <2>2. CASE UNCHANGED <<conn, wire>>
    <3>1. \A i \in DOMAIN wire : wire[i].type = "INCIDENT_TIMELINE_EVENT" => wire[i].incident_id \in Ids
      BY DEF NamesOne, Telling
    <3>2. wire' = wire /\ conn' = conn /\ incident_id' = incident_id /\ pc' = pc
      BY <2>1, <2>2
    <3>3. ASSUME NEW i \in DOMAIN wire', wire'[i].type = "INCIDENT_TIMELINE_EVENT", ~wire'[i].opener
          PROVE  \/ response'[wire'[i].incident_id] # "none" \/ wire'[i].incident_id \in ignored'
                 \/ \E j \in 1..(i - 1) : wire'[j].type = "INCIDENT_UPDATE"
                                       /\ wire'[j].incident_id = wire'[i].incident_id
      <4>1. i \in DOMAIN wire /\ wire'[i] = wire[i] /\ wire[i].incident_id \in Ids
        BY <2>2, <3>1, <3>3
      <4>2. \/ response[wire[i].incident_id] # "none" \/ wire[i].incident_id \in ignored
            \/ \E j \in 1..(i - 1) : wire[j].type = "INCIDENT_UPDATE"
                                  /\ wire[j].incident_id = wire[i].incident_id
        BY <3>3, <4>1 DEF UpdateFirst, EventsAreAnnounced
      <4>3. QED
        BY <2>1, <3>2, <4>1, <4>2
    <3>4. ASSUME pc' = "INCIDENT_TIMELINE_EVENT", conn' = "open" PROVE Known(incident_id)'
      <4>1. incident_id \in Ids /\ incident_id' = incident_id
        BY <2>1, <3>4, TellingOpen DEF Telling
      <4>2. Known(incident_id)
        BY <2>1, <2>2, <3>4 DEF UpdateFirst
      <4>3. QED
        BY <2>1, <3>2, <4>1, <4>2 DEF Known
    <3>5. QED
      BY <3>3, <3>4 DEF UpdateFirst, EventsAreAnnounced
  <2>3. CASE conn' # "open" /\ wire' = << >>
    BY <2>3 DEF UpdateFirst, EventsAreAnnounced
  <2>4. UNCHANGED <<conn, wire>> \/ (conn' # "open" /\ wire' = << >>)
    BY <1>0, <1>5 DEF Outage, KernelGivesUp, NetworkBack, Arm, Disarm, Restart, BackoffOver, Answer,
       Break, streamVars
  <2>5. QED
    BY <2>2, <2>3, <2>4
<1>6. QED
  BY <1>2, <1>3, <1>4, <1>5 DEF Next, Loop, Write, Connect, ConnectFails, Skip, WriteLost, WriteFails

\* An event has its incident's update before it on the same connection, unless the backend has
\* the row or, disarmed, ignored the update, or the event opened the connection (Write,
\* Connect and Dispatch; EventsAreAnnounced).
THEOREM EventsAfterUpdates == Spec => []EventsAreAnnounced
<1>1. Init => UpdateFirst
  BY DEF Init, UpdateFirst, EventsAreAnnounced
<1>2. TypeOK /\ NamesOne /\ UpdateFirst /\ [Next]_vars => UpdateFirst'
  BY UpdateFirstInductive
<1>3. UpdateFirst => EventsAreAnnounced
  BY DEF UpdateFirst
<1>4. QED
  BY <1>1, <1>2, <1>3, ReportingType, PTL DEF Spec
=============================================================================
