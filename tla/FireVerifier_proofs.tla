-------------------------- MODULE FireVerifier_proofs --------------------------
(***************************************************************************)
(* Proofs about FireVerifier, for every window, threshold and frame rate.  *)
(***************************************************************************)
EXTENDS FireVerifier, FiniteSetTheorems, TLAPS

USE ThresholdAssumption

\* Types, and the state without an incident.
THEOREM VerifierType == Spec => []TypeOK
<1>1. Init => TypeOK
  <2> SUFFICES ASSUME Init PROVE TypeOK
    OBVIOUS
  <2>1. FireState /\ evidence = {} /\ window = {}
    BY DEF Init
  <2>2. /\ clock \in Nat /\ frame \in Nat /\ counter \in Nat /\ incident_id \in 0..counter
        /\ first_detection \in 0..clock /\ last_relevant \in 0..clock
    BY DEF Init, FireState
  <2>3. confirmed \in BOOLEAN
    BY <2>1 DEF FireState
  <2>4. hazard_state = "CLEAR"
    BY <2>1 DEF FireState
  <2>5. QED
    BY <2>1, <2>2, <2>3, <2>4 DEF TypeOK
<1>2. TypeOK /\ [Next]_vars => TypeOK'
  <2> SUFFICES ASSUME TypeOK, [Next]_vars PROVE TypeOK'
    OBVIOUS
  <2> USE DEF TypeOK, FireState
  <2>1. ASSUME NEW gap \in Gaps, Frame(gap), Relevant(clock + gap) PROVE TypeOK'
    <3> DEFINE t == clock + gap
    <3>1. /\ t \in Nat /\ t >= clock /\ clock' = t /\ frame' = frame + 1
          /\ window' \subseteq window \cup {frame + 1}
          /\ evidence' = evidence \cup {frame + 1}
      BY <2>1 DEF Frame, Relevant, InWindow
    <3>2. /\ window' \subseteq 1..frame' /\ evidence' \subseteq 1..frame'
      BY <3>1
    <3>3. /\ counter' \in Nat /\ incident_id' \in 0..counter' /\ incident_id' # 0
      BY <2>1 DEF Relevant
    <3>4. /\ confirmed' \in BOOLEAN
      BY <2>1 DEF Relevant, Confirms
    <3>5. hazard_state' \in {"CLEAR", "SUSPECTED", "VERIFYING", "CONFIRMED", "VISUAL_SIGNATURE_LOST"}
      BY <2>1 DEF Relevant
    <3>6. first_detection' \in 0..t /\ last_relevant' \in 0..t
      BY <2>1, <3>1 DEF Relevant
    <3>7. QED
      BY <3>1, <3>2, <3>3, <3>4, <3>5, <3>6
  <2>2. ASSUME NEW gap \in Gaps, Frame(gap), Irrelevant(clock + gap) PROVE TypeOK'
    <3>1. CASE Over(clock + gap - last_relevant)
      <4>1. Renew /\ window' = {} /\ evidence' = {} /\ counter' = counter
        BY <2>2, <3>1 DEF Irrelevant, Forget
      <4>2. clock' \in Nat /\ frame' \in Nat
        BY <2>2 DEF Frame
      <4>3. confirmed' \in BOOLEAN
        BY <4>1 DEF Renew
      <4>4. QED
        BY <4>1, <4>2, <4>3 DEF Renew
    <3>2. CASE ~Over(clock + gap - last_relevant)
      <4>1. /\ window' \subseteq window
            /\ UNCHANGED <<counter, incident_id, confirmed, first_detection, last_relevant, evidence>>
        BY <2>2, <3>2 DEF Irrelevant, InWindow
      <4>2. clock' \in Nat /\ clock' >= clock /\ frame' = frame + 1
        BY <2>2 DEF Frame
      <4>3. /\ hazard_state' \in {"CLEAR", "SUSPECTED", "VERIFYING", "CONFIRMED", "VISUAL_SIGNATURE_LOST"}
            /\ ~confirmed => hazard_state' = hazard_state
        BY <2>2, <3>2 DEF Irrelevant
      <4>4. /\ window' \subseteq 1..frame' /\ evidence' \subseteq 1..frame'
            /\ first_detection' \in 0..clock' /\ last_relevant' \in 0..clock'
        BY <4>1, <4>2
      <4>5. (incident_id = 0 => FireState /\ evidence = {})'
        BY <4>1, <4>3
      <4>6. QED
        BY <4>1, <4>2, <4>3, <4>4, <4>5
    <3>3. QED
      BY <3>1, <3>2
  <2>3. CASE UNCHANGED vars
    BY <2>3 DEF vars, stateVars
  <2>4. QED
    BY <2>1, <2>2, <2>3 DEF Next, Frame
<1>3. QED
  BY <1>1, <1>2, PTL DEF Spec

-----------------------------------------------------------------------------
(* What the window and the confirmation rest on *)

\* The conjuncts support one another: a confirmation counts frames of the window, which
\* are evidence of the open incident only because the window is cleared with it.
GateInv ==
    /\ WindowIsOfIncident
    /\ ConfirmedByEvidence
    /\ ReportsVisible
    /\ OpenIncidentIsRecent

LEMMA RelevantKeepsGate ==
    ASSUME TypeOK, TypeOK', GateInv, NEW gap \in Gaps, Frame(gap), Relevant(clock + gap)
    PROVE  GateInv'
<1> DEFINE t == clock + gap
           recent == InWindow(window \cup {frame + 1})
           hits == Cardinality(recent)
<1>1. /\ t \in Nat /\ t >= clock /\ clock' = t /\ frame' = frame + 1 /\ last_relevant' = t
      /\ window' = recent /\ evidence' = evidence \cup {frame + 1}
      /\ incident_id' # 0
  BY DEF Frame, Relevant, TypeOK
<1>2. WindowIsOfIncident'
  <2>1. /\ evidence \subseteq 1..frame /\ frame \in Nat /\ Window \in Nat
        /\ window \subseteq evidence /\ \A f \in evidence : f \in window <=> f > frame - Window
    BY DEF GateInv, WindowIsOfIncident, TypeOK
  <2>2. \A f \in evidence \cup {frame + 1} : f \in recent <=> f > frame + 1 - Window
    BY <2>1 DEF InWindow
  <2>3. recent \subseteq evidence \cup {frame + 1}
    BY <2>1 DEF InWindow
  <2> HIDE DEF recent
  <2>4. window' \subseteq evidence'
    BY <1>1, <2>3
  <2>5. \A f \in evidence' : f \in window' <=> f > frame' - Window
    BY <1>1, <2>1, <2>2
  <2>6. QED
    BY <2>4, <2>5 DEF WindowIsOfIncident
<1>3. hits <= Cardinality(evidence') /\ hits \in Nat /\ Cardinality(evidence') \in Nat
  <2>1. IsFiniteSet(evidence')
    <3>1. IsFiniteSet(1..frame')
      BY FS_Interval DEF TypeOK
    <3>2. QED
      BY <3>1, FS_Subset DEF TypeOK
  <2>2. recent \subseteq evidence'
    BY <1>1, <1>2 DEF WindowIsOfIncident
  <2>3. QED
    BY <2>1, <2>2, FS_Subset, FS_CardinalityType
<1>4. Cardinality(evidence') >= Cardinality(evidence) /\ Cardinality(evidence) \in Nat
  <2>1. IsFiniteSet(evidence)
    <3>1. IsFiniteSet(1..frame)
      BY FS_Interval DEF TypeOK
    <3>2. QED
      BY <3>1, FS_Subset DEF TypeOK
  <2>2. IsFiniteSet(evidence')
    BY <1>1, <2>1, FS_AddElement
  <2>3. evidence \subseteq evidence'
    BY <1>1
  <2>4. QED
    BY <2>1, <2>2, <2>3, FS_Subset, FS_CardinalityType
<1>5. ConfirmedByEvidence'
  <2>1. CASE confirmed
    <3>1. first_detection' = first_detection
      BY <2>1 DEF Relevant, TypeOK, FireState
    <3>2. QED
      <4>1. Cardinality(evidence) >= Required /\ last_relevant - first_detection >= ConfirmTime
        BY <2>1 DEF GateInv, ConfirmedByEvidence
      <4>2. t >= last_relevant /\ last_relevant \in Nat /\ first_detection \in Nat
        BY <1>1 DEF TypeOK
      <4> HIDE DEF t
      <4>3. /\ Cardinality(evidence') >= Required
            /\ last_relevant' - first_detection' >= ConfirmTime
        BY <1>1, <1>3, <1>4, <3>1, <4>1, <4>2
      <4>4. QED
        BY <4>3 DEF ConfirmedByEvidence
  <2>2. CASE ~confirmed /\ confirmed'
    <3>1. hits >= Required /\ t - first_detection' >= ConfirmTime
      BY <2>2 DEF Relevant, Confirms
    <3> HIDE DEF hits
    <3>2. QED
      BY <1>1, <1>3, <3>1 DEF ConfirmedByEvidence
  <2>3. QED
    BY <2>1, <2>2 DEF ConfirmedByEvidence
<1>6. ReportsVisible'
  <2>1. CASE incident_id = 0
    BY <2>1 DEF Relevant, ReportsVisible, TypeOK, FireState
  <2>2. CASE incident_id # 0
    BY <2>2 DEF Relevant, GateInv, ReportsVisible, Verifies, TypeOK
  <2>3. QED
    BY <2>1, <2>2
<1>7. OpenIncidentIsRecent'
  BY <1>1 DEF OpenIncidentIsRecent, Patience
<1>8. QED
  BY <1>2, <1>5, <1>6, <1>7 DEF GateInv

LEMMA IrrelevantKeepsGate ==
    ASSUME TypeOK, GateInv, NEW gap \in Gaps, Frame(gap), Irrelevant(clock + gap)
    PROVE  GateInv'
<1>1. CASE Over(clock + gap - last_relevant)
  <2>1. Renew /\ window' = {} /\ evidence' = {}
    BY <1>1 DEF Irrelevant, Forget, TypeOK
  <2>2. ~confirmed' /\ hazard_state' = "CLEAR" /\ incident_id' = 0
    BY <2>1 DEF Renew
  <2>3. QED
    BY <2>1, <2>2 DEF GateInv, WindowIsOfIncident, ConfirmedByEvidence, ReportsVisible,
                      OpenIncidentIsRecent
<1>2. CASE ~Over(clock + gap - last_relevant)
  <2>1. /\ window' = InWindow(window)
        /\ UNCHANGED <<incident_id, confirmed, first_detection, last_relevant, evidence>>
    BY <1>2 DEF Irrelevant, TypeOK
  <2>2. frame' = frame + 1 /\ clock' = clock + gap
    BY DEF Frame
  <2>3. WindowIsOfIncident'
    <3>1. /\ evidence \subseteq 1..frame /\ frame \in Nat /\ Window \in Nat
          /\ window \subseteq evidence /\ \A f \in evidence : f \in window <=> f > frame - Window
      BY DEF GateInv, WindowIsOfIncident, TypeOK
    <3>2. \A f \in evidence : f \in window' <=> f > frame + 1 - Window
      BY <2>1, <3>1 DEF InWindow
    <3>3. window' \subseteq evidence'
      BY <2>1, <3>1 DEF InWindow
    <3>4. \A f \in evidence' : f \in window' <=> f > frame' - Window
      BY <2>1, <2>2, <3>1, <3>2
    <3>5. QED
      BY <3>3, <3>4 DEF WindowIsOfIncident
  <2>4. ConfirmedByEvidence'
    BY <2>1 DEF GateInv, ConfirmedByEvidence
  <2>5. ReportsVisible'
    BY <1>2, <2>1 DEF GateInv, ReportsVisible, Irrelevant, TypeOK
  <2>6. OpenIncidentIsRecent'
    <3>1. clock \in Nat /\ last_relevant \in Nat /\ gap \in Nat /\ Patience \in Nat
      BY DEF TypeOK, Patience
    <3>2. incident_id = 0 \/ clock + gap - last_relevant < Patience
      BY <1>2, <3>1 DEF Over
    <3>3. QED
      BY <2>1, <2>2, <3>1, <3>2 DEF OpenIncidentIsRecent, Patience
  <2>7. QED
    BY <2>3, <2>4, <2>5, <2>6 DEF GateInv
<1>3. QED
  BY <1>1, <1>2

LEMMA GateInvariant == Spec => []GateInv
<1>1. Init => GateInv
  BY DEF Init, FireState, GateInv, WindowIsOfIncident, ConfirmedByEvidence, ReportsVisible,
         OpenIncidentIsRecent
<1>2. TypeOK /\ TypeOK' /\ GateInv /\ [Next]_vars => GateInv'
  <2>1. ASSUME GateInv, UNCHANGED vars PROVE GateInv'
    BY <2>1 DEF vars, stateVars, GateInv, WindowIsOfIncident, ConfirmedByEvidence,
                ReportsVisible, OpenIncidentIsRecent, Patience
  <2>2. QED
    BY <2>1, RelevantKeepsGate, IrrelevantKeepsGate DEF Next, Frame
<1>3. QED
  BY <1>1, <1>2, VerifierType, PTL DEF Spec

\* The window holds the open incident's recent relevant frames and no others.
THEOREM WindowKept == Spec => []WindowIsOfIncident
BY GateInvariant, PTL DEF GateInv

\* A confirmation rests on Required frames of the incident and on its age.
THEOREM ConfirmationEarned == Spec => []ConfirmedByEvidence
BY GateInvariant, PTL DEF GateInv

\* The device awaits a response only in the hazard states the backend escalates.
THEOREM ReportedVisible == Spec => []ReportsVisible
BY GateInvariant, PTL DEF GateInv

\* No incident outlives its evidence, whatever the frame rate.
THEOREM RecentlySeen == Spec => []OpenIncidentIsRecent
BY GateInvariant, PTL DEF GateInv

\* A confirmation is lost only to ResetTime of silence, and incidents never join.
THEOREM ConfirmationKept == Spec => ConfirmationStands
<1>1. TypeOK /\ GateInv /\ [Next]_vars =>
        [/\ confirmed /\ ~confirmed' => clock' - last_relevant >= ResetTime
         /\ hazard_state' = "VISUAL_SIGNATURE_LOST" /\ hazard_state # "VISUAL_SIGNATURE_LOST" =>
              clock' - last_relevant >= ClearTime
         /\ incident_id # 0 /\ incident_id' # incident_id => incident_id' = 0]_vars
  <2> SUFFICES ASSUME TypeOK, GateInv, NEW gap \in Gaps, Frame(gap)
               PROVE  /\ confirmed /\ ~confirmed' => clock' - last_relevant >= ResetTime
                      /\ hazard_state' = "VISUAL_SIGNATURE_LOST"
                         /\ hazard_state # "VISUAL_SIGNATURE_LOST" =>
                           clock' - last_relevant >= ClearTime
                      /\ incident_id # 0 /\ incident_id' # incident_id => incident_id' = 0
    BY DEF Next
  <2>1. CASE Relevant(clock + gap)
    BY <2>1 DEF Relevant
  <2>2. CASE Irrelevant(clock + gap)
    BY <2>2 DEF Irrelevant, Frame, Forget, Renew, Over, Patience
  <2>3. QED
    BY <2>1, <2>2 DEF Frame
<1>2. QED
  BY <1>1, VerifierType, GateInvariant, PTL DEF Spec, ConfirmationStands

-----------------------------------------------------------------------------
(* The order of the states *)

\* A suspicion is never above the frames that verify it: the next frame cannot skip a state.
SuspicionIsWeak ==
    /\ hazard_state = "SUSPECTED" => Cardinality(window) < VerifyFrames
    /\ incident_id # 0 => hazard_state # "CLEAR"

LEMMA WindowGrowsByOne ==
    ASSUME TypeOK, NEW gap \in Gaps, Frame(gap)
    PROVE  /\ IsFiniteSet(window) /\ IsFiniteSet(window')
           /\ Cardinality(window) \in Nat /\ Cardinality(window') \in Nat
           /\ Relevant(clock + gap) => Cardinality(InWindow(window \cup {frame + 1})) <= Cardinality(window) + 1
           /\ Irrelevant(clock + gap) => Cardinality(window') <= Cardinality(window)
<1>1. IsFiniteSet(window) /\ Cardinality(window) \in Nat
  <2>1. IsFiniteSet(1..frame)
    BY FS_Interval DEF TypeOK
  <2>2. IsFiniteSet(window)
    BY <2>1, FS_Subset DEF TypeOK
  <2>3. QED
    BY <2>2, FS_CardinalityType
<1> DEFINE more == window \cup {frame + 1}
<1>2. IsFiniteSet(more) /\ Cardinality(more) \in Nat /\ Cardinality(more) <= Cardinality(window) + 1
  BY <1>1, FS_AddElement, FS_CardinalityType
<1>3. InWindow(more) \subseteq more /\ InWindow(window) \subseteq window
  BY DEF InWindow
<1>4. /\ IsFiniteSet(InWindow(more)) /\ Cardinality(InWindow(more)) <= Cardinality(more)
      /\ IsFiniteSet(InWindow(window)) /\ Cardinality(InWindow(window)) <= Cardinality(window)
  BY <1>1, <1>2, <1>3, FS_Subset
<1>5. IsFiniteSet({}) /\ Cardinality({}) = 0
  BY FS_EmptySet
<1>6. window' \in {InWindow(more), InWindow(window), {}}
  BY DEF Frame, Relevant, Irrelevant, Forget
<1>7. IsFiniteSet(window') /\ Cardinality(window') \in Nat
  BY <1>4, <1>5, <1>6, FS_CardinalityType
<1>8. Irrelevant(clock + gap) => window' \in {InWindow(window), {}}
  BY DEF Irrelevant, Forget
<1>9. Cardinality(InWindow(more)) \in Nat /\ Cardinality(InWindow(window)) \in Nat
  BY <1>4, FS_CardinalityType
<1>10. Irrelevant(clock + gap) => Cardinality(window') <= Cardinality(window)
  BY <1>1, <1>4, <1>5, <1>8
<1>11. Cardinality(InWindow(more)) <= Cardinality(window) + 1
  <2> HIDE DEF more
  <2>1. QED
    BY <1>1, <1>2, <1>4, <1>9
<1>12. QED
  BY <1>1, <1>7, <1>10, <1>11

\* A frame's step is one of LocalIncident's, or none.
LEMMA FrameKeepsPromise ==
    ASSUME Required > VerifyFrames, TypeOK, GateInv, SuspicionIsWeak, NEW gap \in Gaps, Frame(gap)
    PROVE  SuspicionIsWeak' /\ [Promised!Next]_(Promised!incidentVars)
<1> USE DEF Promised!Next, Promised!Advance, Promised!Move, Promised!Open, Promised!End,
            Promised!incidentVars
<1>0. VerifyFrames \in Nat /\ VerifyFrames >= 3 /\ Required \in Nat
  BY DEF VerifyFrames
<1>1. CASE Relevant(clock + gap)
  <2> DEFINE hits == Cardinality(InWindow(window \cup {frame + 1}))
             age == clock + gap - (IF incident_id = 0 THEN clock + gap ELSE first_detection)
  <2>1. hits \in Nat /\ hits <= Cardinality(window) + 1 /\ Cardinality(window) \in Nat
    <3>1. window' = InWindow(window \cup {frame + 1})
      BY <1>1 DEF Relevant
    <3>2. QED
      BY <1>1, <3>1, WindowGrowsByOne
  <2>2. /\ window' = InWindow(window \cup {frame + 1})
        /\ counter' = IF incident_id = 0 THEN counter + 1 ELSE counter
        /\ incident_id' = IF incident_id = 0 THEN counter + 1 ELSE incident_id
        /\ hazard_state' = CASE Confirms(hits, age) -> "CONFIRMED"
                 [] ~Confirms(hits, age) /\ Verifies(hits) -> "VERIFYING"
                 [] ~Confirms(hits, age) /\ ~Verifies(hits) /\ incident_id = 0 -> "SUSPECTED"
                 [] ~Confirms(hits, age) /\ ~Verifies(hits) /\ incident_id # 0 -> hazard_state
    BY <1>1 DEF Relevant, TypeOK
  <2>3. CASE incident_id = 0
    <3>1. window = {} /\ ~confirmed
      BY <2>3 DEF TypeOK, FireState, GateInv, WindowIsOfIncident
    <3>2. Cardinality(window) = 0
      BY <3>1, FS_EmptySet
    <3> HIDE DEF hits, age
    <3>3. hits < VerifyFrames /\ hits < Required
      BY <1>0, <2>1, <3>2
    <3>4. ~Confirms(hits, age) /\ ~Verifies(hits)
      BY <1>0, <2>1, <3>3 DEF Confirms, Verifies
    <3>5. hazard_state' = "SUSPECTED"
      BY <2>2, <2>3, <3>4
    <3>6. Cardinality(window') < VerifyFrames
      BY <2>2, <3>3 DEF hits
    <3>7. QED
      BY <2>2, <2>3, <3>5, <3>6 DEF SuspicionIsWeak
  <2>4. CASE incident_id # 0 /\ confirmed
    <3>1. hazard_state \in {"CONFIRMED", "VISUAL_SIGNATURE_LOST"}
      BY <2>4 DEF GateInv, ReportsVisible
    <3>2. ~Verifies(hits)
      BY <2>4 DEF Verifies
    <3> HIDE DEF hits, age
    <3>3. hazard_state' = "CONFIRMED" \/ hazard_state' = hazard_state
      BY <2>2, <2>4, <3>2
    <3>4. UNCHANGED <<counter, incident_id>>
      BY <2>2, <2>4
    <3>5. QED
      BY <2>4, <3>1, <3>3, <3>4 DEF SuspicionIsWeak
  <2>5. CASE incident_id # 0 /\ ~confirmed /\ hazard_state = "SUSPECTED"
    <3>1. Cardinality(window) < VerifyFrames
      BY <2>5 DEF SuspicionIsWeak
    <3> HIDE DEF hits, age
    <3>2. hits < Required
      BY <1>0, <2>1, <3>1
    <3>3. ~Confirms(hits, age)
      BY <1>0, <2>1, <3>2 DEF Confirms
    <3>4. UNCHANGED <<counter, incident_id>>
      BY <2>2, <2>5
    <3>5. CASE Verifies(hits)
      <4>1. hazard_state' = "VERIFYING"
        BY <2>2, <3>3, <3>5
      <4>2. QED
        BY <2>5, <3>4, <4>1 DEF SuspicionIsWeak
    <3>6. CASE ~Verifies(hits)
      <4>1. hazard_state' = hazard_state
        BY <2>2, <2>5, <3>3, <3>6
      <4>2. hits < VerifyFrames
        BY <1>0, <2>1, <2>5, <3>6 DEF Verifies
      <4>3. Cardinality(window') < VerifyFrames
        BY <2>2, <4>2 DEF hits
      <4>4. QED
        BY <3>4, <4>1, <4>3 DEF SuspicionIsWeak
    <3>7. QED
      BY <3>5, <3>6
  <2>6. CASE incident_id # 0 /\ ~confirmed /\ hazard_state # "SUSPECTED"
    <3>1. hazard_state \in {"CLEAR", "VERIFYING"}
      BY <2>6 DEF GateInv, ReportsVisible, TypeOK
    <3> HIDE DEF hits, age
    <3>2. UNCHANGED <<counter, incident_id>>
      BY <2>2, <2>6
    <3>3. hazard_state # "CLEAR"
      BY <2>6 DEF SuspicionIsWeak
    <3>4. hazard_state' \in {"CONFIRMED", "VERIFYING"}
      BY <2>2, <2>6, <3>1, <3>3
    <3>5. QED
      BY <2>6, <3>1, <3>2, <3>3, <3>4 DEF SuspicionIsWeak
  <2>7. QED
    BY <2>3, <2>4, <2>5, <2>6
<1>2. CASE Irrelevant(clock + gap) /\ Over(clock + gap - last_relevant)
  <2>1. incident_id # 0 /\ incident_id' = 0 /\ hazard_state' = "CLEAR" /\ UNCHANGED counter
    BY <1>2 DEF Irrelevant, Forget, Renew, Over, TypeOK
  <2>2. QED
    BY <2>1 DEF SuspicionIsWeak
<1>3. CASE Irrelevant(clock + gap) /\ ~Over(clock + gap - last_relevant)
  <2>1. UNCHANGED <<counter, incident_id, confirmed>>
    BY <1>3 DEF Irrelevant, TypeOK
  <2>2. hazard_state' = IF confirmed /\ clock + gap - last_relevant >= ClearTime
                        THEN "VISUAL_SIGNATURE_LOST" ELSE hazard_state
    BY <1>3 DEF Irrelevant, TypeOK
  <2>3. SuspicionIsWeak'
    <3>1. hazard_state' = "SUSPECTED" => hazard_state = "SUSPECTED"
      BY <2>2
    <3>2. Cardinality(window') <= Cardinality(window)
      BY <1>3, WindowGrowsByOne
    <3>3. Cardinality(window) \in Nat /\ Cardinality(window') \in Nat
      BY WindowGrowsByOne
    <3>4. incident_id' # 0 => hazard_state' # "CLEAR"
      BY <2>1, <2>2 DEF SuspicionIsWeak
    <3>5. QED
      BY <1>0, <3>1, <3>2, <3>3, <3>4 DEF SuspicionIsWeak
  <2>4. CASE confirmed
    <3>1. incident_id # 0 /\ hazard_state \in {"CONFIRMED", "VISUAL_SIGNATURE_LOST"}
      BY <2>4 DEF GateInv, ReportsVisible, TypeOK, FireState
    <3>2. QED
      BY <2>1, <2>2, <2>3, <3>1
  <2>5. CASE ~confirmed
    BY <2>1, <2>2, <2>3, <2>5
  <2>6. QED
    BY <2>4, <2>5
<1>4. QED
  BY <1>1, <1>2, <1>3 DEF Frame

\* Readers see one incident at a time, suspected, verified and confirmed in that order,
\* whenever more frames are required to confirm than to verify (four or more).
THEOREM PromiseKept == ASSUME Required > VerifyFrames PROVE Spec => KeepsPromise
<1>1. Init => SuspicionIsWeak /\ Promised!Init
  BY DEF Init, FireState, SuspicionIsWeak, Promised!Init
<1>2. TypeOK /\ GateInv /\ SuspicionIsWeak /\ [Next]_vars =>
        SuspicionIsWeak' /\ [Promised!Next]_(Promised!incidentVars)
  <2>1. ASSUME UNCHANGED vars, SuspicionIsWeak PROVE SuspicionIsWeak' /\ UNCHANGED Promised!incidentVars
    BY <2>1 DEF vars, stateVars, SuspicionIsWeak, Promised!incidentVars
  <2>2. QED
    BY <2>1, FrameKeepsPromise DEF Next
<1>3. QED
  BY <1>1, <1>2, VerifierType, GateInvariant, PTL DEF Spec, KeepsPromise, Promised!Spec
=============================================================================
