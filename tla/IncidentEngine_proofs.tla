------------------------- MODULE IncidentEngine_proofs -------------------------
(***************************************************************************)
(* Proofs about IncidentEngine, for all thresholds, windows and frames.    *)
(***************************************************************************)
EXTENDS IncidentEngine, FiniteSetTheorems, SequenceTheorems, TLAPS

USE EngineAssumption

HazardStates == {"CLEAR", "SUSPECTED", "VERIFYING", "CONFIRMED", "VISUAL_SIGNATURE_LOST",
                 "RESOLVED", "DEGRADED"}

Responses == {"IDLE", "AWAITING_RESPONSE", "CANCELLED", "ESCALATING"}

\* The snapshot between two stages of process().
Stage == [id : Nat, hazard : HazardStates, response : Responses, first : Nat, confirmed : BOOLEAN]

Consistent(i) ==
    /\ i.hazard # "DEGRADED"
    /\ i.confirmed <=> i.hazard \in {"CONFIRMED", "VISUAL_SIGNATURE_LOST", "RESOLVED"}
    /\ i.confirmed <=> i.response # "IDLE"

-----------------------------------------------------------------------------
(* The window *)

LEMMA PushKeepsWindow ==
    ASSUME window \in Seq(Frames), Len(window) <= Window, NEW e \in Detections, NEW now \in Nat
    PROVE  /\ Pushed(e, now) \in Seq(Frames) /\ Len(Pushed(e, now)) <= Window
           /\ Hits(window) \in Nat /\ Hits(Pushed(e, now)) \in Nat
           /\ Hits(Pushed(e, now)) <= Hits(window) + 1
           /\ ~Relevant(e) => Hits(Pushed(e, now)) <= Hits(window)
<1> DEFINE f == [shown |-> e, time |-> now]
           all == Append(window, f)
           n == Len(window)
           W == {k \in DOMAIN window : Relevant(window[k].shown)}
           A == {k \in DOMAIN all : Relevant(all[k].shown)}
<1>1. f \in Frames /\ n \in Nat /\ DOMAIN window = 1..n
  BY LenProperties DEF Frames
<1>2. /\ all \in Seq(Frames) /\ Len(all) = n + 1 /\ DOMAIN all = 1..(n + 1)
      /\ \A k \in 1..n : all[k] = window[k]
      /\ all[n + 1] = f
  BY <1>1
<1>3. /\ IsFiniteSet(W) /\ Cardinality(W) \in Nat
      /\ IsFiniteSet(A) /\ Cardinality(A) \in Nat
  <2>1. IsFiniteSet(1..n) /\ IsFiniteSet(1..(n + 1))
    BY <1>1, FS_Interval
  <2>2. W \subseteq 1..n /\ A \subseteq 1..(n + 1)
    BY <1>1, <1>2
  <2>3. QED
    BY <2>1, <2>2, FS_Subset, FS_CardinalityType
<1>4. Cardinality(A) <= Cardinality(W) + 1 /\ (~Relevant(e) => Cardinality(A) <= Cardinality(W))
  <2>1. A \subseteq W \cup {n + 1}
    BY <1>1, <1>2
  <2>2. ~Relevant(e) => A \subseteq W
    <3>1. ASSUME ~Relevant(e), NEW k \in A PROVE k \in W
      <4>1. k # n + 1
        BY <1>1, <1>2, <3>1
      <4>2. QED
        BY <1>1, <1>2, <3>1, <4>1
    <3>2. QED
      BY <3>1
  <2>3. IsFiniteSet(W \cup {n + 1}) /\ Cardinality(W \cup {n + 1}) <= Cardinality(W) + 1
    <3> HIDE DEF W, A
    <3>1. PICK extra : extra = n + 1
      OBVIOUS
    <3>2. IsFiniteSet(W \cup {extra})
      BY <1>3, FS_AddElement
    <3>3. Cardinality(W \cup {extra}) \in {Cardinality(W), Cardinality(W) + 1}
      BY <1>3, FS_AddElement
    <3>4. QED
      BY <1>3, <3>1, <3>2, <3>3
  <2>4. Cardinality(A) <= Cardinality(W \cup {n + 1})
    BY <2>1, <2>3, FS_Subset
  <2>5. Cardinality(W \cup {n + 1}) \in Nat
    BY <2>3, FS_CardinalityType
  <2> HIDE DEF A, W
  <2>6. Cardinality(A) <= Cardinality(W) + 1
    BY <1>3, <2>3, <2>4, <2>5
  <2>7. ASSUME ~Relevant(e) PROVE Cardinality(A) <= Cardinality(W)
    <3>1. A \in SUBSET W
      BY <2>2, <2>7
    <3>2. QED
      BY <1>3, <3>1, FS_Subset
  <2>8. QED
    BY <2>6, <2>7
<1>5. Hits(window) = Cardinality(W) /\ Hits(all) = Cardinality(A)
  BY DEF Hits
<1>6. CASE n + 1 > Window
  <2>1. Pushed(e, now) = Tail(all)
    BY <1>2, <1>6 DEF Pushed
  <2>2. /\ Tail(all) \in Seq(Frames) /\ Len(Tail(all)) = n /\ DOMAIN Tail(all) = 1..n
        /\ \A k \in 1..n : Tail(all)[k] = all[k + 1]
    <3>1. all # << >>
      BY <1>1, <1>2
    <3>2. Tail(all) \in Seq(Frames) /\ Len(Tail(all)) = n
      BY <1>1, <1>2, <3>1, HeadTailProperties
    <3>3. \A k \in 1..n : Tail(all)[k] = all[k + 1]
      BY <1>1, <1>2, <3>1, <3>2, HeadTailProperties
    <3>4. QED
      BY <3>2, <3>3, LenProperties
  <2> DEFINE T == {k \in DOMAIN Tail(all) : Relevant(Tail(all)[k].shown)}
             shift == [k \in T |-> k + 1]
  <2>3. shift \in Injection(T, A)
    <3>1. \A k \in T : k \in 1..n /\ k + 1 \in A
      BY <1>1, <1>2, <2>2
    <3>2. ASSUME NEW k \in T, NEW l \in T, shift[k] = shift[l] PROVE k = l
      <4>1. k \in Int /\ l \in Int
        BY <1>1, <3>1
      <4>2. k + 1 = l + 1
        <5>1. shift[k] = k + 1 /\ shift[l] = l + 1
          OBVIOUS
        <5>2. QED
          BY <3>2, <5>1
      <4>3. QED
        BY ONLY <4>1, <4>2
    <3>3. QED
      BY <3>1, <3>2 DEF Injection, IsInjective
  <2>4. IsFiniteSet(T) /\ Cardinality(T) <= Cardinality(A)
    <3> HIDE DEF shift, T, A
    <3>1. IsFiniteSet(A)
      BY <1>3
    <3>2. QED
      BY <2>3, <3>1, FS_Injection
  <2>5. Cardinality(T) \in Nat
    BY <2>4, FS_CardinalityType
  <2>6. Hits(Pushed(e, now)) = Cardinality(T)
    BY <2>1 DEF Hits
  <2> HIDE DEF T, A, W
  <2>7. /\ Hits(Pushed(e, now)) \in Nat /\ Hits(window) \in Nat
        /\ Hits(Pushed(e, now)) <= Hits(window) + 1
        /\ ~Relevant(e) => Hits(Pushed(e, now)) <= Hits(window)
    BY <1>3, <1>4, <1>5, <2>4, <2>5, <2>6
  <2>8. QED
    BY <1>1, <1>6, <2>1, <2>2, <2>7
<1>7. CASE ~(n + 1 > Window)
  <2>1. Pushed(e, now) = all
    BY <1>2, <1>7 DEF Pushed
  <2> HIDE DEF A, W
  <2>2. QED
    BY <1>1, <1>2, <1>3, <1>4, <1>5, <1>7, <2>1
<1>8. QED
  BY <1>6, <1>7

-----------------------------------------------------------------------------
(* The stages of process() *)

LEMMA StagesKeepHistory ==
    ASSUME NEW i \in Stage, Consistent(i), NEW hits, NEW met, NEW relevant, NEW now
    PROVE  LET v == Verified(i, hits)
               s == Settled(Confirmed(v, met), relevant, now)
           IN /\ s \in Stage /\ Consistent(s)
              /\ s.id = i.id /\ s.first = i.first
              /\ i.confirmed => s.confirmed /\ s.response = i.response
              /\ s.response = "AWAITING_RESPONSE" /\ i.response # "AWAITING_RESPONSE" =>
                   ~i.confirmed /\ (hits >= Required \/ i.hazard = "VERIFYING")
              /\ s.hazard = "VERIFYING" => hits >= Required \/ i.hazard = "VERIFYING"
              /\ s.hazard = "RESOLVED" => i.hazard = "RESOLVED"
<1> DEFINE v == Verified(i, hits)
           c == Confirmed(v, met)
           s == Settled(c, relevant, now)
<1>1. /\ v \in Stage /\ Consistent(v)
      /\ v.id = i.id /\ v.first = i.first /\ v.confirmed = i.confirmed /\ v.response = i.response
      /\ v.hazard = "VERIFYING" => hits >= Required \/ i.hazard = "VERIFYING"
      /\ v.hazard \in {i.hazard, "VERIFYING"}
  BY DEF Verified, Stage, Consistent, HazardStates, Responses
<1> HIDE DEF v
<1>2. /\ c \in Stage /\ Consistent(c)
      /\ c.id = v.id /\ c.first = v.first
      /\ \/ c = v
         \/ ~v.confirmed /\ v.hazard = "VERIFYING" /\ c.hazard = "CONFIRMED" /\ c.response = "AWAITING_RESPONSE"
  BY <1>1 DEF Confirmed, Confirm, Stage, Consistent, HazardStates, Responses
<1> HIDE DEF c
<1>3. /\ s \in Stage /\ Consistent(s)
      /\ s.id = c.id /\ s.first = c.first /\ s.confirmed = c.confirmed
      /\ s.response \in {c.response, "IDLE"} /\ (c.confirmed => s.response = c.response)
      /\ s.hazard \in {c.hazard, "CONFIRMED", "VISUAL_SIGNATURE_LOST", "CLEAR"}
  BY <1>2 DEF Settled, SeenAgain, OutOfSight, Stage, Consistent, HazardStates, Responses
<1> HIDE DEF s
<1>4. QED
  BY <1>1, <1>2, <1>3 DEF v, c, s, Consistent, Stage

-----------------------------------------------------------------------------
(* One frame *)

\* What process() does, without how it decides whether the confirmation rule is met.
LEMMA ProcessEffect ==
    ASSUME TypeOK, NEW e \in Evidence, NEW gap \in Gaps, Process(e, gap)
    PROVE  /\ e \in Detections /\ clock + gap \in Nat /\ clock + gap > clock
           /\ clock' = clock + gap /\ ~degraded /\ degraded' = degraded
           /\ last_relevant' \in {last_relevant, clock + gap}
           /\ high_start' \in {0, high_start, clock + gap}
           /\ window' = Pushed(e, clock + gap)
           /\ seen' = IF Relevant(e) THEN seen + 1 ELSE seen
           /\ \E i \in Stage, met \in BOOLEAN :
                LET s == Settled(Confirmed(Verified(i, Hits(window')), met), Relevant(e), clock + gap)
                IN /\ i = IF Relevant(e) /\ hazard_state \in {"CLEAR", "RESOLVED"}
                             THEN Opened(clock + gap) ELSE Kept
                   /\ incident_id' = s.id /\ hazard_state' = s.hazard /\ response_state' = s.response
                   /\ first_detection' = s.first /\ was_confirmed' = s.confirmed
<1> DEFINE now    == clock + gap
           opens  == Relevant(e) /\ hazard_state \in {"CLEAR", "RESOLVED"}
           start  == IF opens THEN Opened(now) ELSE Kept
           frames == Pushed(e, now)
<1>1. e \in Detections /\ now \in Nat /\ now > clock
  BY DEF TypeOK
<1>2. start \in Stage
  BY <1>1 DEF Opened, Kept, Stage, TypeOK, HazardStates, Responses
<1>3. /\ window' = frames /\ clock' = now /\ seen' = IF Relevant(e) THEN seen + 1 ELSE seen
      /\ ~degraded /\ degraded' = degraded
      /\ last_relevant' \in {last_relevant, now} /\ high_start' \in {0, high_start, now}
  BY DEF Process, HighStart
<1>4. \A growth \in GrowthStable(frames, now) : growth \in BOOLEAN
  BY DEF GrowthStable
<1> HIDE DEF start, frames, now, opens
<1>5. QED
  BY <1>1, <1>2, <1>3, <1>4 DEF Process, start, frames, now, opens

-----------------------------------------------------------------------------
(* The invariant *)

\* ShowsHistory is kept by process() because a degraded engine processes nothing; that an
\* answer is asked for with evidence, and that what is resolved was cancelled, because
\* manual_reset empties the window and needs a cancelled response.
EngineInv ==
    /\ TypeOK
    /\ ShowsHistory
    /\ hazard_state = "DEGRADED" => degraded
    /\ Hits(window) <= seen
    /\ hazard_state = "VERIFYING" => seen >= Required
    /\ hazard_state = "RESOLVED" => response_state = "CANCELLED"

LEMMA EmptyWindow == Hits(<< >>) = 0
  BY FS_EmptySet DEF Hits

\* A frame keeps the invariant, and asks only for what AskedOnce allows.
LEMMA ProcessKeeps ==
    ASSUME EngineInv, NEW e \in Evidence, NEW gap \in Gaps, Process(e, gap)
    PROVE  /\ EngineInv'
           /\ response_state' = "AWAITING_RESPONSE" /\ response_state # "AWAITING_RESPONSE" =>
                (~was_confirmed \/ incident_id' # incident_id) /\ seen' >= Required
           /\ incident_id' # incident_id /\ was_confirmed =>
                response_state = "CANCELLED" /\ ~degraded
<1> DEFINE now   == clock + gap
           opens == Relevant(e) /\ hazard_state \in {"CLEAR", "RESOLVED"}
<1>1. TypeOK /\ ShowsHistory
  BY DEF EngineInv
<1>2. PICK i \in Stage, met \in BOOLEAN :
        /\ i = IF opens THEN Opened(now) ELSE Kept
        /\ LET s == Settled(Confirmed(Verified(i, Hits(window')), met), Relevant(e), now)
           IN /\ incident_id' = s.id /\ hazard_state' = s.hazard /\ response_state' = s.response
              /\ first_detection' = s.first /\ was_confirmed' = s.confirmed
  BY <1>1, ProcessEffect
<1>3. /\ now \in Nat /\ now > clock /\ clock' = now /\ ~degraded /\ degraded' = degraded
      /\ last_relevant' \in {last_relevant, now} /\ high_start' \in {0, high_start, now}
      /\ window' = Pushed(e, now) /\ seen' = IF Relevant(e) THEN seen + 1 ELSE seen
      /\ e \in Detections
  BY <1>1, ProcessEffect
<1>4. /\ window' \in Seq(Frames) /\ Len(window') <= Window
      /\ Hits(window) \in Nat /\ Hits(window') \in Nat
      /\ Hits(window') <= Hits(window) + 1
      /\ ~Relevant(e) => Hits(window') <= Hits(window)
  BY <1>1, <1>3, PushKeepsWindow DEF TypeOK
<1>5. Hits(window') <= seen' /\ seen' \in Nat /\ seen' >= seen
  BY <1>1, <1>3, <1>4 DEF EngineInv, TypeOK
<1>6. Consistent(i)
  BY <1>1, <1>2, <1>3 DEF EngineInv, ShowsHistory, Consistent, Opened, Kept
<1> DEFINE s == Settled(Confirmed(Verified(i, Hits(window')), met), Relevant(e), now)
<1>7. /\ s \in Stage /\ Consistent(s)
      /\ s.id = i.id /\ s.first = i.first
      /\ i.confirmed => s.confirmed /\ s.response = i.response
      /\ s.response = "AWAITING_RESPONSE" /\ i.response # "AWAITING_RESPONSE" =>
           ~i.confirmed /\ (Hits(window') >= Required \/ i.hazard = "VERIFYING")
      /\ s.hazard = "VERIFYING" => Hits(window') >= Required \/ i.hazard = "VERIFYING"
      /\ s.hazard = "RESOLVED" => i.hazard = "RESOLVED"
  BY <1>6, StagesKeepHistory
<1>8. /\ incident_id' = s.id /\ hazard_state' = s.hazard /\ response_state' = s.response
      /\ first_detection' = s.first /\ was_confirmed' = s.confirmed
  BY <1>2
<1> HIDE DEF s, now
<1>9. i = IF opens THEN Opened(now) ELSE Kept
  BY <1>2
<1>10. /\ opens => i.id = incident_id + 1 /\ i.first = now /\ ~i.confirmed
                    /\ i.response = "IDLE" /\ i.hazard = "SUSPECTED"
       /\ ~opens => i.id = incident_id /\ i.first = first_detection
                     /\ (i.confirmed <=> was_confirmed)
                     /\ i.response = response_state /\ i.hazard = hazard_state
  BY <1>9 DEF Opened, Kept
<1>11. i.hazard = "VERIFYING" => seen >= Required
  BY <1>10 DEF EngineInv
<1>12. TypeOK'
  <2>1. incident_id' \in Nat /\ first_detection' \in 0..clock'
    BY <1>1, <1>3, <1>7, <1>8, <1>10 DEF TypeOK
  <2>2. last_relevant' \in 0..clock' /\ high_start' \in 0..clock'
    BY <1>1, <1>3 DEF TypeOK
  <2>3. hazard_state' \in HazardStates /\ response_state' \in Responses
    BY <1>7, <1>8 DEF Stage
  <2>4. was_confirmed' \in BOOLEAN
    BY <1>7, <1>8 DEF Stage
  <2>5. degraded' \in BOOLEAN
    BY <1>1, <1>3 DEF TypeOK
  <2>6. QED
    BY <1>3, <1>4, <1>5, <2>1, <2>2, <2>3, <2>4, <2>5 DEF TypeOK, HazardStates, Responses
<1>13. ShowsHistory' /\ hazard_state' # "DEGRADED"
  BY <1>7, <1>8 DEF Consistent, ShowsHistory
<1>14. hazard_state' = "VERIFYING" => seen' >= Required
  BY <1>1, <1>4, <1>5, <1>7, <1>8, <1>11 DEF TypeOK
<1>15. hazard_state' = "RESOLVED" => response_state' = "CANCELLED"
  <2> SUFFICES ASSUME hazard_state' = "RESOLVED" PROVE response_state' = "CANCELLED"
    OBVIOUS
  <2>1. i.hazard = "RESOLVED" /\ ~opens /\ hazard_state = "RESOLVED"
    BY <1>7, <1>8, <1>10
  <2>2. was_confirmed /\ response_state = "CANCELLED"
    BY <1>1, <2>1 DEF EngineInv, ShowsHistory
  <2>3. QED
    BY <1>7, <1>8, <1>10, <2>1, <2>2
<1>16. ASSUME response_state' = "AWAITING_RESPONSE", response_state # "AWAITING_RESPONSE"
       PROVE  (~was_confirmed \/ incident_id' # incident_id) /\ seen' >= Required
  <2>1. ~i.confirmed /\ (Hits(window') >= Required \/ i.hazard = "VERIFYING")
    BY <1>7, <1>8, <1>10, <1>16
  <2>2. seen' >= Required
    BY <1>1, <1>4, <1>5, <1>11, <2>1 DEF TypeOK
  <2>3. ~was_confirmed \/ incident_id' # incident_id
    BY <1>1, <1>7, <1>8, <1>10, <2>1 DEF TypeOK
  <2>4. QED
    BY <2>2, <2>3
<1>17. ASSUME incident_id' # incident_id, was_confirmed
       PROVE  response_state = "CANCELLED" /\ ~degraded
  <2>1. opens
    BY <1>7, <1>8, <1>10, <1>17
  <2>2. hazard_state = "RESOLVED"
    BY <1>1, <1>17, <2>1 DEF ShowsHistory
  <2>3. QED
    BY <1>3, <2>2 DEF EngineInv
<1>18. EngineInv'
  BY <1>5, <1>12, <1>13, <1>14, <1>15 DEF EngineInv
<1>19. QED
  BY <1>16, <1>17, <1>18

LEMMA EngineKeeps == EngineInv /\ [Next]_vars => EngineInv'
<1> SUFFICES ASSUME EngineInv, [Next]_vars PROVE EngineInv'
  OBVIOUS
<1>1. TypeOK /\ ShowsHistory
  BY DEF EngineInv
<1>2. ASSUME NEW gap \in Gaps, NEW e \in Evidence, Process(e, gap) PROVE EngineInv'
  BY <1>2, ProcessKeeps
<1>3. ASSUME NEW gap \in Gaps, ProcessDegraded(gap) PROVE EngineInv'
  <2>1. clock' \in Nat /\ clock' >= clock
    BY <1>1, <1>3 DEF ProcessDegraded, TypeOK
  <2>2. TypeOK'
    BY <1>1, <1>3, <2>1 DEF ProcessDegraded, TypeOK
  <2>3. QED
    BY <1>3, <2>2 DEF ProcessDegraded, EngineInv, ShowsHistory, Hits
<1>4. CASE Cancel
  <2>1. TypeOK'
    BY <1>1, <1>4 DEF Cancel, TypeOK
  <2>2. QED
    BY <1>4, <2>1 DEF Cancel, EngineInv, ShowsHistory, Hits
<1>5. CASE ConfirmOccupant
  <2>1. TypeOK'
    BY <1>1, <1>5 DEF ConfirmOccupant, TypeOK
  <2>2. QED
    BY <1>5, <2>1 DEF ConfirmOccupant, EngineInv, ShowsHistory, Hits
<1>6. CASE ManualReset
  <2>1. TypeOK' /\ response_state = "CANCELLED"
    BY <1>1, <1>6 DEF ManualReset, TypeOK
  <2>2. Hits(window') <= seen'
    BY <1>6, EmptyWindow DEF ManualReset
  <2>3. QED
    BY <1>6, <2>1, <2>2 DEF ManualReset, EngineInv, ShowsHistory
<1>7. ASSUME NEW value \in BOOLEAN, SetDegraded(value) PROVE EngineInv'
  <2>1. TypeOK'
    BY <1>1, <1>7 DEF SetDegraded, Recovered, TypeOK
  <2>2. QED
    BY <1>7, <2>1 DEF SetDegraded, Recovered, EngineInv, ShowsHistory, Hits
<1>8. CASE UNCHANGED vars
  BY <1>8 DEF vars, snapshot, EngineInv, TypeOK, ShowsHistory, Hits
<1>9. QED
  BY <1>2, <1>3, <1>4, <1>5, <1>6, <1>7, <1>8 DEF Next

LEMMA EngineAlways == Spec => []EngineInv
<1>1. ASSUME Init PROVE EngineInv
  <2>1. window \in Seq(Frames) /\ Len(window) <= Window /\ Hits(window) <= seen
    BY <1>1, EmptyWindow DEF Init
  <2>2. was_confirmed \in BOOLEAN /\ degraded \in BOOLEAN
    BY <1>1 DEF Init
  <2>3. clock = 0 /\ 0 \in 0..clock
    BY <1>1 DEF Init
  <2>4. TypeOK
    BY <1>1, <2>1, <2>2, <2>3 DEF Init, TypeOK
  <2>5. ShowsHistory
    BY <1>1 DEF Init, ShowsHistory
  <2>6. QED
    BY <1>1, <2>1, <2>4, <2>5 DEF Init, EngineInv
<1>2. QED
  BY <1>1, EngineKeeps, PTL DEF Spec

\* The window never outgrows its bound and no recorded time lies ahead of the clock,
\* whatever process() and its owner do.
THEOREM EngineType == Spec => []TypeOK
<1>1. EngineInv => TypeOK
  BY DEF EngineInv
<1>2. QED
  BY <1>1, EngineAlways, PTL

\* What the engine shows agrees with whether the fire was confirmed, for any thresholds.
THEOREM HistoryShown == Spec => []ShowsHistory
<1>1. EngineInv => ShowsHistory
  BY DEF EngineInv
<1>2. QED
  BY <1>1, EngineAlways, PTL

\* confirm_visual() runs once for an incident and with enough frames since manual_reset.
THEOREM OccupantAskedOnce == Spec => AskedOnce
<1> DEFINE Asks ==
      /\ response_state' = "AWAITING_RESPONSE" /\ response_state # "AWAITING_RESPONSE" =>
           /\ ~was_confirmed \/ incident_id' # incident_id
           /\ seen' >= Required
      /\ incident_id' # incident_id /\ was_confirmed =>
           response_state = "CANCELLED" /\ ~degraded
<1>1. EngineInv /\ [Next]_vars =>
        [/\ response_state' = "AWAITING_RESPONSE" /\ response_state # "AWAITING_RESPONSE" =>
              /\ ~was_confirmed \/ incident_id' # incident_id
              /\ seen' >= Required
         /\ incident_id' # incident_id /\ was_confirmed =>
              response_state = "CANCELLED" /\ ~degraded]_vars
  <2> SUFFICES ASSUME EngineInv, Next PROVE Asks
    OBVIOUS
  <2>1. ASSUME NEW gap \in Gaps, NEW e \in Evidence, Process(e, gap) PROVE Asks
    BY <2>1, ProcessKeeps
  <2>2. ASSUME NEW gap \in Gaps, ProcessDegraded(gap) PROVE Asks
    BY <2>2 DEF ProcessDegraded
  <2>3. ASSUME Cancel \/ ConfirmOccupant \/ ManualReset PROVE Asks
    BY <2>3 DEF Cancel, ConfirmOccupant, ManualReset
  <2>4. ASSUME NEW value \in BOOLEAN, SetDegraded(value) PROVE Asks
    BY <2>4 DEF SetDegraded
  <2>5. QED
    BY <2>1, <2>2, <2>3, <2>4 DEF Next
<1>2. QED
  BY <1>1, EngineAlways, PTL DEF Spec, AskedOnce
=============================================================================
