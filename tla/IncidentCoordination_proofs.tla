---------------------- MODULE IncidentCoordination_proofs ----------------------
(***************************************************************************)
(* Theorems of IncidentCoordination: type correctness, the call policy and *)
(* the timer's guarantees, for every set of incidents, every report a      *)
(* device may send, every limit and every bound.                           *)
(***************************************************************************)
EXTENDS IncidentCoordination, FiniteSetTheorems, TLAPS

-----------------------------------------------------------------------------
(* What the operators shared by several actions preserve *)

\* A device update writes well-typed incident rows (upsert_incident).
LEMMA UpsertType ==
    ASSUME NEW i \in Incidents, NEW report \in DeviceReports,
           IncidentRowsOK, UpsertIncident(i, report)
    PROVE  IncidentRowsOK'
<1>1. report.hazard \in Hazards /\ report.response \in Responses
  BY ReportAssumption
<1>2. "ABSENT" \notin Hazards /\ "ABSENT" \notin Responses
  BY DEF Hazards, Responses
<1>3. response_state[i] \in BackendOwned => response_state[i] # "ABSENT"
  BY DEF BackendOwned
<1>4. QED
  BY <1>1, <1>2, <1>3 DEF IncidentRowsOK, UpsertIncident, Known

\* So does the verdict of an operator or of the timer on an existing row
\* (update_incident_response).
LEMMA SetResponseType ==
    ASSUME NEW i \in Incidents, IncidentRowsOK, Known(i),
           NEW response \in Responses,
           NEW occupant \in {"no_response", "confirmed", "cancelled"},
           SetResponse(i, response, occupant),
           no_response_events' \in [Incidents -> Nat]
    PROVE  IncidentRowsOK'
<1>1. "ABSENT" \notin Responses
  BY DEF Responses
<1>2. QED
  BY <1>1 DEF IncidentRowsOK, SetResponse, Known

\* A status always has a response state of its own (the mapping of update_call_attempt).
LEMMA ResponseForType ==
    ASSUME NEW status \in Statuses
    PROVE  ResponseFor(status) \in Escalated
BY DEF ResponseFor, Statuses, Escalated, Settled, Responses

\* Overwriting an inserted attempt and its incident keeps both tables well typed.
LEMMA UpdateAttemptType ==
    ASSUME NEW a \in 1..attempts, NEW status \in Statuses,
           IncidentRowsOK, AttemptRowsOK, Known(call_incident[a]),
           UpdateAttempt(a, status)
    PROVE  IncidentRowsOK' /\ AttemptRowsOK'
<1>1. ResponseFor(status) \in Responses \ {"ABSENT"}
  BY ResponseForType DEF Escalated, Settled, Responses
<1>2. a \in AttemptIds /\ call_incident[a] \in Incidents
  BY LimitAssumption DEF AttemptRowsOK, AttemptIds
<1>3. IncidentRowsOK'
  BY <1>1, <1>2 DEF IncidentRowsOK, UpdateAttempt, Known
<1>4. AttemptRowsOK'
  BY <1>2 DEF AttemptRowsOK, UpdateAttempt
<1>5. QED
  BY <1>3, <1>4

\* Reserving a call keeps every table well typed (reserve_call_attempt).
LEMMA RequestType ==
    ASSUME NEW i \in Incidents, NEW caller \in {"api", "timer"}, Known(i),
           IncidentRowsOK, AttemptRowsOK, flight \in [AttemptIds -> {"none", "api", "timer"}],
           provider \in [AttemptIds -> ProviderStates], now \in Nat,
           RequestDemoCall(i, caller)
    PROVE  /\ IncidentRowsOK' /\ AttemptRowsOK'
           /\ flight' \in [AttemptIds -> {"none", "api", "timer"}]
           /\ provider' \in [AttemptIds -> ProviderStates]
<1> DEFINE a == attempts + 1
           status == IF CallMode = "mock" THEN "INITIATED" ELSE "REQUESTED"
<1>1. status \in Statuses
  BY DEF Statuses
<1>2. ResponseFor(status) \in Responses \ {"ABSENT"}
  BY <1>1, ResponseForType DEF Escalated, Settled, Responses
<1>3. a \in AttemptIds /\ a \in 1..MaxAttempts /\ attempts' = a
  BY LimitAssumption DEF RequestDemoCall, AttemptRowsOK, AttemptIds
<1>4. IncidentRowsOK'
  BY <1>2 DEF IncidentRowsOK, RequestDemoCall, Known
<1>5. AttemptRowsOK'
  <2>1. /\ call_incident' \in [AttemptIds -> Incidents \cup {NoIncident}]
        /\ call_status' \in [AttemptIds -> Statuses]
        /\ requested_at' \in [AttemptIds -> Nat]
    BY <1>1, <1>3 DEF AttemptRowsOK, RequestDemoCall
  <2>2. \A b \in 1..attempts' : call_incident'[b] \in Incidents
    BY <1>3, LimitAssumption DEF AttemptRowsOK, RequestDemoCall, AttemptIds
  <2>3. failed_once' \subseteq 1..attempts'
    BY <1>3, LimitAssumption DEF AttemptRowsOK, RequestDemoCall
  <2>4. QED
    BY <2>1, <2>2, <2>3, <1>3 DEF AttemptRowsOK
<1>6. flight' \in [AttemptIds -> {"none", "api", "timer"}]
  BY <1>3 DEF RequestDemoCall
<1>7. provider' \in [AttemptIds -> ProviderStates]
  BY <1>3 DEF RequestDemoCall, ProviderStates
<1>8. QED
  BY <1>4, <1>5, <1>6, <1>7

\* Rows never disappear, so an attempt's incident stays on record.
LEMMA LinkKept ==
    ASSUME TypeOK, AttemptRowsOK',
           \A i \in Incidents : Known(i) => Known(i)',
           \/ UNCHANGED <<attempts, call_incident>>
           \/ \E i \in Incidents : /\ Known(i)
                                   /\ attempts' = attempts + 1
                                   /\ call_incident' = [call_incident EXCEPT ![attempts + 1] = i]
    PROVE  \A a \in 1..attempts' : Known(call_incident[a])'
<1> USE LimitAssumption DEF TypeOK, AttemptRowsOK, AttemptIds
<1>1. CASE UNCHANGED <<attempts, call_incident>>
  BY <1>1 DEF Known
<1>2. ASSUME NEW i \in Incidents, Known(i), attempts' = attempts + 1,
             call_incident' = [call_incident EXCEPT ![attempts + 1] = i]
      PROVE  \A a \in 1..attempts' : Known(call_incident[a])'
  <2> SUFFICES ASSUME NEW a \in 1..attempts' PROVE Known(call_incident[a])'
    OBVIOUS
  <2>1. CASE a = attempts + 1
    BY <1>2, <2>1 DEF Known
  <2>2. CASE a \in 1..attempts
    <3>1. call_incident'[a] = call_incident[a]
      BY <1>2, <2>2
    <3>2. call_incident[a] \in Incidents /\ Known(call_incident[a])
      BY <2>2
    <3>3. QED
      BY <3>1, <3>2 DEF Known
  <2>3. QED
    BY <1>2, <2>1, <2>2
<1>3. QED
  BY <1>1, <1>2

-----------------------------------------------------------------------------
(* Type correctness *)

LEMMA TypeInit == Init => TypeOK
<1> SUFFICES ASSUME Init PROVE TypeOK
  OBVIOUS
<1>1. IncidentRowsOK
  BY DEF Init, IncidentRowsOK
<1>2. AttemptRowsOK
  BY LimitAssumption DEF Init, AttemptRowsOK, Statuses
<1>3. TasksOK
  BY DEF Init, TasksOK
<1>4. \A a \in 1..attempts : Known(call_incident[a])
  BY DEF Init
<1>5. provider \in [AttemptIds -> ProviderStates]
  BY DEF Init, ProviderStates
<1>6. armed \in BOOLEAN /\ now \in Nat
  BY DEF Init
<1>7. QED
  BY <1>1, <1>2, <1>3, <1>4, <1>5, <1>6 DEF TypeOK

LEMMA TypeStep == TypeOK /\ [Next]_vars => TypeOK'
<1> SUFFICES ASSUME TypeOK, [Next]_vars PROVE TypeOK'
  OBVIOUS
<1> USE DEF TypeOK
<1>1. ASSUME NEW i \in Incidents, NEW report \in DeviceReports, DeviceUpdate(i, report)
      PROVE  TypeOK'
  <2>1. IncidentRowsOK'
    BY <1>1, UpsertType DEF DeviceUpdate
  <2>2. AttemptRowsOK' /\ UNCHANGED <<attempts, call_incident>>
    BY <1>1 DEF DeviceUpdate, attemptVars, AttemptRowsOK
  <2>3. \A j \in Incidents : Known(j) => Known(j)'
    BY <1>1, ReportAssumption DEF DeviceUpdate, UpsertIncident, Known, IncidentRowsOK, Hazards
  <2>4. TasksOK'
    BY <1>1 DEF DeviceUpdate, TasksOK
  <2>5. QED
    BY <1>1, <2>1, <2>2, <2>3, <2>4, LinkKept DEF DeviceUpdate
<1>2. ASSUME NEW i \in Incidents,
             \/ Observe(i) \/ TimerReturns(i) \/ TimerBlocked(i)
      PROVE  TypeOK'
  <2>1. UNCHANGED <<incidentVars, attemptVars, flight, provider, armed, now>>
    BY <1>2 DEF Observe, TimerReturns, TimerBlocked
  <2>2. TasksOK'
    BY <1>2, <2>1 DEF Observe, TimerReturns, TimerBlocked, TasksOK
  <2>3. QED
    BY <2>1, <2>2 DEF incidentVars, attemptVars, IncidentRowsOK, AttemptRowsOK, Known
<1>3. ASSUME NEW i \in Incidents, TimerEscalates(i)
      PROVE  TypeOK'
  <2>1. Known(i) /\ no_response_events' \in [Incidents -> Nat]
    BY <1>3 DEF TimerEscalates, IncidentRowsOK, Known, Visible
  <2>2. IncidentRowsOK'
    BY <1>3, <2>1, SetResponseType DEF TimerEscalates, Responses
  <2>3. QED
    BY <1>3, <2>2 DEF TimerEscalates, SetResponse, attemptVars, AttemptRowsOK, TasksOK, Known
<1>4. ASSUME NEW i \in Incidents, NEW caller \in {"api", "timer"}, RequestDemoCall(i, caller),
             CallAllowed(i), timer' \in [Incidents -> {"none", "sleeping", "announcing", "posting"}],
             UNCHANGED <<observing, armed, now>>
      PROVE  TypeOK'
  <2>1. Known(i)
    BY <1>4 DEF CallAllowed, IncidentRowsOK
  <2>2. /\ IncidentRowsOK' /\ AttemptRowsOK'
        /\ flight' \in [AttemptIds -> {"none", "api", "timer"}]
        /\ provider' \in [AttemptIds -> ProviderStates]
    BY <1>4, <2>1, RequestType DEF TasksOK
  <2>3. \A a \in 1..attempts' : Known(call_incident[a])'
    <3>1. /\ attempts' = attempts + 1
          /\ call_incident' = [call_incident EXCEPT ![attempts + 1] = i]
          /\ \A j \in Incidents : Known(j) => Known(j)'
      BY <1>4 DEF RequestDemoCall, Known
    <3>2. QED
      BY <2>1, <2>2, <3>1, LinkKept
  <2>4. QED
    BY <1>4, <2>2, <2>3 DEF TasksOK
<1>5. ASSUME NEW i \in Incidents, TimerCalls(i) \/ CallDemoDispatch(i)
      PROVE  TypeOK'
  <2>1. timer' \in [Incidents -> {"none", "sleeping", "announcing", "posting"}]
    BY <1>5 DEF TimerCalls, CallDemoDispatch, TasksOK
  <2>2. QED
    BY <1>4, <1>5, <2>1 DEF TimerCalls, CallDemoDispatch
<1>6. ASSUME NEW i \in Incidents, Confirm(i) \/ Cancel(i)
      PROVE  TypeOK'
  <2>1. /\ Known(i)
        /\ CancelTimer(i)
        /\ UNCHANGED <<no_response_events, attemptVars, observing, provider, armed, now>>
        /\ SetResponse(i, "ESCALATING", "confirmed") \/ SetResponse(i, "CANCELLED", "cancelled")
    BY <1>6 DEF Confirm, Cancel, Known, Visible
  <2>2. IncidentRowsOK'
    <3>1. no_response_events' \in [Incidents -> Nat]
      BY <2>1 DEF IncidentRowsOK
    <3>2. QED
      BY <2>1, <3>1, SetResponseType DEF Responses
  <2>3. TasksOK'
    BY <2>1 DEF TasksOK, CancelTimer
  <2>4. QED
    BY <2>1, <2>2, <2>3 DEF SetResponse, attemptVars, AttemptRowsOK, Known
<1>7. ASSUME NEW i \in Incidents, Reset(i)
      PROVE  TypeOK'
  <2>1. IncidentRowsOK'
    BY <1>7 DEF Reset, IncidentRowsOK, Known, Hazards
  <2>2. \A j \in Incidents : Known(j) => Known(j)'
    BY <1>7 DEF Reset, IncidentRowsOK, Known
  <2>3. AttemptRowsOK' /\ TasksOK' /\ UNCHANGED <<attempts, call_incident>>
    BY <1>7 DEF Reset, attemptVars, taskVars, AttemptRowsOK, TasksOK
  <2>4. QED
    BY <1>7, <2>1, <2>2, <2>3, LinkKept DEF Reset
<1>8. ASSUME NEW a \in 1..attempts, NEW status \in Statuses, UpdateAttempt(a, status), TasksOK',
             provider' \in [AttemptIds -> ProviderStates], UNCHANGED <<armed, now>>
      PROVE  TypeOK'
  <2>1. IncidentRowsOK' /\ AttemptRowsOK'
    BY <1>8, UpdateAttemptType
  <2>2. QED
    BY <1>8, <2>1 DEF UpdateAttempt, Known
<1>9. ASSUME NEW i \in Incidents, NEW status \in {"CONNECTED", "COMPLETED", "FAILED"},
             ProviderCallStatus(i, status)
      PROVE  TypeOK'
  <2>1. status \in Statuses
    BY DEF Statuses
  <2>2. PICK a \in Attempts(i) : UpdateAttempt(a, status)
    BY <1>9 DEF ProviderCallStatus
  <2>3. a \in 1..attempts
    BY DEF Attempts
  <2>4. TasksOK' /\ UNCHANGED <<provider, armed, now>>
    BY <1>9 DEF ProviderCallStatus, taskVars, TasksOK
  <2>5. QED
    BY <1>8, <2>1, <2>2, <2>3, <2>4
<1>10. ASSUME NEW a \in 1..attempts, FinishPost(a)
       PROVE  TasksOK' /\ UNCHANGED <<provider, armed, now>>
  BY <1>10, LimitAssumption DEF FinishPost, TasksOK, AttemptRowsOK, AttemptIds
<1>11. ASSUME NEW a \in 1..attempts, NEW status \in Outcomes(a), PostReturns(a, status)
       PROVE  TypeOK'
  <2>1. status \in Statuses
    BY DEF Outcomes, Statuses
  <2>2. QED
    BY <1>8, <1>10, <1>11, <2>1 DEF PostReturns
<1>12. ASSUME NEW a \in 1..attempts, PostUnreadable(a)
       PROVE  TypeOK'
  BY <1>10, <1>12
     DEF PostUnreadable, incidentVars, attemptVars, IncidentRowsOK, AttemptRowsOK, Known
<1>13. ASSUME NEW a \in 1..attempts, ProviderActs(a)
       PROVE  TypeOK'
  <2>1. provider' \in [AttemptIds -> ProviderStates]
    BY <1>13, LimitAssumption DEF ProviderActs, ProviderStates, AttemptRowsOK, AttemptIds
  <2>2. QED
    BY <1>13, <2>1
       DEF ProviderActs, incidentVars, attemptVars, taskVars, IncidentRowsOK, AttemptRowsOK,
           TasksOK, Known
<1>14. ASSUME NEW value \in BOOLEAN, SetArmed(value)
       PROVE  TypeOK'
  BY <1>14 DEF SetArmed, incidentVars, attemptVars, taskVars, IncidentRowsOK, AttemptRowsOK,
               TasksOK, Known
<1>15. CASE Restart
  BY <1>15 DEF Restart, incidentVars, attemptVars, IncidentRowsOK, AttemptRowsOK, TasksOK, Known
<1>16. CASE Tick
  BY <1>16 DEF Tick, incidentVars, attemptVars, taskVars, IncidentRowsOK, AttemptRowsOK,
               TasksOK, Known
<1>17. CASE UNCHANGED vars
  BY <1>17 DEF vars, incidentVars, attemptVars, taskVars, IncidentRowsOK, AttemptRowsOK,
               TasksOK, Known
<1>18. QED
  BY <1>1, <1>2, <1>3, <1>5, <1>6, <1>7, <1>9, <1>11, <1>12, <1>13, <1>14, <1>15, <1>16, <1>17
     DEF Next, IncidentStep, AttemptStep

\* Every reachable state is well typed: each handler writes only values of the
\* columns' and the task table's types, and no attempt loses its incident.
THEOREM TypeCorrect == Spec => []TypeOK
<1>1. QED
  BY TypeInit, TypeStep, PTL DEF Spec

-----------------------------------------------------------------------------
(* The call policy *)

\* What the policy theorems have to know of a step: it reserves a call the policy
\* allows, or records what became of an attempt, or leaves the attempts alone; and
\* nothing is ever taken out of confirmed_at.
LEMMA StepKinds ==
    ASSUME TypeOK, [Next]_vars
    PROVE  \/ \E i \in Incidents, caller \in {"api", "timer"} :
                CallAllowed(i) /\ RequestDemoCall(i, caller) /\ UNCHANGED now
           \/ \E a \in 1..attempts, status \in Statuses :
                UpdateAttempt(a, status) /\ UNCHANGED now
           \/ /\ UNCHANGED attemptVars
              /\ confirmed_at \subseteq confirmed_at'
<1>1. ASSUME NEW i \in Incidents, IncidentStep(i)
      PROVE  \/ \E caller \in {"api", "timer"} :
                   CallAllowed(i) /\ RequestDemoCall(i, caller) /\ UNCHANGED now
             \/ \E a \in 1..attempts, status \in Statuses :
                   UpdateAttempt(a, status) /\ UNCHANGED now
             \/ /\ UNCHANGED attemptVars
                /\ confirmed_at \subseteq confirmed_at'
  <2>1. CASE TimerCalls(i) \/ CallDemoDispatch(i)
    BY <2>1 DEF TimerCalls, CallDemoDispatch
  <2>2. CASE \E report \in DeviceReports : DeviceUpdate(i, report)
    BY <2>2 DEF DeviceUpdate, UpsertIncident
  <2>3. CASE \/ Observe(i) \/ TimerReturns(i) \/ TimerEscalates(i) \/ TimerBlocked(i)
             \/ Confirm(i) \/ Cancel(i) \/ Reset(i)
    BY <2>3 DEF Observe, TimerReturns, TimerEscalates, TimerBlocked, Confirm, Cancel, Reset,
                SetResponse, incidentVars, attemptVars
  <2>4. CASE \E status \in {"CONNECTED", "COMPLETED", "FAILED"} : ProviderCallStatus(i, status)
    BY <2>4 DEF ProviderCallStatus, Attempts, Statuses
  <2>5. QED
    BY <1>1, <2>1, <2>2, <2>3, <2>4 DEF IncidentStep
<1>2. ASSUME NEW a \in 1..attempts, AttemptStep(a)
      PROVE  \/ \E status \in Statuses : UpdateAttempt(a, status) /\ UNCHANGED now
             \/ /\ UNCHANGED attemptVars
                /\ confirmed_at \subseteq confirmed_at'
  BY <1>2 DEF AttemptStep, ProviderActs, PostReturns, PostUnreadable, FinishPost, Outcomes,
              Statuses, incidentVars
<1>3. CASE Restart \/ Tick \/ (\E value \in BOOLEAN : SetArmed(value)) \/ UNCHANGED vars
  BY <1>3 DEF Restart, Tick, SetArmed, vars, incidentVars
<1>4. QED
  BY <1>1, <1>2, <1>3 DEF Next

\* A status is counted by the policy unless it is FAILED, and a failure is on record.
FailureRecorded == \A a \in 1..attempts : call_status[a] \in ActiveStatus \/ a \in failed_once

PolicyInv ==
    /\ FailureRecorded
    /\ CallsOnlyConfirmed
    /\ CooldownKept
    /\ RetryOnlyAfterFailure

\* Reserving a call the policy allows keeps the policy (reserve_call_attempt).
LEMMA RequestKeepsPolicy ==
    ASSUME TypeOK, TypeOK', PolicyInv, NEW i \in Incidents, NEW caller \in {"api", "timer"},
           CallAllowed(i), RequestDemoCall(i, caller)
    PROVE  PolicyInv'
<1> DEFINE new == attempts + 1
<1> USE LimitAssumption DEF TypeOK, AttemptRowsOK
<1>1. /\ attempts \in Nat /\ attempts' = new /\ new \in AttemptIds
      /\ 1..attempts' = (1..attempts) \cup {new} /\ new \notin 1..attempts
  BY DEF RequestDemoCall, AttemptIds
<1>2. /\ call_incident'[new] = i /\ requested_at'[new] = now
      /\ call_status'[new] \in ActiveStatus
      /\ failed_once' = failed_once /\ confirmed_at' = confirmed_at
  BY <1>1 DEF RequestDemoCall, ActiveStatus
<1>3. \A a \in 1..attempts : /\ call_incident'[a] = call_incident[a]
                              /\ requested_at'[a] = requested_at[a]
                              /\ call_status'[a] = call_status[a]
  BY <1>1 DEF RequestDemoCall, AttemptIds
<1>4. FailureRecorded'
  BY <1>1, <1>2, <1>3 DEF PolicyInv, FailureRecorded, ActiveStatus
<1>5. CallsOnlyConfirmed'
  BY <1>1, <1>2, <1>3 DEF PolicyInv, CallsOnlyConfirmed, CallAllowed
<1>6. CooldownKept'
  <2> SUFFICES ASSUME NEW a \in 1..attempts', NEW b \in 1..attempts', a < b
               PROVE  a \in failed_once' \/ requested_at'[a] + Cooldown <= requested_at'[b]
    BY DEF CooldownKept
  <2>1. a \in 1..attempts
    BY <1>1
  <2>2. CASE b \in 1..attempts
    BY <1>2, <1>3, <2>1, <2>2 DEF PolicyInv, CooldownKept
  <2>3. CASE b = new
    <3>1. a \in failed_once \/ a \in Active
      BY <2>1 DEF PolicyInv, FailureRecorded, Active
    <3>2. a \in Active => requested_at[a] + Cooldown <= now
      BY DEF CallAllowed
    <3>3. QED
      BY <1>2, <1>3, <2>1, <2>3, <3>1, <3>2
  <2>4. QED
    BY <1>1, <2>2, <2>3
<1>7. RetryOnlyAfterFailure'
  <2> SUFFICES ASSUME NEW j \in Incidents
               PROVE  Cardinality((Attempts(j) \ failed_once)') <= MaxCalls
    BY DEF RetryOnlyAfterFailure
  <2>1. CASE j # i
    <3>1. (Attempts(j) \ failed_once)' = Attempts(j) \ failed_once
      BY <1>1, <1>2, <1>3, <2>1 DEF Attempts
    <3>2. QED
      BY <3>1 DEF PolicyInv, RetryOnlyAfterFailure
  <2>2. CASE j = i
    <3> DEFINE standing == Attempts(i) \ failed_once
               counted  == Active \cap Attempts(i)
    <3>1. (Attempts(j) \ failed_once)' = standing \cup {new} /\ new \notin standing
      BY <1>1, <1>2, <1>3, <2>2 DEF Attempts
    <3>2. IsFiniteSet(counted)
      <4>1. IsFiniteSet(1..attempts)
        BY <1>1, FS_Interval
      <4>2. counted \subseteq 1..attempts
        BY DEF Active
      <4>3. QED
        BY <4>1, <4>2, FS_Subset
    <3>3. standing \subseteq counted
      BY DEF PolicyInv, FailureRecorded, Active, Attempts
    <3>4. /\ IsFiniteSet(standing) /\ Cardinality(standing) \in Nat
          /\ Cardinality(standing) <= Cardinality(counted) /\ Cardinality(counted) \in Nat
      BY <3>2, <3>3, FS_Subset, FS_CardinalityType
    <3>5. Cardinality(counted) < MaxCalls
      BY DEF CallAllowed
    <3>6. Cardinality(standing \cup {new}) = Cardinality(standing) + 1
      BY <3>1, <3>4, FS_AddElement
    <3>7. Cardinality(standing) + 1 <= MaxCalls
      <4> HIDE DEF standing, counted
      <4>1. QED
        BY <3>4, <3>5
    <3>8. QED
      BY <3>1, <3>6, <3>7
  <2>3. QED
    BY <2>1, <2>2
<1>8. QED
  BY <1>4, <1>5, <1>6, <1>7 DEF PolicyInv

\* Recording an outcome can only add to the recorded failures (update_call_attempt).
LEMMA UpdateKeepsPolicy ==
    ASSUME TypeOK, PolicyInv, NEW a \in 1..attempts, NEW status \in Statuses,
           UpdateAttempt(a, status)
    PROVE  PolicyInv'
<1> USE LimitAssumption DEF TypeOK, AttemptRowsOK, UpdateAttempt, PolicyInv
<1>1. FailureRecorded'
  BY DEF FailureRecorded, ActiveStatus, Statuses, AttemptIds
<1>2. CallsOnlyConfirmed' /\ CooldownKept'
  BY DEF CallsOnlyConfirmed, CooldownKept
<1>3. RetryOnlyAfterFailure'
  <2> SUFFICES ASSUME NEW i \in Incidents
               PROVE  Cardinality((Attempts(i) \ failed_once)') <= MaxCalls
    BY DEF RetryOnlyAfterFailure
  <2>1. (Attempts(i) \ failed_once)' \subseteq Attempts(i) \ failed_once
    BY DEF Attempts
  <2>2. IsFiniteSet(Attempts(i) \ failed_once)
    <3>1. IsFiniteSet(1..attempts)
      BY FS_Interval
    <3>2. QED
      BY <3>1, FS_Subset DEF Attempts
  <2>3. /\ Cardinality((Attempts(i) \ failed_once)') <= Cardinality(Attempts(i) \ failed_once)
        /\ Cardinality(Attempts(i) \ failed_once) \in Nat
        /\ Cardinality((Attempts(i) \ failed_once)') \in Nat
    BY <2>1, <2>2, FS_Subset, FS_CardinalityType
  <2>4. QED
    BY <2>3 DEF RetryOnlyAfterFailure
<1>4. QED
  BY <1>1, <1>2, <1>3

LEMMA PolicyInvariant == Spec => []PolicyInv
<1>1. Init => PolicyInv
  <2> SUFFICES ASSUME Init PROVE PolicyInv
    OBVIOUS
  <2>1. 1..attempts = {}
    BY DEF Init
  <2>2. Cardinality({}) = 0
    BY FS_EmptySet
  <2>3. RetryOnlyAfterFailure
    <3>1. \A i \in Incidents : Attempts(i) \ failed_once = {}
      BY <2>1 DEF Attempts
    <3>2. 0 <= MaxCalls
      BY LimitAssumption
    <3>3. QED
      BY <2>2, <3>1, <3>2 DEF RetryOnlyAfterFailure
  <2>4. QED
    BY <2>1, <2>3 DEF PolicyInv, FailureRecorded, CallsOnlyConfirmed, CooldownKept
<1>2. TypeOK /\ TypeOK' /\ PolicyInv /\ [Next]_vars => PolicyInv'
  <2> SUFFICES ASSUME TypeOK, TypeOK', PolicyInv, [Next]_vars PROVE PolicyInv'
    OBVIOUS
  <2>1. CASE UNCHANGED attemptVars /\ confirmed_at \subseteq confirmed_at'
    BY <2>1 DEF attemptVars, PolicyInv, FailureRecorded, CallsOnlyConfirmed, CooldownKept,
                RetryOnlyAfterFailure, Attempts
  <2>2. QED
    BY <2>1, StepKinds, RequestKeepsPolicy, UpdateKeepsPolicy
<1>3. QED
  BY <1>1, <1>2, TypeCorrect, PTL DEF Spec

\* No call is requested for an incident that was never visually confirmed, and its
\* confirmation is never erased afterwards.
THEOREM CallsConfirmed == Spec => []CallsOnlyConfirmed
<1>1. PolicyInv => CallsOnlyConfirmed
  BY DEF PolicyInv
<1>2. QED
  BY <1>1, PolicyInvariant, PTL

\* Two calls are the cooldown apart unless the earlier one failed, whichever tasks,
\* endpoints, webhooks and restarts came between them.
THEOREM CooldownBetweenCalls == Spec => []CooldownKept
<1>1. PolicyInv => CooldownKept
  BY DEF PolicyInv
<1>2. QED
  BY <1>1, PolicyInvariant, PTL

\* Beyond its failed attempts, an incident never has more than max_calls of them.
THEOREM CallLimit == Spec => []RetryOnlyAfterFailure
<1>1. PolicyInv => RetryOnlyAfterFailure
  BY DEF PolicyInv
<1>2. QED
  BY <1>1, PolicyInvariant, PTL

-----------------------------------------------------------------------------
(* The occupant's answer and the deadline *)

\* A call result, whichever attempt it is of, leaves every incident's response settled
\* or untouched.
LEMMA UpdateSettles ==
    ASSUME TypeOK, NEW a \in 1..attempts, NEW status \in Statuses, UpdateAttempt(a, status),
           NEW i \in Incidents
    PROVE  /\ response_state'[i] = response_state[i] \/ response_state'[i] \in Escalated
           /\ UNCHANGED <<occupant_response, no_response_events>>
<1>1. ResponseFor(status) \in Escalated
  BY ResponseForType
<1>2. QED
  BY <1>1 DEF UpdateAttempt, TypeOK, IncidentRowsOK

\* So does reserving a call.
LEMMA RequestSettles ==
    ASSUME TypeOK, NEW j \in Incidents, NEW caller \in {"api", "timer"},
           RequestDemoCall(j, caller), NEW i \in Incidents
    PROVE  /\ response_state'[i] = response_state[i] \/ response_state'[i] \in Escalated
           /\ UNCHANGED <<occupant_response, no_response_events>>
<1> DEFINE status == IF CallMode = "mock" THEN "INITIATED" ELSE "REQUESTED"
<1>1. ResponseFor(status) \in Escalated
  BY ResponseForType DEF Statuses
<1>2. QED
  BY <1>1 DEF RequestDemoCall, TypeOK, IncidentRowsOK

\* What a step does to one incident's response, occupant verdict and escalation events:
\* the device may write an unsettled response, the timer escalates an awaiting one, an
\* operator settles it, or it stays or becomes a call state.
LEMMA VerdictSteps ==
    ASSUME TypeOK, [Next]_vars, NEW i \in Incidents
    PROVE  \/ /\ response_state[i] \in Settled => response_state'[i] \in Settled
              /\ UNCHANGED <<occupant_response[i], no_response_events[i]>>
           \/ /\ response_state[i] = "AWAITING_RESPONSE" /\ response_state'[i] = "ESCALATING"
              /\ occupant_response'[i] = "no_response"
              /\ no_response_events'[i] = no_response_events[i] + 1
           \/ /\ response_state'[i] \in {"ESCALATING", "CANCELLED"}
              /\ occupant_response'[i] \in {"confirmed", "cancelled"}
              /\ no_response_events'[i] = no_response_events[i]
<1> DEFINE Goal == \/ /\ response_state[i] \in Settled => response_state'[i] \in Settled
                      /\ UNCHANGED <<occupant_response[i], no_response_events[i]>>
                   \/ /\ response_state[i] = "AWAITING_RESPONSE"
                      /\ response_state'[i] = "ESCALATING"
                      /\ occupant_response'[i] = "no_response"
                      /\ no_response_events'[i] = no_response_events[i] + 1
                   \/ /\ response_state'[i] \in {"ESCALATING", "CANCELLED"}
                      /\ occupant_response'[i] \in {"confirmed", "cancelled"}
                      /\ no_response_events'[i] = no_response_events[i]
<1>1. ASSUME NEW j \in Incidents, NEW report \in DeviceReports, DeviceUpdate(j, report)
      PROVE  Goal
  <2>1. Settled = BackendOwned
    BY DEF Settled, BackendOwned, Responses
  <2>2. QED
    BY <1>1, <2>1 DEF DeviceUpdate, UpsertIncident, TypeOK, IncidentRowsOK
<1>2. ASSUME NEW j \in Incidents, TimerEscalates(j)
      PROVE  Goal
  BY <1>2 DEF TimerEscalates, SetResponse, TypeOK, IncidentRowsOK
<1>3. ASSUME NEW j \in Incidents, Confirm(j) \/ Cancel(j)
      PROVE  Goal
  BY <1>3 DEF Confirm, Cancel, SetResponse, TypeOK, IncidentRowsOK
<1>4. ASSUME NEW j \in Incidents, TimerCalls(j) \/ CallDemoDispatch(j)
      PROVE  Goal
  <2>1. \E caller \in {"api", "timer"} : RequestDemoCall(j, caller)
    BY <1>4 DEF TimerCalls, CallDemoDispatch
  <2>2. QED
    BY <2>1, RequestSettles DEF Escalated
<1>5. ASSUME NEW a \in 1..attempts, NEW status \in Statuses, UpdateAttempt(a, status)
      PROVE  Goal
  BY <1>5, UpdateSettles DEF Escalated
<1>6. ASSUME UNCHANGED <<response_state, occupant_response, no_response_events>>
      PROVE  Goal
  BY <1>6
<1>7. ASSUME NEW j \in Incidents, IncidentStep(j)
      PROVE  Goal
  <2>1. CASE Observe(j) \/ TimerReturns(j) \/ TimerBlocked(j) \/ Reset(j)
    BY <1>6, <2>1 DEF Observe, TimerReturns, TimerBlocked, Reset, incidentVars
  <2>2. CASE \E status \in {"CONNECTED", "COMPLETED", "FAILED"} : ProviderCallStatus(j, status)
    BY <1>5, <2>2 DEF ProviderCallStatus, Attempts, Statuses
  <2>3. QED
    BY <1>1, <1>2, <1>3, <1>4, <1>7, <2>1, <2>2 DEF IncidentStep
<1>8. ASSUME NEW a \in 1..attempts, AttemptStep(a)
      PROVE  Goal
  <2>1. CASE ProviderActs(a) \/ PostUnreadable(a)
    BY <1>6, <2>1 DEF ProviderActs, PostUnreadable, incidentVars
  <2>2. CASE \E status \in Outcomes(a) : PostReturns(a, status)
    BY <1>5, <2>2 DEF PostReturns, Outcomes, Statuses
  <2>3. QED
    BY <1>8, <2>1, <2>2 DEF AttemptStep
<1>9. CASE Restart \/ Tick \/ (\E value \in BOOLEAN : SetArmed(value)) \/ UNCHANGED vars
  BY <1>6, <1>9 DEF Restart, Tick, SetArmed, vars, incidentVars
<1>10. QED
  BY <1>7, <1>8, <1>9 DEF Next

\* A verdict on the occupant means the response is settled, so the timer, which needs an
\* awaiting incident, can neither repeat nor replace it.
VerdictInv ==
    \A i \in Incidents :
      /\ no_response_events[i] <= 1
      /\ \/ occupant_response[i] # "none" \/ no_response_events[i] > 0
         => response_state[i] \in Settled

LEMMA VerdictInvariant == Spec => []VerdictInv
<1>1. Init => VerdictInv
  BY DEF Init, VerdictInv
<1>2. TypeOK /\ VerdictInv /\ [Next]_vars => VerdictInv'
  <2> SUFFICES ASSUME TypeOK, VerdictInv, [Next]_vars, NEW i \in Incidents
               PROVE  /\ no_response_events'[i] <= 1
                      /\ \/ occupant_response'[i] # "none" \/ no_response_events'[i] > 0
                         => response_state'[i] \in Settled
    BY DEF VerdictInv
  <2>1. no_response_events[i] \in Nat
    BY DEF TypeOK, IncidentRowsOK
  <2>2. QED
    BY <2>1, VerdictSteps DEF VerdictInv, Settled, Responses
<1>3. QED
  BY <1>1, <1>2, TypeCorrect, PTL DEF Spec

\* The deadline passes at most once for an incident: replays, timers started again,
\* operators and restarts never escalate it a second time.
THEOREM EscalatedOnce == Spec => []EscalatesOnce
<1>1. VerdictInv => EscalatesOnce
  BY DEF VerdictInv, EscalatesOnce
<1>2. QED
  BY <1>1, VerdictInvariant, PTL

\* The occupant's answer is never replaced by "no response", and a settled response is
\* never handed back to the device.
THEOREM AnswerNeverLost == Spec => AnswerStands
<1> DEFINE Stands == \A i \in Incidents :
                       /\ occupant_response[i] \in {"confirmed", "cancelled"} =>
                            occupant_response'[i] \in {"confirmed", "cancelled"}
                       /\ response_state[i] \in Settled => response_state'[i] \in Settled
<1>1. TypeOK /\ VerdictInv /\ [Next]_vars => Stands
  <2> SUFFICES ASSUME TypeOK, VerdictInv, [Next]_vars, NEW i \in Incidents
               PROVE  /\ occupant_response[i] \in {"confirmed", "cancelled"} =>
                           occupant_response'[i] \in {"confirmed", "cancelled"}
                      /\ response_state[i] \in Settled => response_state'[i] \in Settled
    OBVIOUS
  <2>1. QED
    BY VerdictSteps DEF VerdictInv, Settled, Responses
<1>2. QED
  BY <1>1, TypeCorrect, VerdictInvariant, PTL DEF Spec, AnswerStands

-----------------------------------------------------------------------------
(* The timer's task and its request *)

\* A task that posts is tied to one attempt: of its incident, and the only one that a
\* task of this incident waits for.
TaskInv ==
    /\ \A i \in Incidents : timer[i] \in {"announcing", "posting"} => response_state[i] \in Escalated
    /\ \A i \in Incidents : timer[i] = "posting" => \E a \in Attempts(i) : flight[a] = "timer"
    /\ \A a \in AttemptIds : flight[a] = "timer" => a \in 1..attempts /\ timer[call_incident[a]] = "posting"
    /\ \A a, b \in AttemptIds :
         flight[a] = "timer" /\ flight[b] = "timer" /\ call_incident[a] = call_incident[b] => a = b

\* A task past its deadline serves an escalated incident and waits for that incident's own
\* attempt, through every cancellation, answer, webhook and restart.
THEOREM TimerServed == Spec => []TimerServesEscalation
<1>1. Init => TaskInv
  BY DEF Init, TaskInv
<1>2. ASSUME TypeOK, TaskInv, [Next]_vars PROVE TaskInv'
  <2> USE DEF TypeOK, AttemptRowsOK, TasksOK
  <2>1. 1..attempts \subseteq AttemptIds
    BY <1>2, LimitAssumption DEF AttemptIds
  <2>2. ASSUME UNCHANGED <<timer, flight, attempts, call_incident>>,
               \A i \in Incidents : response_state[i] \in Escalated => response_state'[i] \in Escalated
        PROVE  TaskInv'
    BY <1>2, <2>2 DEF TaskInv, Attempts
  <2>3. ASSUME NEW a \in 1..attempts, NEW status \in Statuses, UpdateAttempt(a, status), NEW i \in Incidents,
               response_state[i] \in Escalated
        PROVE  response_state'[i] \in Escalated
    BY <1>2, <2>3, UpdateSettles
  <2>4. ASSUME NEW i \in Incidents, NEW report \in DeviceReports, DeviceUpdate(i, report) PROVE TaskInv'
    <3>1. Escalated \subseteq BackendOwned
      BY DEF Escalated, Settled, BackendOwned, Responses
    <3>2. \A j \in Incidents : response_state[j] \in Escalated => response_state'[j] \in Escalated
      BY <1>2, <2>4, <3>1 DEF DeviceUpdate, UpsertIncident, IncidentRowsOK
    <3>3. QED
      BY <2>2, <2>4, <3>2 DEF DeviceUpdate, attemptVars
  <2>5. ASSUME NEW i \in Incidents, Observe(i) \/ TimerReturns(i) \/ TimerBlocked(i) PROVE TaskInv'
    <3>1. /\ UNCHANGED <<response_state, flight, attempts, call_incident>>
          /\ \A j \in Incidents : timer'[j] # timer[j] =>
               timer[j] # "posting" /\ timer'[j] \in {"none", "sleeping"}
      BY <1>2, <2>5 DEF Observe, TimerReturns, TimerBlocked, incidentVars, attemptVars
    <3>2. QED
      BY <1>2, <2>1, <3>1 DEF TaskInv, Attempts
  <2>6. ASSUME NEW i \in Incidents, TimerEscalates(i) PROVE TaskInv'
    <3>1. /\ UNCHANGED <<flight, attempts, call_incident>>
          /\ timer[i] = "sleeping" /\ timer' = [timer EXCEPT ![i] = "announcing"]
          /\ response_state' = [response_state EXCEPT ![i] = "ESCALATING"]
      BY <2>6 DEF TimerEscalates, SetResponse, attemptVars
    <3>2. "ESCALATING" \in Escalated
      BY DEF Escalated, Settled, Responses
    <3>3. QED
      BY <1>2, <2>1, <3>1, <3>2 DEF TaskInv, Attempts, IncidentRowsOK
  <2>7. ASSUME NEW i \in Incidents, TimerCalls(i) \/ CallDemoDispatch(i) PROVE TaskInv'
    <3> DEFINE new == attempts + 1
    <3>1. PICK caller \in {"api", "timer"} :
            /\ RequestDemoCall(i, caller)
            /\ caller = "timer" => /\ timer[i] = "announcing"
                                   /\ timer' = [timer EXCEPT ![i] = IF CallMode = "mock" THEN "none" ELSE "posting"]
            /\ caller = "api" => timer' = timer
      BY <2>7 DEF TimerCalls, CallDemoDispatch
    <3>2. /\ new \in AttemptIds /\ attempts' = new /\ new \notin 1..attempts
          /\ 1..attempts' = (1..attempts) \cup {new}
          /\ call_incident' = [call_incident EXCEPT ![new] = i]
          /\ flight' = IF CallMode = "mock" THEN flight ELSE [flight EXCEPT ![new] = caller]
      BY <1>2, <3>1, LimitAssumption DEF RequestDemoCall, AttemptIds
    <3>3. \A j \in Incidents : response_state[j] \in Escalated => response_state'[j] \in Escalated
      BY <1>2, <3>1, RequestSettles
    <3>4. \A j \in Incidents : timer'[j] \in {"announcing", "posting"} => response_state'[j] \in Escalated
      BY <1>2, <3>1, <3>3 DEF TaskInv
    <3>5. \A a \in 1..attempts : /\ call_incident'[a] = call_incident[a] /\ flight'[a] = flight[a]
                                 /\ call_incident[a] \in Incidents /\ a # new /\ a \in AttemptIds
      BY <1>2, <2>1, <3>2
    <3>6. /\ call_incident'[new] = i
          /\ flight'[new] = "timer" <=> CallMode # "mock" /\ caller = "timer"
      BY <1>2, <3>1, <3>2 DEF TaskInv
    <3>7. \A a \in AttemptIds : flight'[a] = "timer" => a \in 1..attempts'
      BY <1>2, <3>2 DEF TaskInv
    <3>8. ASSUME NEW a \in AttemptIds, flight'[a] = "timer" PROVE timer'[call_incident'[a]] = "posting"
      <4>1. CASE a = new
        BY <1>2, <3>1, <3>6, <3>8, <4>1
      <4>2. CASE a \in 1..attempts
        BY <1>2, <3>1, <3>5, <3>8, <4>2 DEF TaskInv
      <4>3. QED
        BY <3>2, <3>7, <3>8, <4>1, <4>2
    <3>9. ASSUME NEW a \in AttemptIds, NEW b \in AttemptIds, flight'[a] = "timer", flight'[b] = "timer",
                 call_incident'[a] = call_incident'[b]
          PROVE  a = b
      <4>1. CASE a = new \/ b = new
        <5>1. timer[i] = "announcing"
          BY <3>1, <3>6, <3>9, <4>1
        <5>2. \A c \in 1..attempts : flight'[c] = "timer" => call_incident'[c] # i
          BY <1>2, <3>5, <5>1 DEF TaskInv
        <5>3. QED
          BY <3>2, <3>6, <3>7, <3>9, <4>1, <5>2
      <4>2. CASE a \in 1..attempts /\ b \in 1..attempts
        BY <1>2, <3>5, <3>9, <4>2 DEF TaskInv
      <4>3. QED
        BY <3>2, <3>7, <3>9, <4>1, <4>2
    <3>10. ASSUME NEW j \in Incidents, timer'[j] = "posting" PROVE \E a \in Attempts(j)' : flight'[a] = "timer"
      <4>1. CASE timer[j] = "posting"
        <5>1. PICK a \in Attempts(j) : flight[a] = "timer"
          BY <1>2, <4>1 DEF TaskInv
        <5>2. a \in Attempts(j)' /\ flight'[a] = "timer"
          BY <3>2, <3>5, <5>1 DEF Attempts
        <5>3. QED
          BY <5>2
      <4>2. CASE timer[j] # "posting"
        <5>1. j = i /\ caller = "timer" /\ CallMode # "mock"
          BY <1>2, <3>1, <3>10, <4>2
        <5>2. new \in Attempts(j)' /\ flight'[new] = "timer"
          BY <3>2, <3>6, <5>1 DEF Attempts
        <5>3. QED
          BY <5>2
      <4>3. QED
        BY <4>1, <4>2
    <3>11. QED
      BY <3>4, <3>7, <3>8, <3>9, <3>10 DEF TaskInv
  <2>8. ASSUME NEW i \in Incidents, Confirm(i) \/ Cancel(i) PROVE TaskInv'
    <3>1. /\ CancelTimer(i) /\ UNCHANGED <<attempts, call_incident>>
          /\ \A j \in Incidents : j # i => response_state'[j] = response_state[j]
      BY <1>2, <2>8 DEF Confirm, Cancel, SetResponse, attemptVars, IncidentRowsOK
    <3>2. /\ timer'[i] = "none" /\ \A j \in Incidents : j # i => timer'[j] = timer[j]
          /\ \A a \in AttemptIds :
               flight'[a] = IF flight[a] = "timer" /\ call_incident[a] = i THEN "none" ELSE flight[a]
      BY <1>2, <3>1 DEF CancelTimer
    <3>3. \A a \in AttemptIds : flight'[a] = "timer" => flight[a] = "timer" /\ call_incident[a] # i
      BY <3>2
    <3>4. \A j \in Incidents : timer'[j] = "posting" => \E a \in Attempts(j)' : flight'[a] = "timer"
      BY <1>2, <2>1, <3>1, <3>2 DEF TaskInv, Attempts
    <3>5. \A a \in AttemptIds : flight'[a] = "timer" =>
            a \in 1..attempts' /\ timer'[call_incident'[a]] = "posting"
      BY <1>2, <3>1, <3>2, <3>3 DEF TaskInv
    <3>6. QED
      BY <1>2, <3>1, <3>2, <3>3, <3>4, <3>5 DEF TaskInv
  <2>9. ASSUME NEW i \in Incidents, Reset(i) PROVE TaskInv'
    BY <2>2, <2>9 DEF Reset, attemptVars, taskVars
  <2>10. ASSUME NEW i \in Incidents, NEW status \in {"CONNECTED", "COMPLETED", "FAILED"},
                ProviderCallStatus(i, status)
         PROVE  TaskInv'
    <3>1. PICK a \in Attempts(i) : UpdateAttempt(a, status)
      BY <2>10 DEF ProviderCallStatus
    <3>2. a \in 1..attempts /\ status \in Statuses
      BY DEF Attempts, Statuses
    <3>3. QED
      BY <2>2, <2>3, <2>10, <3>1, <3>2 DEF ProviderCallStatus, UpdateAttempt, taskVars
  <2>11. ASSUME NEW a \in 1..attempts, FinishPost(a), UNCHANGED <<attempts, call_incident>>,
                \A i \in Incidents : response_state[i] \in Escalated => response_state'[i] \in Escalated
         PROVE  TaskInv'
    <3>1. /\ call_incident[a] \in Incidents /\ a \in AttemptIds
          /\ flight' = [flight EXCEPT ![a] = "none"]
          /\ timer' = IF flight[a] = "timer" THEN [timer EXCEPT ![call_incident[a]] = "none"] ELSE timer
      BY <1>2, <2>1, <2>11 DEF FinishPost
    <3>2. ASSUME NEW i \in Incidents, timer'[i] = "posting" PROVE \E b \in Attempts(i)' : flight'[b] = "timer"
      <4>1. timer[i] = "posting" /\ ~(flight[a] = "timer" /\ call_incident[a] = i)
        BY <1>2, <3>1, <3>2
      <4>2. PICK b \in Attempts(i) : flight[b] = "timer"
        BY <1>2, <4>1 DEF TaskInv
      <4>3. b # a /\ b \in AttemptIds /\ b \in Attempts(i)'
        BY <2>1, <2>11, <4>1, <4>2 DEF Attempts
      <4>4. QED
        BY <1>2, <3>1, <4>2, <4>3
    <3>3. ASSUME NEW b \in AttemptIds, flight'[b] = "timer"
          PROVE  b \in 1..attempts' /\ timer'[call_incident'[b]] = "posting"
      <4>1. b # a /\ flight[b] = "timer" /\ b \in 1..attempts /\ timer[call_incident[b]] = "posting"
        BY <1>2, <3>1, <3>3 DEF TaskInv
      <4>2. flight[a] = "timer" => call_incident[b] # call_incident[a]
        BY <1>2, <3>1, <4>1 DEF TaskInv
      <4>3. QED
        BY <1>2, <2>11, <3>1, <4>1, <4>2
    <3>4. \A b \in AttemptIds : flight'[b] = "timer" => flight[b] = "timer"
      BY <1>2, <3>1
    <3>5. \A i \in Incidents : timer'[i] \in {"announcing", "posting"} => response_state'[i] \in Escalated
      BY <1>2, <2>11, <3>1 DEF TaskInv
    <3>6. QED
      BY <1>2, <2>11, <3>2, <3>3, <3>4, <3>5 DEF TaskInv
  <2>12. ASSUME NEW a \in 1..attempts, NEW status \in Outcomes(a), PostReturns(a, status) PROVE TaskInv'
    <3>1. status \in Statuses
      BY DEF Outcomes, Statuses
    <3>2. QED
      BY <2>3, <2>11, <2>12, <3>1 DEF PostReturns, UpdateAttempt
  <2>13. ASSUME NEW a \in 1..attempts, PostUnreadable(a) PROVE TaskInv'
    BY <2>11, <2>13 DEF PostUnreadable, incidentVars, attemptVars
  <2>14. ASSUME NEW a \in 1..attempts, ProviderActs(a) PROVE TaskInv'
    BY <2>2, <2>14 DEF ProviderActs, incidentVars, attemptVars, taskVars
  <2>15. ASSUME NEW value \in BOOLEAN, SetArmed(value) PROVE TaskInv'
    BY <2>2, <2>15 DEF SetArmed, incidentVars, attemptVars, taskVars
  <2>16. CASE Restart
    BY <1>2, <2>16 DEF Restart, TaskInv
  <2>17. CASE Tick \/ UNCHANGED vars
    BY <2>2, <2>17 DEF Tick, vars, incidentVars, attemptVars, taskVars
  <2>18. QED
    BY <1>2, <2>4, <2>5, <2>6, <2>7, <2>8, <2>9, <2>10, <2>12, <2>13, <2>14, <2>15, <2>16, <2>17
       DEF Next, IncidentStep, AttemptStep
<1>3. TypeOK /\ TaskInv => TimerServesEscalation
  <2> SUFFICES ASSUME TypeOK, TaskInv, NEW i \in Incidents, NEW a \in Attempts(i), flight[a] = "timer"
               PROVE  timer[i] = "posting"
    BY DEF TaskInv, TimerServesEscalation
  <2>1. a \in AttemptIds /\ call_incident[a] = i
    BY LimitAssumption DEF TypeOK, AttemptRowsOK, AttemptIds, Attempts
  <2>2. QED
    BY <2>1 DEF TaskInv
<1>4. QED
  BY <1>1, <1>2, <1>3, TypeCorrect, PTL DEF Spec

\* An awaiting incident has its deadline as long as the process lives, given that an answer
\* is only asked for a visible fire: what FireVerifier's ReportsVisible says of the edge.
THEOREM DeadlineKept ==
    ASSUME CanRestart = FALSE,
           \A report \in DeviceReports : report.response = "AWAITING_RESPONSE" => report.hazard \in Visible
    PROVE  Spec => []AwaitingHasDeadline
<1> DEFINE Deadline(i) == response_state[i] = "AWAITING_RESPONSE" =>
                            hazard_state[i] \in Visible /\ (timer[i] = "sleeping" \/ i \in observing)
           DeadlineInv == \A i \in Incidents : Deadline(i)
<1>1. Init => DeadlineInv
  BY DEF Init
<1>2. ASSUME TypeOK, TimerServesEscalation, DeadlineInv, [Next]_vars, NEW i \in Incidents PROVE Deadline(i)'
  <2> USE DEF TypeOK, IncidentRowsOK, AttemptRowsOK, TasksOK
  <2>1. timer[i] \in {"announcing", "posting"} => response_state[i] # "AWAITING_RESPONSE"
    BY <1>2 DEF TimerServesEscalation, Escalated, Settled
  <2>2. ASSUME UNCHANGED <<hazard_state[i], timer[i]>>, i \in observing => i \in observing',
               response_state'[i] = response_state[i] \/ response_state'[i] \in Escalated
        PROVE  Deadline(i)'
    BY <1>2, <2>2 DEF Escalated, Settled
  <2>3. ASSUME NEW j \in Incidents, NEW report \in DeviceReports, DeviceUpdate(j, report) PROVE Deadline(i)'
    <3>1. CASE j = i
      <4>1. "AWAITING_RESPONSE" \notin BackendOwned
        BY DEF BackendOwned
      <4>2. response_state'[i] = "AWAITING_RESPONSE" =>
              report.response = "AWAITING_RESPONSE" /\ hazard_state'[i] = report.hazard
        BY <1>2, <2>3, <3>1, <4>1 DEF DeviceUpdate, UpsertIncident
      <4>3. i \in observing'
        BY <2>3, <3>1 DEF DeviceUpdate
      <4>4. QED
        BY <4>2, <4>3
    <3>2. CASE j # i
      BY <1>2, <2>2, <2>3, <3>2 DEF DeviceUpdate, UpsertIncident
    <3>3. QED
      BY <3>1, <3>2
  <2>4. ASSUME NEW j \in Incidents, Observe(j) PROVE Deadline(i)'
    BY <1>2, <2>1, <2>4 DEF Observe, incidentVars
  <2>5. ASSUME NEW j \in Incidents, TimerReturns(j) \/ TimerBlocked(j) PROVE Deadline(i)'
    BY <1>2, <2>1, <2>5 DEF TimerReturns, TimerBlocked, incidentVars
  <2>6. ASSUME NEW j \in Incidents, TimerEscalates(j) PROVE Deadline(i)'
    BY <1>2, <2>6 DEF TimerEscalates, SetResponse
  <2>7. ASSUME NEW j \in Incidents, TimerCalls(j) \/ CallDemoDispatch(j) PROVE Deadline(i)'
    <3>1. PICK caller \in {"api", "timer"} : RequestDemoCall(j, caller)
      BY <2>7 DEF TimerCalls, CallDemoDispatch
    <3>2. response_state'[i] = response_state[i] \/ response_state'[i] \in Escalated
      BY <1>2, <3>1, RequestSettles
    <3>3. hazard_state' = hazard_state /\ observing' = observing
      BY <2>7, <3>1 DEF RequestDemoCall, TimerCalls, CallDemoDispatch
    <3>4. timer'[i] = timer[i] \/ timer[i] = "announcing"
      BY <1>2, <2>7 DEF TimerCalls, CallDemoDispatch
    <3>5. QED
      BY <1>2, <2>1, <3>2, <3>3, <3>4 DEF Escalated, Settled
  <2>8. ASSUME NEW j \in Incidents, Confirm(j) \/ Cancel(j) PROVE Deadline(i)'
    <3>1. CASE j = i
      BY <1>2, <2>8, <3>1 DEF Confirm, Cancel, SetResponse
    <3>2. CASE j # i
      BY <1>2, <2>2, <2>8, <3>2 DEF Confirm, Cancel, SetResponse, CancelTimer
    <3>3. QED
      BY <3>1, <3>2
  <2>9. ASSUME NEW j \in Incidents, Reset(j) PROVE Deadline(i)'
    BY <1>2, <2>9 DEF Reset, taskVars
  <2>10. ASSUME NEW a \in 1..attempts, NEW status \in Statuses, UpdateAttempt(a, status)
         PROVE  /\ response_state'[i] = response_state[i] \/ response_state'[i] \in Escalated
                /\ hazard_state' = hazard_state
    BY <1>2, <2>10, UpdateSettles DEF UpdateAttempt
  <2>11. ASSUME NEW j \in Incidents, NEW status \in {"CONNECTED", "COMPLETED", "FAILED"},
                ProviderCallStatus(j, status)
         PROVE  Deadline(i)'
    <3>1. PICK a \in Attempts(j) : UpdateAttempt(a, status)
      BY <2>11 DEF ProviderCallStatus
    <3>2. a \in 1..attempts /\ status \in Statuses
      BY DEF Attempts, Statuses
    <3>3. QED
      BY <2>2, <2>10, <2>11, <3>1, <3>2 DEF ProviderCallStatus, taskVars
  <2>12. ASSUME NEW a \in 1..attempts, FinishPost(a), hazard_state' = hazard_state,
                response_state'[i] = response_state[i] \/ response_state'[i] \in Escalated
         PROVE  Deadline(i)'
    <3>1. observing' = observing /\ (timer'[i] = timer[i] \/ (flight[a] = "timer" /\ call_incident[a] = i))
      BY <1>2, <2>12 DEF FinishPost
    <3>2. flight[a] = "timer" /\ call_incident[a] = i => timer[i] = "posting"
      BY <1>2 DEF TimerServesEscalation, Attempts
    <3>3. QED
      BY <1>2, <2>1, <2>12, <3>1, <3>2 DEF Escalated, Settled
  <2>13. ASSUME NEW a \in 1..attempts, NEW status \in Outcomes(a), PostReturns(a, status) PROVE Deadline(i)'
    <3>1. status \in Statuses
      BY DEF Outcomes, Statuses
    <3>2. QED
      BY <2>10, <2>12, <2>13, <3>1 DEF PostReturns
  <2>14. ASSUME NEW a \in 1..attempts, PostUnreadable(a) PROVE Deadline(i)'
    BY <2>12, <2>14 DEF PostUnreadable, incidentVars
  <2>15. ASSUME NEW a \in 1..attempts, ProviderActs(a) PROVE Deadline(i)'
    BY <2>2, <2>15 DEF ProviderActs, incidentVars, taskVars
  <2>16. ASSUME NEW value \in BOOLEAN, SetArmed(value) PROVE Deadline(i)'
    BY <2>2, <2>16 DEF SetArmed, incidentVars, taskVars
  <2>17. CASE Tick \/ UNCHANGED vars
    BY <2>2, <2>17 DEF Tick, vars, incidentVars, taskVars
  <2>18. QED
    BY <1>2, <2>3, <2>4, <2>5, <2>6, <2>7, <2>8, <2>9, <2>11, <2>13, <2>14, <2>15, <2>16, <2>17
       DEF Next, IncidentStep, AttemptStep, Restart
<1>3. TypeOK /\ TimerServesEscalation /\ DeadlineInv /\ [Next]_vars => DeadlineInv'
  BY <1>2
<1>4. DeadlineInv => AwaitingHasDeadline
  BY DEF AwaitingHasDeadline
<1>5. QED
  BY <1>1, <1>3, <1>4, TypeCorrect, TimerServed, PTL DEF Spec

\* A call shows as connected only when the provider has reported it, whatever the POST
\* returned, given that no device claims a call state.
THEOREM ConnectedByCallback ==
    ASSUME \A report \in DeviceReports : report.response \notin {"CALL_CONNECTED", "CALL_COMPLETED"}
    PROVE  Spec => []ConnectedOnlyByCallback
<1> DEFINE Shown == {"CALL_CONNECTED", "CALL_COMPLETED"}
           Taken == {"connected", "completed"}
<1>1. Init => ConnectedOnlyByCallback
  BY DEF Init, ConnectedOnlyByCallback
<1>2. ASSUME TypeOK, ConnectedOnlyByCallback, [Next]_vars PROVE ConnectedOnlyByCallback'
  <2> USE DEF TypeOK, IncidentRowsOK, AttemptRowsOK
  <2>1. ASSUME UNCHANGED <<attempts, call_incident>>,
               \A a \in 1..attempts : provider[a] \in Taken => provider'[a] \in Taken,
               \A i \in Incidents : response_state'[i] \in Shown =>
                 response_state[i] \in Shown \/ \E a \in Attempts(i) : provider[a] \in Taken
        PROVE  ConnectedOnlyByCallback'
    BY <1>2, <2>1 DEF ConnectedOnlyByCallback, Attempts
  <2>2. ASSUME NEW i \in Incidents, NEW report \in DeviceReports, DeviceUpdate(i, report)
        PROVE  ConnectedOnlyByCallback'
    BY <1>2, <2>1, <2>2 DEF DeviceUpdate, UpsertIncident, attemptVars
  <2>3. ASSUME NEW i \in Incidents, Observe(i) \/ TimerReturns(i) \/ TimerBlocked(i) \/ Reset(i)
        PROVE  ConnectedOnlyByCallback'
    BY <2>1, <2>3 DEF Observe, TimerReturns, TimerBlocked, Reset, incidentVars, attemptVars
  <2>4. ASSUME NEW i \in Incidents, TimerEscalates(i) \/ Confirm(i) \/ Cancel(i)
        PROVE  ConnectedOnlyByCallback'
    BY <1>2, <2>1, <2>4 DEF TimerEscalates, Confirm, Cancel, SetResponse, attemptVars
  <2>5. ASSUME NEW i \in Incidents, TimerCalls(i) \/ CallDemoDispatch(i) PROVE ConnectedOnlyByCallback'
    <3>1. PICK caller \in {"api", "timer"} : RequestDemoCall(i, caller)
      BY <2>5 DEF TimerCalls, CallDemoDispatch
    <3>2. \A j \in Incidents : response_state'[j] \in Shown => response_state[j] \in Shown
      BY <1>2, <3>1 DEF RequestDemoCall, ResponseFor
    <3>3. \A j \in Incidents : \A a \in Attempts(j) : a \in Attempts(j)' /\ provider'[a] = provider[a]
      BY <1>2, <3>1, LimitAssumption DEF RequestDemoCall, Attempts, AttemptIds
    <3>4. QED
      BY <1>2, <3>2, <3>3 DEF ConnectedOnlyByCallback
  <2>6. ASSUME NEW a \in 1..attempts, NEW status \in {"INITIATED", "UNKNOWN", "FAILED"}, UpdateAttempt(a, status)
        PROVE  \A i \in Incidents : response_state'[i] \in Shown => response_state[i] \in Shown
    BY <1>2, <2>6 DEF UpdateAttempt, ResponseFor
  <2>7. ASSUME NEW i \in Incidents, NEW status \in {"CONNECTED", "COMPLETED", "FAILED"},
               ProviderCallStatus(i, status)
        PROVE  ConnectedOnlyByCallback'
    <3>1. PICK a \in Attempts(i) : UpdateAttempt(a, status)
      BY <2>7 DEF ProviderCallStatus
    <3>2. status # "FAILED" => \E b \in Attempts(i) : provider[b] \in Taken
      BY <2>7 DEF ProviderCallStatus, Reported
    <3>3. \A j \in Incidents : response_state'[j] \in Shown =>
            response_state[j] \in Shown \/ (j = i /\ status # "FAILED")
      BY <1>2, <3>1 DEF UpdateAttempt, ResponseFor, Attempts
    <3>4. QED
      BY <2>1, <2>7, <3>1, <3>2, <3>3 DEF ProviderCallStatus, UpdateAttempt
  <2>8. ASSUME NEW a \in 1..attempts, NEW status \in Outcomes(a), PostReturns(a, status)
        PROVE  ConnectedOnlyByCallback'
    <3>1. status \in {"INITIATED", "UNKNOWN", "FAILED"}
      BY DEF Outcomes
    <3>2. QED
      BY <2>1, <2>6, <2>8, <3>1 DEF PostReturns, UpdateAttempt, FinishPost
  <2>9. ASSUME NEW a \in 1..attempts, PostUnreadable(a) PROVE ConnectedOnlyByCallback'
    BY <2>1, <2>9 DEF PostUnreadable, FinishPost, incidentVars, attemptVars
  <2>10. ASSUME NEW a \in 1..attempts, ProviderActs(a) PROVE ConnectedOnlyByCallback'
    <3>1. \A b \in 1..attempts : provider[b] \in Taken => provider'[b] \in Taken
      BY <1>2, <2>10 DEF ProviderActs
    <3>2. QED
      BY <2>1, <2>10, <3>1 DEF ProviderActs, incidentVars, attemptVars
  <2>11. ASSUME NEW value \in BOOLEAN, SetArmed(value) PROVE ConnectedOnlyByCallback'
    BY <2>1, <2>11 DEF SetArmed, incidentVars, attemptVars
  <2>12. CASE Restart \/ Tick \/ UNCHANGED vars
    BY <2>1, <2>12 DEF Restart, Tick, vars, incidentVars, attemptVars
  <2>13. QED
    BY <1>2, <2>2, <2>3, <2>4, <2>5, <2>7, <2>8, <2>9, <2>10, <2>11, <2>12 DEF Next, IncidentStep, AttemptStep
<1>3. QED
  BY <1>1, <1>2, TypeCorrect, PTL DEF Spec

-----------------------------------------------------------------------------
(* A cancelled incident *)

\* The id of the row that is reserved next is new.
LEMMA NextRow ==
    ASSUME TypeOK, NEW i \in Incidents, NEW caller \in {"api", "timer"}, RequestDemoCall(i, caller)
    PROVE  /\ attempts + 1 \in AttemptIds /\ attempts' = attempts + 1
           /\ 1..(attempts + 1) = 1..attempts \cup {attempts + 1}
           /\ attempts + 1 \notin 1..attempts
<1>1. attempts \in Nat /\ MaxAttempts \in Nat
  BY LimitAssumption DEF TypeOK, AttemptRowsOK
<1>2. attempts + 1 <= MaxAttempts /\ attempts' = attempts + 1
  BY DEF RequestDemoCall
<1>3. attempts + 1 \in 1..MaxAttempts
  BY <1>1, <1>2
<1>4. 1..(attempts + 1) = 1..attempts \cup {attempts + 1} /\ attempts + 1 \notin 1..attempts
  BY <1>1
<1>5. QED
  BY <1>2, <1>3, <1>4 DEF AttemptIds

\* Whatever is awaited, or may be reported, is a request that was sent to the provider; the mock
\* sends none, and nothing else reserves a row without sending.
SentInv ==
    /\ \A a \in AttemptIds : flight[a] # "none" => a \in 1..attempts /\ CallMode # "mock"
    /\ \A a \in AttemptIds : provider[a] # "none" => CallMode # "mock"
    /\ CallMode # "mock" => \A a \in 1..attempts : provider[a] # "none"

LEMMA SentInvariant == Spec => []SentInv
<1>1. Init => SentInv
  BY DEF Init, SentInv
<1>2. ASSUME TypeOK, SentInv, [Next]_vars PROVE SentInv'
  <2> USE DEF TypeOK, AttemptRowsOK, TasksOK
  <2>1. 1..attempts \subseteq AttemptIds
    BY <1>2, LimitAssumption DEF AttemptIds
  <2>2. ASSUME attempts' = attempts, \A a \in AttemptIds : flight'[a] \in {flight[a], "none"},
               \A a \in AttemptIds : provider'[a] = "none" <=> provider[a] = "none"
        PROVE  SentInv'
    <3>1. \A a \in AttemptIds : flight'[a] # "none" => a \in 1..attempts /\ CallMode # "mock"
      BY <1>2, <2>2 DEF SentInv
    <3>2. \A a \in AttemptIds : provider'[a] # "none" => CallMode # "mock"
      BY <1>2, <2>2 DEF SentInv
    <3>3. CallMode # "mock" => \A a \in 1..attempts : provider'[a] # "none"
      BY <1>2, <2>1, <2>2 DEF SentInv
    <3>4. QED
      BY <2>2, <3>1, <3>2, <3>3 DEF SentInv
  <2>3. ASSUME NEW i \in Incidents, TimerCalls(i) \/ CallDemoDispatch(i) PROVE SentInv'
    <3>1. PICK caller \in {"api", "timer"} : RequestDemoCall(i, caller)
      BY <2>3 DEF TimerCalls, CallDemoDispatch
    <3> DEFINE n == attempts + 1
    <3>2. n \in AttemptIds /\ attempts' = n /\ 1..n = 1..attempts \cup {n}
      BY <1>2, <3>1, NextRow
    <3>3. CASE CallMode = "mock"
      <4>1. flight' = flight /\ provider' = provider
        BY <3>1, <3>3 DEF RequestDemoCall
      <4>2. QED
        BY <1>2, <3>3, <4>1 DEF SentInv
    <3>4. CASE CallMode # "mock"
      <4>1. /\ flight' = [flight EXCEPT ![n] = caller]
            /\ provider' = [provider EXCEPT ![n] = "pending"]
        BY <3>1, <3>4 DEF RequestDemoCall
      <4> HIDE DEF n
      <4>2. \A a \in AttemptIds : flight'[a] # "none" => a \in 1..n
        BY <1>2, <3>2, <4>1 DEF SentInv
      <4>3. \A a \in 1..n : provider'[a] # "none"
        BY <1>2, <2>1, <3>2, <3>4, <4>1 DEF SentInv
      <4>4. QED
        BY <3>2, <3>4, <4>2, <4>3 DEF SentInv
    <3>5. QED
      BY <3>3, <3>4
  <2>4. ASSUME NEW i \in Incidents, Confirm(i) \/ Cancel(i) PROVE SentInv'
    BY <1>2, <2>2, <2>4 DEF Confirm, Cancel, CancelTimer, attemptVars
  <2>5. ASSUME NEW i \in Incidents, NEW report \in DeviceReports, DeviceUpdate(i, report) PROVE SentInv'
    BY <1>2, <2>2, <2>5 DEF DeviceUpdate, attemptVars
  <2>6. ASSUME NEW i \in Incidents,
               Observe(i) \/ TimerReturns(i) \/ TimerEscalates(i) \/ TimerBlocked(i) \/ Reset(i)
        PROVE  SentInv'
    BY <1>2, <2>2, <2>6 DEF Observe, TimerReturns, TimerEscalates, TimerBlocked, Reset, attemptVars, taskVars
  <2>7. ASSUME NEW i \in Incidents, NEW status \in {"CONNECTED", "COMPLETED", "FAILED"},
               ProviderCallStatus(i, status)
        PROVE  SentInv'
    BY <1>2, <2>2, <2>7 DEF ProviderCallStatus, UpdateAttempt, taskVars
  <2>8. ASSUME NEW a \in 1..attempts, NEW status \in Outcomes(a), PostReturns(a, status) PROVE SentInv'
    BY <1>2, <2>2, <2>8 DEF PostReturns, FinishPost, UpdateAttempt
  <2>9. ASSUME NEW a \in 1..attempts, PostUnreadable(a) PROVE SentInv'
    BY <1>2, <2>2, <2>9 DEF PostUnreadable, FinishPost, attemptVars
  <2>10. ASSUME NEW a \in 1..attempts, ProviderActs(a) PROVE SentInv'
    <3>1. \A b \in AttemptIds : provider'[b] = "none" <=> provider[b] = "none"
      BY <1>2, <2>1, <2>10 DEF ProviderActs
    <3>2. QED
      BY <1>2, <2>2, <2>10, <3>1 DEF ProviderActs, attemptVars, taskVars
  <2>11. CASE Restart
    BY <1>2, <2>2, <2>11 DEF Restart, attemptVars
  <2>12. CASE Tick \/ (\E value \in BOOLEAN : SetArmed(value)) \/ UNCHANGED vars
    BY <1>2, <2>2, <2>12 DEF Tick, SetArmed, vars, attemptVars, taskVars
  <2>13. QED
    BY <1>2, <2>3, <2>4, <2>5, <2>6, <2>7, <2>8, <2>9, <2>10, <2>11, <2>12 DEF Next, IncidentStep, AttemptStep
<1>3. QED
  BY <1>1, <1>2, TypeCorrect, PTL DEF Spec

\* A step of a cancelled incident's world: nothing of its own is reserved, and what its response
\* becomes is the outcome of a request that was sent.
LEMMA CancelledStep ==
    ASSUME TypeOK, TimerServesEscalation, SentInv, [Next]_vars,
           NEW i \in Incidents, response_state[i] = "CANCELLED"
    PROVE  /\ Attempts(i)' = Attempts(i)
           /\ \/ response_state'[i] = "CANCELLED"
              \/ \E a \in Attempts(i) : provider[a] # "none" /\ call_status'[a] # "REQUESTED"
<1> DEFINE Goal == /\ Attempts(i)' = Attempts(i)
                   /\ \/ response_state'[i] = "CANCELLED"
                      \/ \E a \in Attempts(i) : provider[a] # "none" /\ call_status'[a] # "REQUESTED"
<1> USE DEF TypeOK, IncidentRowsOK, AttemptRowsOK
<1>1. ASSUME UNCHANGED <<attempts, call_incident>>, response_state'[i] = "CANCELLED"
      PROVE  Goal
  BY <1>1 DEF Attempts
<1>2. 1..attempts \subseteq AttemptIds
  BY LimitAssumption DEF AttemptIds
<1>3. ASSUME NEW a \in 1..attempts, NEW status \in Statuses \ {"REQUESTED"}, UpdateAttempt(a, status),
             provider[a] # "none"
      PROVE  Goal
  <2>1. UNCHANGED <<attempts, call_incident>> /\ call_status'[a] = status
    BY <1>2, <1>3 DEF UpdateAttempt
  <2>2. CASE call_incident[a] = i
    BY <1>3, <2>1, <2>2 DEF Attempts
  <2>3. CASE call_incident[a] # i
    BY <1>1, <1>3, <2>1, <2>3 DEF UpdateAttempt
  <2>4. QED
    BY <2>2, <2>3
<1>4. ASSUME NEW j \in Incidents, NEW report \in DeviceReports, DeviceUpdate(j, report) PROVE Goal
  BY <1>1, <1>4 DEF DeviceUpdate, UpsertIncident, BackendOwned, attemptVars
<1>5. ASSUME NEW j \in Incidents, Observe(j) \/ TimerReturns(j) \/ TimerBlocked(j) \/ Reset(j) PROVE Goal
  BY <1>1, <1>5 DEF Observe, TimerReturns, TimerBlocked, Reset, incidentVars, attemptVars
<1>6. ASSUME NEW j \in Incidents, TimerEscalates(j) \/ Confirm(j) \/ Cancel(j) PROVE Goal
  BY <1>1, <1>6 DEF TimerEscalates, Confirm, Cancel, SetResponse, attemptVars
<1>7. ASSUME NEW j \in Incidents, TimerCalls(j) \/ CallDemoDispatch(j) PROVE Goal
  <2>1. PICK caller \in {"api", "timer"} : RequestDemoCall(j, caller)
    BY <1>7 DEF TimerCalls, CallDemoDispatch
  <2>2. j # i
    BY <1>7 DEF TimerCalls, CallDemoDispatch, CallAllowed
  <2> DEFINE n == attempts + 1
  <2>3. n \in AttemptIds /\ attempts' = n /\ 1..n = 1..attempts \cup {n} /\ n \notin 1..attempts
    BY <2>1, NextRow
  <2>4. call_incident' = [call_incident EXCEPT ![n] = j]
    BY <2>1 DEF RequestDemoCall
  <2>5. response_state'[i] = response_state[i]
    BY <2>1, <2>2 DEF RequestDemoCall
  <2> HIDE DEF n
  <2>6. Attempts(i)' = Attempts(i)
    BY <1>2, <2>2, <2>3, <2>4 DEF Attempts
  <2>7. QED
    BY <2>5, <2>6
<1>8. ASSUME NEW j \in Incidents, NEW status \in {"CONNECTED", "COMPLETED", "FAILED"}, ProviderCallStatus(j, status)
      PROVE  Goal
  <2>1. PICK a \in Attempts(j) : UpdateAttempt(a, status)
    BY <1>8 DEF ProviderCallStatus
  <2>2. CallMode # "mock"
    <3>1. PICK b \in Attempts(j) : status \in Reported(b)
      BY <1>8 DEF ProviderCallStatus
    <3>2. provider[b] # "none" /\ b \in AttemptIds
      BY <1>2, <3>1 DEF Reported, Attempts
    <3>3. QED
      BY <3>2 DEF SentInv
  <2>3. a \in 1..attempts /\ provider[a] # "none"
    BY <2>1, <2>2 DEF Attempts, SentInv
  <2>4. QED
    BY <1>3, <2>1, <2>3 DEF Statuses
<1>9. ASSUME NEW a \in 1..attempts, NEW status \in Outcomes(a), PostReturns(a, status) PROVE Goal
  <2>1. status \in Statuses \ {"REQUESTED"}
    BY DEF Outcomes, Statuses
  <2>2. provider[a] # "none"
    BY <1>2, <1>9 DEF PostReturns, FinishPost, SentInv
  <2>3. QED
    BY <1>3, <1>9, <2>1, <2>2 DEF PostReturns
<1>10. ASSUME NEW a \in 1..attempts, PostUnreadable(a) \/ ProviderActs(a) PROVE Goal
  BY <1>1, <1>10 DEF PostUnreadable, ProviderActs, incidentVars, attemptVars
<1>11. CASE Restart \/ Tick \/ (\E value \in BOOLEAN : SetArmed(value)) \/ UNCHANGED vars
  BY <1>1, <1>11 DEF Restart, Tick, SetArmed, vars, incidentVars, attemptVars
<1>12. QED
  BY <1>4, <1>5, <1>6, <1>7, <1>8, <1>9, <1>10, <1>11 DEF Next, IncidentStep, AttemptStep

\* A cancelled incident is called by nobody any more: no attempt is made for it, and its response
\* changes only when a call that was sent before the cancellation has an outcome.
THEOREM CancelledStays == Spec => CancelledUntilProvider
<1>1. TypeOK /\ TimerServesEscalation /\ SentInv /\ [Next]_vars =>
        [\A i \in Incidents : response_state[i] = "CANCELLED" =>
           /\ Attempts(i)' = Attempts(i)
           /\ \/ response_state'[i] = "CANCELLED"
              \/ \E a \in Attempts(i) : provider[a] # "none" /\ call_status'[a] # "REQUESTED"]_vars
  BY CancelledStep
<1>2. QED
  BY <1>1, TypeCorrect, TimerServed, SentInvariant, PTL DEF Spec, CancelledUntilProvider

-----------------------------------------------------------------------------
(* The backend implements the call policy *)

\* Reserving a call the backend allows is a request the policy allows: what counts as
\* active covers every attempt that was never recorded as failed.
LEMMA RequestImplements ==
    ASSUME TypeOK, PolicyInv, NEW i \in Incidents, NEW caller \in {"api", "timer"},
           CallAllowed(i), RequestDemoCall(i, caller), UNCHANGED now
    PROVE  Ledger!Request(i)
<1> USE LimitAssumption DEF TypeOK, AttemptRowsOK
<1>1. Ledger!Standing(i) \subseteq Active \cap Attempts(i)
  BY DEF PolicyInv, FailureRecorded, Active, Attempts, Ledger!Standing
<1>2. IsFiniteSet(Active \cap Attempts(i))
  <2>1. IsFiniteSet(1..attempts)
    BY FS_Interval
  <2>2. QED
    BY <2>1, FS_Subset DEF Active
<1>3. Cardinality(Ledger!Standing(i)) < MaxCalls
  <2>1. /\ Cardinality(Ledger!Standing(i)) <= Cardinality(Active \cap Attempts(i))
        /\ Cardinality(Ledger!Standing(i)) \in Nat
        /\ Cardinality(Active \cap Attempts(i)) \in Nat
    BY <1>1, <1>2, FS_Subset, FS_CardinalityType
  <2>2. Cardinality(Active \cap Attempts(i)) < MaxCalls
    BY DEF CallAllowed
  <2>3. QED
    BY <2>1, <2>2
<1>4. \A a \in (1..attempts) \ failed_once : requested_at[a] + Cooldown <= now
  BY DEF CallAllowed, PolicyInv, FailureRecorded, Active
<1>5. attempts < MaxAttempts
  BY DEF RequestDemoCall
<1>6. Ledger!Cardinality(Ledger!Standing(i)) < MaxCalls
  BY <1>3 DEF Cardinality, Ledger!Cardinality
<1>7. QED
  BY <1>4, <1>5, <1>6 DEF Ledger!Request, CallAllowed, RequestDemoCall

LEMMA StepImplements ==
    ASSUME TypeOK, PolicyInv, VerdictInv, [Next]_vars
    PROVE  [Ledger!Next]_(Ledger!vars)
<1> DEFINE Goal == Ledger!Next \/ UNCHANGED Ledger!vars
<1>1. ASSUME NEW i \in Incidents, NEW report \in DeviceReports, DeviceUpdate(i, report)
      PROVE  Goal
  <2>1. CASE report.hazard = "CONFIRMED"
    <3>1. Ledger!Sight(i)
      BY <1>1, <2>1 DEF DeviceUpdate, UpsertIncident, attemptVars, Ledger!Sight
    <3>2. QED
      BY <3>1 DEF Ledger!Next
  <2>2. CASE report.hazard # "CONFIRMED"
    BY <1>1, <2>2 DEF DeviceUpdate, UpsertIncident, attemptVars, Ledger!vars
  <2>3. QED
    BY <2>1, <2>2
<1>2. ASSUME NEW i \in Incidents, TimerEscalates(i)
      PROVE  Goal
  <2>1. occupant_response[i] = "none"
    BY <1>2 DEF TimerEscalates, VerdictInv, Settled
  <2>2. Ledger!TimeOut(i)
    BY <1>2, <2>1 DEF TimerEscalates, SetResponse, attemptVars, Ledger!TimeOut
  <2>3. QED
    BY <2>2 DEF Ledger!Next
<1>3. ASSUME NEW i \in Incidents, Confirm(i) \/ Cancel(i)
      PROVE  Goal
  <2>1. Ledger!Answer(i, "confirmed") \/ Ledger!Answer(i, "cancelled")
    BY <1>3 DEF Confirm, Cancel, SetResponse, attemptVars, Ledger!Answer
  <2>2. QED
    BY <2>1 DEF Ledger!Next
<1>4. ASSUME NEW i \in Incidents, TimerCalls(i) \/ CallDemoDispatch(i)
      PROVE  Goal
  <2>1. \E caller \in {"api", "timer"} : CallAllowed(i) /\ RequestDemoCall(i, caller) /\ UNCHANGED now
    BY <1>4 DEF TimerCalls, CallDemoDispatch
  <2>2. Ledger!Request(i)
    BY <2>1, RequestImplements
  <2>3. QED
    BY <2>2 DEF Ledger!Next
<1>5. ASSUME NEW a \in 1..attempts, NEW status \in Statuses, UpdateAttempt(a, status), UNCHANGED now
      PROVE  Goal
  <2>1. CASE status = "FAILED"
    <3>1. Ledger!Fail(a)
      BY <1>5, <2>1 DEF UpdateAttempt, Ledger!Fail
    <3>2. QED
      BY <3>1 DEF Ledger!Next
  <2>2. CASE status # "FAILED"
    BY <1>5, <2>2 DEF UpdateAttempt, Ledger!vars
  <2>3. QED
    BY <2>1, <2>2
<1>6. CASE Tick
  <2>1. Ledger!Pass
    BY <1>6 DEF Tick, incidentVars, attemptVars, Ledger!Pass
  <2>2. QED
    BY <2>1 DEF Ledger!Next
<1>7. ASSUME UNCHANGED <<confirmed_at, occupant_response, attemptVars, now>>
      PROVE  Goal
  BY <1>7 DEF attemptVars, Ledger!vars
<1>8. ASSUME NEW i \in Incidents, IncidentStep(i)
      PROVE  Goal
  <2>1. CASE Observe(i) \/ TimerReturns(i) \/ TimerBlocked(i) \/ Reset(i)
    BY <1>7, <2>1 DEF Observe, TimerReturns, TimerBlocked, Reset, incidentVars
  <2>2. CASE \E status \in {"CONNECTED", "COMPLETED", "FAILED"} : ProviderCallStatus(i, status)
    BY <1>5, <2>2 DEF ProviderCallStatus, Attempts, Statuses
  <2>3. QED
    BY <1>1, <1>2, <1>3, <1>4, <1>8, <2>1, <2>2 DEF IncidentStep
<1>9. ASSUME NEW a \in 1..attempts, AttemptStep(a)
      PROVE  Goal
  <2>1. CASE ProviderActs(a) \/ PostUnreadable(a)
    BY <1>7, <2>1 DEF ProviderActs, PostUnreadable, FinishPost, incidentVars
  <2>2. CASE \E status \in Outcomes(a) : PostReturns(a, status)
    BY <1>5, <2>2 DEF PostReturns, FinishPost, Outcomes, Statuses
  <2>3. QED
    BY <1>9, <2>1, <2>2 DEF AttemptStep
<1>10. CASE Restart \/ (\E value \in BOOLEAN : SetArmed(value)) \/ UNCHANGED vars
  BY <1>7, <1>10 DEF Restart, SetArmed, vars, incidentVars
<1>11. QED
  BY <1>6, <1>8, <1>9, <1>10 DEF Next

\* The backend with its timers, endpoints, in-flight requests, provider callbacks and
\* restarts is an implementation of the call policy CallLedger.
THEOREM Implementation == Spec => ImplementsLedger
<1>1. Init => Ledger!Init
  BY DEF Init, Ledger!Init, AttemptIds, Ledger!Ids
<1>2. TypeOK /\ PolicyInv /\ VerdictInv /\ [Next]_vars => [Ledger!Next]_(Ledger!vars)
  BY StepImplements
<1>3. QED
  BY <1>1, <1>2, TypeCorrect, PolicyInvariant, VerdictInvariant, PTL
     DEF Spec, ImplementsLedger, Ledger!Spec
=============================================================================
