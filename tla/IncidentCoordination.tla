------------------------- MODULE IncidentCoordination -------------------------
(***************************************************************************)
(* The coordination backend (backend/app): the incident rows and call      *)
(* attempts of the SQLite store, the per-incident response timers, the     *)
(* operator endpoints, the outbound call and its provider callbacks.       *)
(*                                                                         *)
(* The backend is one asyncio loop and every database call is synchronous, *)
(* so the code between two awaits is one atomic step: one action here.  An *)
(* await that hands control to other coroutines is a value of timer or of  *)
(* flight, and whatever runs meanwhile is an interleaving of Next.         *)
(***************************************************************************)
EXTENDS Integers, FiniteSets

CONSTANTS
    Incidents,       \* incident ids the devices may report
    NoIncident,      \* the owner of an attempt row not inserted yet
    DeviceReports,   \* the [hazard, response] pairs an INCIDENT_UPDATE may carry
    CallMode,        \* "disabled" | "mock" | "elevenlabs": demo_calls_enabled, call_provider
    MaxCalls,        \* settings.max_calls_per_incident
    Cooldown,        \* settings.global_call_cooldown_seconds, in clock ticks
    MaxAttempts,     \* bound: rows of call_attempts
    ApiBudget,       \* bound: rows beyond which no endpoint asks for a call
    MaxTime,         \* bound: the clock
    CanRestart       \* whether the process may stop and start again

Hazards   == {"CLEAR", "SUSPECTED", "VERIFYING", "CONFIRMED",
              "VISUAL_SIGNATURE_LOST", "RESOLVED", "DEGRADED"}
Responses == {"IDLE", "AWAITING_RESPONSE", "CANCELLED", "ESCALATING", "CALL_REQUESTED",
              "CALL_INITIATED", "CALL_CONNECTED", "CALL_COMPLETED", "CALL_FAILED"}

AttemptIds == 1..MaxAttempts
Statuses   == {"REQUESTED", "INITIATED", "UNKNOWN", "CONNECTED", "COMPLETED", "FAILED"}

\* What has become of the request at the call provider, which is not ours.
ProviderStates == {"none", "pending", "refused", "ringing",
                   "connected", "completed", "failed"}

ASSUME IncidentAssumption == NoIncident \notin Incidents
ASSUME ReportAssumption   == DeviceReports \subseteq [hazard : Hazards, response : Responses]
ASSUME ModeAssumption     == CallMode \in {"disabled", "mock", "elevenlabs"}
ASSUME LimitAssumption    == /\ MaxCalls \in Nat \ {0}
                             /\ Cooldown \in Nat
                             /\ MaxAttempts \in Nat
                             /\ ApiBudget \in Nat
                             /\ MaxTime \in Nat
ASSUME RestartAssumption  == CanRestart \in BOOLEAN

VARIABLES
    hazard_state,        \* incidents.hazard_state, "ABSENT" before the row exists
    response_state,      \* incidents.response_state, "ABSENT" before the row exists
    confirmed_at,        \* the incidents whose confirmed_at is set
    resolved_at,         \* the incidents whose resolved_at is set
    occupant_response,   \* incidents.occupant_response, cancel reasons merged
    no_response_events,  \* NO_OCCUPANT_RESPONSE rows of incident_events
    attempts,            \* rows of call_attempts: ids 1..attempts
    call_incident,       \* call_attempts.incident_id
    call_status,         \* call_attempts.status
    requested_at,        \* call_attempts.requested_at
    failed_once,         \* history: attempts that were FAILED at some time
    timer,               \* where the incident's ResponseTimeoutManager task is
    observing,           \* incidents whose update is stored, observe() not yet run
    flight,              \* who awaits the provider's answer for an attempt
    provider,            \* external: the provider's view of the attempt
    armed,               \* app.state.armed
    now                  \* the wall clock

incidentVars == <<hazard_state, response_state, confirmed_at, resolved_at,
                  occupant_response, no_response_events>>
attemptVars  == <<attempts, call_incident, call_status, requested_at, failed_once>>
taskVars     == <<timer, observing, flight>>
vars         == <<incidentVars, attemptVars, taskVars, provider, armed, now>>

Init ==
    /\ hazard_state       = [i \in Incidents |-> "ABSENT"]
    /\ response_state     = [i \in Incidents |-> "ABSENT"]
    /\ confirmed_at       = {}
    /\ resolved_at        = {}
    /\ occupant_response  = [i \in Incidents |-> "none"]
    /\ no_response_events = [i \in Incidents |-> 0]
    /\ attempts           = 0
    /\ call_incident      = [a \in AttemptIds |-> NoIncident]
    /\ call_status        = [a \in AttemptIds |-> "REQUESTED"]
    /\ requested_at       = [a \in AttemptIds |-> 0]
    /\ failed_once        = {}
    /\ timer              = [i \in Incidents |-> "none"]
    /\ observing          = {}
    /\ flight             = [a \in AttemptIds |-> "none"]
    /\ provider           = [a \in AttemptIds |-> "none"]
    /\ armed              = FALSE
    /\ now                = 0

-----------------------------------------------------------------------------
(* The store *)

Known(i) == hazard_state[i] # "ABSENT"

\* Variant: a replay may reopen a cancelled incident.
BackendOwnedButCancelled == {"ESCALATING", "CALL_REQUESTED", "CALL_INITIATED",
                             "CALL_CONNECTED", "CALL_COMPLETED", "CALL_FAILED"}

\* Variant: a replay may downgrade an escalation.
BackendOwnedButEscalating == {"CANCELLED", "CALL_REQUESTED", "CALL_INITIATED",
                              "CALL_CONNECTED", "CALL_COMPLETED", "CALL_FAILED"}

\* Response states a device update may not overwrite.
BackendOwned == {"CANCELLED", "ESCALATING", "CALL_REQUESTED", "CALL_INITIATED",
                 "CALL_CONNECTED", "CALL_COMPLETED", "CALL_FAILED"}

UpsertIncident(i, report) ==
    /\ hazard_state'   = [hazard_state EXCEPT ![i] = report.hazard]
    /\ response_state' = IF response_state[i] \in BackendOwned
                         THEN response_state
                         ELSE [response_state EXCEPT ![i] = report.response]
    /\ confirmed_at'   = IF report.hazard = "CONFIRMED" THEN confirmed_at \cup {i} ELSE confirmed_at
    /\ resolved_at'    = IF report.hazard = "RESOLVED" THEN resolved_at \cup {i} ELSE resolved_at
    /\ UNCHANGED <<occupant_response, no_response_events>>

\* update_incident_response without a hazard: the occupant's or the timer's verdict.
SetResponse(i, response, occupant) ==
    /\ response_state'    = [response_state EXCEPT ![i] = response]
    /\ occupant_response' = [occupant_response EXCEPT ![i] = occupant]
    /\ UNCHANGED <<hazard_state, confirmed_at, resolved_at>>

Attempts(i)   == {a \in 1..attempts : call_incident[a] = i}

\* Variant: a call whose outcome is unknown is retried.
ActiveStatusButUnknown == {"REQUESTED", "INITIATED", "CONNECTED", "COMPLETED"}

\* The statuses that count against the limit and start the cooldown.
ActiveStatus  == {"REQUESTED", "INITIATED", "UNKNOWN", "CONNECTED", "COMPLETED"}
Active        == {a \in 1..attempts : call_status[a] \in ActiveStatus}

\* Variant: the policy without the confirmation check.
CallAllowedUnconfirmed(i) ==
    /\ CallMode # "disabled"
    /\ response_state[i] # "CANCELLED"
    /\ Cardinality(Active \cap Attempts(i)) < MaxCalls
    /\ \A a \in Active : requested_at[a] + Cooldown <= now

\* Variant: the cooldown looks at the incident's own calls only.
CallAllowedLocalCooldown(i) ==
    /\ CallMode # "disabled"
    /\ i \in confirmed_at
    /\ response_state[i] # "CANCELLED"
    /\ Cardinality(Active \cap Attempts(i)) < MaxCalls
    /\ \A a \in Active \cap Attempts(i) : requested_at[a] + Cooldown <= now

\* The policy request_demo_call and reserve_call_attempt enforce; nothing is
\* awaited between the two, so they read the same rows.
CallAllowed(i) ==
    /\ CallMode # "disabled"
    /\ i \in confirmed_at
    /\ response_state[i] # "CANCELLED"
    /\ Cardinality(Active \cap Attempts(i)) < MaxCalls
    /\ \A a \in Active : requested_at[a] + Cooldown <= now

\* Variant: the status is stored as the response without its prefix.
ResponseForUnmapped(status) == status

\* Variant: an accepted request is taken for a connected call.
ResponseForInferred(status) ==
    CASE status \in {"INITIATED", "CONNECTED"} -> "CALL_CONNECTED"
      [] status = "UNKNOWN"                    -> "CALL_INITIATED"
      [] status = "COMPLETED"                  -> "CALL_COMPLETED"
      [] status = "FAILED"                     -> "CALL_FAILED"
      [] status = "REQUESTED"                  -> "CALL_REQUESTED"

\* What update_call_attempt writes to incidents.response_state.
ResponseFor(status) ==
    CASE status \in {"INITIATED", "UNKNOWN"} -> "CALL_INITIATED"
      [] status = "CONNECTED"                -> "CALL_CONNECTED"
      [] status = "COMPLETED"                -> "CALL_COMPLETED"
      [] status = "FAILED"                   -> "CALL_FAILED"
      [] status = "REQUESTED"                -> "CALL_REQUESTED"

\* The attempt and its incident are overwritten whatever they held.
UpdateAttempt(a, status) ==
    /\ call_status'    = [call_status EXCEPT ![a] = status]
    /\ response_state' = [response_state EXCEPT ![call_incident[a]] = ResponseFor(status)]
    /\ failed_once'    = IF status = "FAILED" THEN failed_once \cup {a} ELSE failed_once
    /\ UNCHANGED <<attempts, call_incident, requested_at, hazard_state, confirmed_at,
                   resolved_at, occupant_response, no_response_events>>

\* request_demo_call up to its first await: the row is reserved, and either the mock
\* provider answers in place or the POST is sent and "caller" waits for it.
RequestDemoCall(i, caller) ==
    LET a == attempts + 1
        mock == CallMode = "mock"
        status == IF mock THEN "INITIATED" ELSE "REQUESTED"
    IN /\ a <= MaxAttempts
       /\ attempts'       = a
       /\ call_incident'  = [call_incident EXCEPT ![a] = i]
       /\ requested_at'   = [requested_at EXCEPT ![a] = now]
       /\ call_status'    = [call_status EXCEPT ![a] = status]
       /\ response_state' = [response_state EXCEPT ![i] = ResponseFor(status)]
       /\ flight'         = IF mock THEN flight ELSE [flight EXCEPT ![a] = caller]
       /\ provider'       = IF mock THEN provider ELSE [provider EXCEPT ![a] = "pending"]
       /\ UNCHANGED <<failed_once, hazard_state, confirmed_at, resolved_at,
                      occupant_response, no_response_events>>

-----------------------------------------------------------------------------
(* Devices and arming *)

\* Variant: the incident observer is not wired to the receiver.
DeviceUpdateUnobserved(i, report) ==
    /\ armed
    /\ UpsertIncident(i, report)
    /\ UNCHANGED <<attemptVars, taskVars, provider, armed, now>>

\* _dispatch of an INCIDENT_UPDATE, up to the broadcast it awaits.  While the
\* system is not armed the packet is dropped.
DeviceUpdate(i, report) ==
    /\ armed
    /\ UpsertIncident(i, report)
    /\ observing' = observing \cup {i}
    /\ UNCHANGED <<attemptVars, timer, flight, provider, armed, now>>

\* The rest of _dispatch, after the broadcast: ResponseTimeoutManager.observe.
Observe(i) ==
    /\ i \in observing
    /\ observing' = observing \ {i}
    /\ timer' = IF response_state[i] = "AWAITING_RESPONSE" /\ timer[i] = "none"
                THEN [timer EXCEPT ![i] = "sleeping"]
                ELSE timer
    /\ UNCHANGED <<incidentVars, attemptVars, flight, provider, armed, now>>

SetArmed(value) ==
    /\ armed' = value
    /\ UNCHANGED <<incidentVars, attemptVars, taskVars, provider, now>>

-----------------------------------------------------------------------------
(* The response timer *)

\* Variant: the timer does not escalate a fire that is out of sight for a moment.
VisibleNow == {"CONFIRMED"}

\* The hazard states in which nobody answering is an emergency.
Visible == {"CONFIRMED", "VISUAL_SIGNATURE_LOST"}

\* The sleep ends and the row no longer calls for an escalation.
TimerReturns(i) ==
    /\ timer[i] = "sleeping"
    /\ \/ response_state[i] # "AWAITING_RESPONSE"
       \/ hazard_state[i] \notin Visible
    /\ timer' = [timer EXCEPT ![i] = "none"]
    /\ UNCHANGED <<incidentVars, attemptVars, observing, flight, provider, armed, now>>

\* The sleep ends with nobody having answered; two broadcasts are awaited next.
TimerEscalates(i) ==
    /\ timer[i] = "sleeping"
    /\ response_state[i] = "AWAITING_RESPONSE"
    /\ hazard_state[i] \in Visible
    /\ SetResponse(i, "ESCALATING", "no_response")
    /\ no_response_events' = [no_response_events EXCEPT ![i] = @ + 1]
    /\ timer' = [timer EXCEPT ![i] = "announcing"]
    /\ UNCHANGED <<attemptVars, observing, flight, provider, armed, now>>

\* The broadcasts are out: the policy blocks the call and the task ends.
TimerBlocked(i) ==
    /\ timer[i] = "announcing"
    /\ ~CallAllowed(i)
    /\ timer' = [timer EXCEPT ![i] = "none"]
    /\ UNCHANGED <<incidentVars, attemptVars, observing, flight, provider, armed, now>>

\* The broadcasts are out: the call is requested.
TimerCalls(i) ==
    /\ timer[i] = "announcing"
    /\ CallAllowed(i)
    /\ RequestDemoCall(i, "timer")
    /\ timer' = [timer EXCEPT ![i] = IF CallMode = "mock" THEN "none" ELSE "posting"]
    /\ UNCHANGED <<observing, armed, now>>

\* Variant: the task is dropped from the table but not cancelled.
CancelTimerForgets(i) == UNCHANGED <<timer, flight>>

\* ResponseTimeoutManager.cancel: the task gets CancelledError at its await.  A POST
\* it was waiting for is abandoned with the attempt as it stands.
CancelTimer(i) ==
    /\ timer' = [timer EXCEPT ![i] = "none"]
    /\ flight' = [a \in AttemptIds |->
                    IF flight[a] = "timer" /\ call_incident[a] = i THEN "none" ELSE flight[a]]

-----------------------------------------------------------------------------
(* The operator's endpoints *)

Confirm(i) ==
    /\ hazard_state[i] \in Visible
    /\ response_state[i] # "CANCELLED"
    /\ CancelTimer(i)
    /\ SetResponse(i, "ESCALATING", "confirmed")
    /\ UNCHANGED <<no_response_events, attemptVars, observing, provider, armed, now>>

Cancel(i) ==
    /\ Known(i)
    /\ response_state[i] \notin {"CALL_CONNECTED", "CALL_COMPLETED"}
    /\ CancelTimer(i)
    /\ SetResponse(i, "CANCELLED", "cancelled")
    /\ UNCHANGED <<no_response_events, attemptVars, observing, provider, armed, now>>

Reset(i) ==
    /\ response_state[i] \in {"CANCELLED", "CALL_COMPLETED", "CALL_FAILED"}
    /\ hazard_state' = [hazard_state EXCEPT ![i] = "RESOLVED"]
    /\ resolved_at'  = resolved_at \cup {i}
    /\ UNCHANGED <<response_state, confirmed_at, occupant_response, no_response_events,
                   attemptVars, taskVars, provider, armed, now>>

\* POST .../call-demo-dispatch, up to the provider's answer.
CallDemoDispatch(i) ==
    /\ armed
    /\ Known(i)
    /\ attempts < ApiBudget
    /\ CallAllowed(i)
    /\ RequestDemoCall(i, "api")
    /\ UNCHANGED <<timer, observing, armed, now>>

-----------------------------------------------------------------------------
(* The provider, and what comes back from it *)

Reached == {"ringing", "connected", "completed", "failed"}

\* External: the provider refuses the request or places the call, and the call goes on.
ProviderActs(a) ==
    /\ \E next \in {"refused", "ringing", "connected", "completed", "failed"} :
         /\ <<provider[a], next>> \in
              {<<"pending", "refused">>, <<"pending", "ringing">>, <<"ringing", "failed">>,
               <<"ringing", "connected">>, <<"connected", "completed">>}
         /\ provider' = [provider EXCEPT ![a] = next]
    /\ UNCHANGED <<incidentVars, attemptVars, taskVars, armed, now>>

\* How the awaited POST can end, given what the provider did with it: the response it
\* sent, a timeout, or a connection error that may come before or after it acted.
Outcomes(a) ==
    {"UNKNOWN", "FAILED"} \cup (IF provider[a] \in Reached THEN {"INITIATED"} ELSE {})

FinishPost(a) ==
    /\ flight[a] # "none"
    /\ flight' = [flight EXCEPT ![a] = "none"]
    /\ timer'  = IF flight[a] = "timer"
                 THEN [timer EXCEPT ![call_incident[a]] = "none"]
                 ELSE timer
    /\ UNCHANGED <<observing, provider, armed, now>>

PostReturns(a, status) ==
    /\ FinishPost(a)
    /\ UpdateAttempt(a, status)

\* The provider accepted, but response.json() raises: nothing is written.
PostUnreadable(a) ==
    /\ provider[a] \in Reached
    /\ FinishPost(a)
    /\ UNCHANGED <<incidentVars, attemptVars>>

\* The call states the provider has reported, or may still report late or again.
Reported(a) ==
    CASE provider[a] = "connected" -> {"CONNECTED"}
      [] provider[a] = "completed" -> {"CONNECTED", "COMPLETED"}
      [] provider[a] = "failed"    -> {"FAILED"}
      [] OTHER                     -> {}

\* The latest row of the incident, find_attempt_for_incident.
IsLatest(a, i) == \A b \in Attempts(i) : b <= a

\* The webhook names only the incident: whichever attempt the report is about, the
\* latest one takes it.
ProviderCallStatus(i, status) ==
    /\ \E a \in Attempts(i) : status \in Reported(a)
    /\ \E a \in Attempts(i) : IsLatest(a, i) /\ UpdateAttempt(a, status)
    /\ UNCHANGED <<taskVars, provider, armed, now>>

-----------------------------------------------------------------------------
(* The process and the clock *)

\* The process stops, at any await, and comes up again: the store survives, tasks,
\* requests in flight and the arming switch do not.
Restart ==
    /\ CanRestart
    /\ timer'     = [i \in Incidents |-> "none"]
    /\ observing' = {}
    /\ flight'    = [a \in AttemptIds |-> "none"]
    /\ armed'     = FALSE
    /\ UNCHANGED <<incidentVars, attemptVars, provider, now>>

Tick ==
    /\ now < MaxTime
    /\ now' = now + 1
    /\ UNCHANGED <<incidentVars, attemptVars, taskVars, provider, armed>>

IncidentStep(i) ==
    \/ \E report \in DeviceReports : DeviceUpdate(i, report)
    \/ Observe(i)
    \/ TimerReturns(i)
    \/ TimerEscalates(i)
    \/ TimerBlocked(i)
    \/ TimerCalls(i)
    \/ Confirm(i)
    \/ Cancel(i)
    \/ Reset(i)
    \/ CallDemoDispatch(i)
    \/ \E status \in {"CONNECTED", "COMPLETED", "FAILED"} : ProviderCallStatus(i, status)

AttemptStep(a) ==
    \/ ProviderActs(a)
    \/ \E status \in Outcomes(a) : PostReturns(a, status)
    \/ PostUnreadable(a)

Next ==
    \/ \E i \in Incidents : IncidentStep(i)
    \/ \E a \in 1..attempts : AttemptStep(a)
    \/ \E value \in BOOLEAN : SetArmed(value)
    \/ Restart
    \/ Tick

Spec == Init /\ [][Next]_vars

\* The loop runs every task that is ready: a stored update is observed, a sleep ends,
\* and an await on a broadcast or on the provider (both have timeouts) returns.
Fairness ==
    /\ \A i \in Incidents :
         /\ WF_vars(Observe(i))
         /\ WF_vars(TimerReturns(i) \/ TimerEscalates(i))
         /\ WF_vars(TimerBlocked(i) \/ TimerCalls(i))
    /\ \A a \in AttemptIds : WF_vars(\E status \in Outcomes(a) : PostReturns(a, status))

FairSpec == Spec /\ Fairness

-----------------------------------------------------------------------------
(* Properties *)

IncidentRowsOK ==
    /\ hazard_state       \in [Incidents -> Hazards \cup {"ABSENT"}]
    /\ response_state     \in [Incidents -> Responses \cup {"ABSENT"}]
    /\ \A i \in Incidents : hazard_state[i] = "ABSENT" <=> response_state[i] = "ABSENT"
    /\ confirmed_at       \subseteq {i \in Incidents : Known(i)}
    /\ resolved_at        \subseteq Incidents
    /\ occupant_response  \in [Incidents -> {"none", "no_response", "confirmed", "cancelled"}]
    /\ no_response_events \in [Incidents -> Nat]

AttemptRowsOK ==
    /\ attempts           \in 0..MaxAttempts
    /\ call_incident      \in [AttemptIds -> Incidents \cup {NoIncident}]
    /\ \A a \in 1..attempts : call_incident[a] \in Incidents
    /\ call_status        \in [AttemptIds -> Statuses]
    /\ requested_at       \in [AttemptIds -> Nat]
    /\ failed_once        \subseteq 1..attempts

TasksOK ==
    /\ timer     \in [Incidents -> {"none", "sleeping", "announcing", "posting"}]
    /\ observing \subseteq Incidents
    /\ flight    \in [AttemptIds -> {"none", "api", "timer"}]

\* Every variable has its type; an incident row has both its states or none, and an
\* attempt row always belongs to an incident (database.py's schema, escalation.py's
\* task table).
TypeOK ==
    /\ IncidentRowsOK
    /\ AttemptRowsOK
    /\ \A a \in 1..attempts : Known(call_incident[a])
    /\ TasksOK
    /\ provider \in [AttemptIds -> ProviderStates]
    /\ armed \in BOOLEAN
    /\ now \in Nat

\* No call is ever requested for an incident that was not visually confirmed, and
\* the confirmation is still on record when the call's outcome arrives
\* (reserve_call_attempt's first check, upsert_incident's COALESCE).
CallsOnlyConfirmed == \A a \in 1..attempts : call_incident[a] \in confirmed_at

\* The response states that are the backend's: past them no device has a say.
Settled   == Responses \ {"IDLE", "AWAITING_RESPONSE"}
Escalated == Settled \ {"CANCELLED"}

\* A timer task past its deadline serves an incident that is escalated or in a call,
\* never one that was cancelled, and while it posts, the attempt it waits for is of
\* its incident.  This is what keeps a cancelled incident from being called by a timer
\* that was already running (cancel(), the re-read in _wait).
TimerServesEscalation ==
    \A i \in Incidents :
      /\ timer[i] \in {"announcing", "posting"} => response_state[i] \in Escalated
      /\ timer[i] = "posting" <=> \E a \in Attempts(i) : flight[a] = "timer"

\* An incident is escalated for want of an answer at most once, whatever the device
\* replays, however often the timer is started, and across restarts.
EscalatesOnce == \A i \in Incidents : no_response_events[i] <= 1

\* Two calls, for any incidents, are the cooldown apart, unless the earlier one was
\* recorded as failed (the global cooldown of reserve_call_attempt).
CooldownKept ==
    \A a, b \in 1..attempts :
      a < b => a \in failed_once \/ requested_at[a] + Cooldown <= requested_at[b]

\* An incident has no more attempts than the limit, beyond those recorded as failed:
\* two concurrent requests, a restart or a late result never yield one more.
RetryOnlyAfterFailure ==
    \A i \in Incidents : Cardinality(Attempts(i) \ failed_once) <= MaxCalls

\* What an occupant answered is never replaced by "no response", and a response the
\* backend owns is never handed back to the device (docs: a replayed AWAITING_RESPONSE
\* cannot downgrade an escalation).
AnswerStands ==
    [][\A i \in Incidents :
         /\ occupant_response[i] \in {"confirmed", "cancelled"} =>
              occupant_response'[i] \in {"confirmed", "cancelled"}
         /\ response_state[i] \in Settled => response_state'[i] \in Settled]_vars

\* Only the provider takes an incident out of CANCELLED, through an attempt that was
\* made before: no device, timer or operator does, and no new attempt is made.
CancelledUntilProvider ==
    [][\A i \in Incidents : response_state[i] = "CANCELLED" =>
         /\ Attempts(i)' = Attempts(i)
         /\ \/ response_state'[i] = "CANCELLED"
            \/ \E a \in Attempts(i) : provider[a] # "none" /\ call_status'[a] # "REQUESTED"]_vars

\* CALL_CONNECTED and CALL_COMPLETED are only shown for a call the provider has
\* reported connected: connection is never inferred from an accepted request.
ConnectedOnlyByCallback ==
    \A i \in Incidents :
      response_state[i] \in {"CALL_CONNECTED", "CALL_COMPLETED"} =>
        \E a \in Attempts(i) : provider[a] \in {"connected", "completed"}

\* While the process stays up, an incident awaiting a response has its deadline: a
\* task is sleeping for it or is about to be started.
AwaitingHasDeadline ==
    \A i \in Incidents :
      response_state[i] = "AWAITING_RESPONSE" => timer[i] = "sleeping" \/ i \in observing

\* The deterministic timeout: nothing waits for an answer for ever.
AwaitingEnds ==
    \A i \in Incidents :
      response_state[i] = "AWAITING_RESPONSE" ~> response_state[i] # "AWAITING_RESPONSE"

\* The published policy, "one call per incident": no incident has more calls ringing,
\* connected or completed at the provider than the limit.
PlacedWithinLimit ==
    \A i \in Incidents :
      Cardinality({a \in Attempts(i) : provider[a] \in Reached \ {"failed"}}) <= MaxCalls

\* The call policy the backend implements, read off its rows.
Ledger == INSTANCE CallLedger WITH
    confirmed <- confirmed_at,
    verdict   <- occupant_response,
    requests  <- attempts,
    owner     <- call_incident,
    stamp     <- requested_at,
    failed    <- failed_once,
    clock     <- now

\* Every step of timers, endpoints, provider and restarts is a step of the call policy
\* or leaves its view unchanged.
ImplementsLedger == Ledger!Spec
=============================================================================
