------------------------------ MODULE CallLedger ------------------------------
(***************************************************************************)
(* What the coordination backend promises about outbound calls, without    *)
(* its timers, requests in flight and provider callbacks: a call is        *)
(* requested only for a confirmed incident, no more than the limit for an  *)
(* incident beyond those that failed, and never within the cooldown of a   *)
(* call that has not failed; "no response" is recorded at most once, and   *)
(* only while the occupant has not answered.                               *)
(***************************************************************************)
EXTENDS Integers, FiniteSets

CONSTANTS Incidents, NoIncident, MaxCalls, Cooldown, MaxAttempts

VARIABLES
    confirmed,   \* incidents visually confirmed
    verdict,     \* what is recorded about the occupant of each incident
    requests,    \* calls requested so far: ids 1..requests
    owner,       \* the incident a call was requested for
    stamp,       \* when it was requested
    failed,      \* calls that were recorded as failed
    clock

vars == <<confirmed, verdict, requests, owner, stamp, failed, clock>>

Ids == 1..MaxAttempts

Init ==
    /\ confirmed = {}
    /\ verdict   = [i \in Incidents |-> "none"]
    /\ requests  = 0
    /\ owner     = [a \in Ids |-> NoIncident]
    /\ stamp     = [a \in Ids |-> 0]
    /\ failed    = {}
    /\ clock     = 0

\* The incident is seen confirmed, once and for all.
Sight(i) ==
    /\ confirmed' = confirmed \cup {i}
    /\ UNCHANGED <<verdict, requests, owner, stamp, failed, clock>>

\* Nobody answered in time.
TimeOut(i) ==
    /\ verdict[i] = "none"
    /\ verdict' = [verdict EXCEPT ![i] = "no_response"]
    /\ UNCHANGED <<confirmed, requests, owner, stamp, failed, clock>>

Answer(i, answer) ==
    /\ verdict' = [verdict EXCEPT ![i] = answer]
    /\ UNCHANGED <<confirmed, requests, owner, stamp, failed, clock>>

Standing(i) == {a \in 1..requests : owner[a] = i} \ failed

Request(i) ==
    /\ i \in confirmed
    /\ requests < MaxAttempts
    /\ Cardinality(Standing(i)) < MaxCalls
    /\ \A a \in (1..requests) \ failed : stamp[a] + Cooldown <= clock
    /\ requests' = requests + 1
    /\ owner' = [owner EXCEPT ![requests + 1] = i]
    /\ stamp' = [stamp EXCEPT ![requests + 1] = clock]
    /\ UNCHANGED <<confirmed, verdict, failed, clock>>

Fail(a) ==
    /\ failed' = failed \cup {a}
    /\ UNCHANGED <<confirmed, verdict, requests, owner, stamp, clock>>

Pass ==
    /\ clock' = clock + 1
    /\ UNCHANGED <<confirmed, verdict, requests, owner, stamp, failed>>

Next ==
    \/ \E i \in Incidents :
         \/ Sight(i)
         \/ TimeOut(i)
         \/ \E answer \in {"confirmed", "cancelled"} : Answer(i, answer)
         \/ Request(i)
    \/ \E a \in 1..requests : Fail(a)
    \/ Pass

Spec == Init /\ [][Next]_vars
=============================================================================
