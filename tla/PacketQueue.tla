------------------------------ MODULE PacketQueue ------------------------------
(***************************************************************************)
(* What a device's connection promises to the backend's handlers: the      *)
(* packets are dispatched in the order they were sent, each at most once   *)
(* and none that was damaged, the first is a HELLO, and none is left out   *)
(* but those whose sequence number does not grow.  The connection may end  *)
(* at any time; while it lasts, what can be dispatched is.                 *)
(***************************************************************************)
EXTENDS Integers, Sequences

VARIABLES
    sent,         \* packets in the order they were sent
    dispatched,   \* the indices in sent of the packets dispatched
    open

queueVars == <<sent, dispatched, open>>

Init == sent = << >> /\ dispatched = << >> /\ open = TRUE

Latest == IF dispatched = << >> THEN 0 ELSE dispatched[Len(dispatched)]

LastSequence == IF dispatched = << >> THEN -1 ELSE sent[Latest].sequence

Put ==
    /\ Len(sent') = Len(sent) + 1
    /\ \A n \in 1..Len(sent) : sent'[n] = sent[n]
    /\ UNCHANGED <<dispatched, open>>

Dispatch(n) ==
    /\ open
    /\ n \in (Latest + 1)..Len(sent)
    /\ sent[n].damage = "none"
    /\ sent[n].sequence > LastSequence
    /\ \A m \in (Latest + 1)..(n - 1) : sent[m].sequence <= LastSequence
    /\ dispatched = << >> <=> sent[n].type = "HELLO"
    /\ dispatched' = Append(dispatched, n)
    /\ UNCHANGED <<sent, open>>

End ==
    /\ open
    /\ open' = FALSE
    /\ UNCHANGED <<sent, dispatched>>

Next == Put \/ (\E n \in 1..Len(sent) : Dispatch(n)) \/ End

Spec == Init /\ [][Next]_queueVars /\ WF_queueVars(\E n \in 1..Len(sent) : Dispatch(n))
=============================================================================
