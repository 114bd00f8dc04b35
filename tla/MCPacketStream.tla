---------------------------- MODULE MCPacketStream ----------------------------
(* Instances of PacketStream for TLC. *)
EXTENDS PacketStream

Sound(type, sequence, length) == [type |-> type, sequence |-> sequence, length |-> length, damage |-> "none"]

\* A HELLO, empty and long payloads, one of the maximal and one above it, a number that does
\* not grow, and damage in the header and in the payload.
SomePackets ==
    {Sound("HELLO", 1, 1), Sound("DATA", 1, 2), Sound("DATA", 2, 0), Sound("DATA", 2, 2),
     Sound("DATA", 3, MaxPayload), Sound("DATA", 3, MaxPayload + 1),
     [Sound("DATA", 3, 1) EXCEPT !.damage = "header"],
     [Sound("DATA", 3, 1) EXCEPT !.damage = "payload"]}
=============================================================================
