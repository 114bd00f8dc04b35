------------------------------ MODULE PacketStream ------------------------------
(***************************************************************************)
(* Packets over a byte stream: encode_packet and the PacketParser          *)
(* (backend/app/protocol.py), and the loop of the receiver that feeds it   *)
(* and checks the sequence numbers (tcp_server.py, _handle_connection).    *)
(*                                                                         *)
(* A byte is the packet it belongs to and its place in it, so that a       *)
(* parser out of step reads bytes of the wrong place: it sees no magic at  *)
(* the start of a header, or another checksum.  Header and payload sizes   *)
(* are small; TCP delivers the stream in chunks of any size up to that of  *)
(* the read.                                                               *)
(***************************************************************************)
EXTENDS Integers, Sequences

CONSTANTS
    HeaderSize,
    MaxPayload,    \* max_payload_bytes
    ChunkSize,     \* bytes asked for in a read
    Packets,       \* packets a sender may send
    MaxPackets     \* bound: packets on a connection

\* damage: where the bytes that arrive are not what encode_packet writes.
Packet == [type : {"HELLO", "DATA"}, sequence : Nat, length : Nat, damage : {"none", "header", "payload"}]

ASSUME StreamAssumption ==
    /\ HeaderSize \in Nat \ {0}
    /\ MaxPayload \in Nat
    /\ ChunkSize \in 1..(MaxPayload + 1)
    /\ Packets \subseteq Packet
    /\ MaxPackets \in Nat

VARIABLES
    \* the sender and the network
    sent,          \* packets sent
    wire,          \* their bytes, not read yet
    ended,         \* the sender closed its end
    \* the receiver
    pc,            \* "read", "parse", "dispatch" or "closed"
    buffer,        \* _buffer
    expected,      \* the packet of the header in _expected, 0 for None
    packets,       \* what feed() has parsed from the chunk
    last_sequence,
    dispatched,    \* HELLO and the packets dispatched after it
    rejected       \* a ProtocolError ended the connection

senderVars   == <<sent, wire, ended>>
parserVars   == <<buffer, expected, packets>>
receiverVars == <<last_sequence, dispatched>>
vars == <<senderVars, pc, parserVars, receiverVars, rejected>>

Init ==
    /\ sent = << >> /\ wire = << >> /\ ended = FALSE
    /\ pc = "read"
    /\ buffer = << >> /\ expected = 0 /\ packets = << >>
    /\ last_sequence = -1
    /\ dispatched = << >>
    /\ rejected = FALSE

First(bytes, n) == SubSeq(bytes, 1, n)
From(bytes, n)  == SubSeq(bytes, n + 1, Len(bytes))

\* Bytes first to last of the n-th packet.
Bytes(n, first, last) == [k \in 1..(last - first + 1) |-> [packet |-> n, place |-> first + k - 1]]

-----------------------------------------------------------------------------
(* The sender *)

Send(packet) ==
    /\ ~ended /\ Len(sent) < MaxPackets
    /\ sent' = Append(sent, packet)
    /\ wire' = wire \o Bytes(Len(sent) + 1, 1, HeaderSize + packet.length)
    /\ UNCHANGED <<ended, pc, parserVars, receiverVars, rejected>>

Finish ==
    /\ ~ended
    /\ ended' = TRUE
    /\ UNCHANGED <<sent, wire, pc, parserVars, receiverVars, rejected>>

-----------------------------------------------------------------------------
(* The parser *)

\* A ProtocolError: what feed() had parsed is never returned.
Reject ==
    /\ pc' = "closed"
    /\ rejected' = TRUE
    /\ packets' = << >>

\* Variant: the limit does not count the header.
FitsPayload(n) == Len(buffer) + n <= MaxPayload

\* Variant: the buffer has no limit.
FitsAlways(n) == TRUE

\* The whole chunk must find room for one packet of the maximal size.
Fits(n) == Len(buffer) + n <= MaxPayload + HeaderSize

\* A chunk is read and fed.
Read(n) ==
    /\ pc = "read"
    /\ n \in 1..ChunkSize /\ n <= Len(wire)
    /\ wire' = From(wire, n)
    /\ IF Fits(n)
       THEN /\ buffer' = buffer \o First(wire, n)
            /\ pc' = "parse"
            /\ UNCHANGED <<packets, rejected>>
       ELSE /\ Reject
            /\ UNCHANGED buffer
    /\ UNCHANGED <<sent, ended, expected, receiverVars>>

\* The bytes are a header as it was sent: magic, version and type are what they should be.
IsHeader(bytes) ==
    /\ bytes = Bytes(bytes[1].packet, 1, HeaderSize)
    /\ sent[bytes[1].packet].damage # "header"

\* The header is taken from the buffer and kept until its payload is there.
ParseHeader ==
    /\ pc = "parse" /\ expected = 0 /\ Len(buffer) >= HeaderSize
    /\ buffer' = From(buffer, HeaderSize)
    /\ IF IsHeader(First(buffer, HeaderSize)) /\ sent[buffer[1].packet].length <= MaxPayload
       THEN expected' = buffer[1].packet /\ UNCHANGED <<pc, packets, rejected>>
       ELSE Reject /\ UNCHANGED expected
    /\ UNCHANGED <<senderVars, receiverVars>>

ExpectedLength == sent[expected].length

\* The checksum of the payload is the one the header has.
IsPayload(bytes) ==
    /\ bytes = Bytes(expected, HeaderSize + 1, HeaderSize + ExpectedLength)
    /\ sent[expected].damage # "payload"

\* The payload is taken from the buffer: a packet.
ParsePayload ==
    /\ pc = "parse" /\ expected # 0 /\ Len(buffer) >= ExpectedLength
    /\ buffer' = From(buffer, ExpectedLength)
    /\ expected' = 0
    /\ IF IsPayload(First(buffer, ExpectedLength))
       THEN packets' = Append(packets, expected) /\ UNCHANGED <<pc, rejected>>
       ELSE Reject
    /\ UNCHANGED <<senderVars, receiverVars>>

\* Too few bytes for a header, or for the payload: feed() returns.
Incomplete == Len(buffer) < IF expected = 0 THEN HeaderSize ELSE ExpectedLength

Fed ==
    /\ pc = "parse" /\ Incomplete
    /\ pc' = "dispatch"
    /\ UNCHANGED <<senderVars, parserVars, receiverVars, rejected>>

-----------------------------------------------------------------------------
(* The receiver's loop *)

\* Variant: a repeated number is taken for a new one.
Older(packet) == packet.sequence < last_sequence

Stale(packet) == packet.sequence <= last_sequence

\* The next packet feed() returned: an old sequence number is reported and skipped, and
\* HELLO is the first packet and no other.
Handle ==
    /\ pc = "dispatch" /\ packets # << >>
    /\ LET packet == sent[Head(packets)]
           greets == dispatched = << >>
       IN IF Stale(packet)
          THEN packets' = Tail(packets) /\ UNCHANGED <<pc, receiverVars, rejected>>
          ELSE /\ last_sequence' = packet.sequence
               /\ IF greets <=> packet.type = "HELLO"
                  THEN /\ dispatched' = Append(dispatched, Head(packets))
                       /\ packets' = Tail(packets)
                       /\ UNCHANGED <<pc, rejected>>
                  ELSE Reject /\ UNCHANGED dispatched
    /\ UNCHANGED <<senderVars, buffer, expected>>

ReadAgain ==
    /\ pc = "dispatch" /\ packets = << >>
    /\ pc' = "read"
    /\ UNCHANGED <<senderVars, parserVars, receiverVars, rejected>>

\* End of file: what is left in the buffer is an incomplete packet.
EndOfFile ==
    /\ pc = "read" /\ ended /\ wire = << >>
    /\ pc' = "closed"
    /\ UNCHANGED <<senderVars, parserVars, receiverVars, rejected>>

Receiver ==
    \/ \E n \in 1..ChunkSize : Read(n)
    \/ ParseHeader \/ ParsePayload \/ Fed
    \/ Handle \/ ReadAgain \/ EndOfFile

Next == (\E packet \in Packets : Send(packet)) \/ Finish \/ Receiver

Spec == Init /\ [][Next]_vars

\* The receiver's task runs whenever there is something to read.
FairSpec == Spec /\ WF_vars(Receiver)

-----------------------------------------------------------------------------
(* Properties *)

Byte == [packet : 1..MaxPackets, place : Nat \ {0}]

\* Every variable has its type; the buffer never holds more than one packet of the maximal
\* size, and between two reads it holds less than what is waited for.
TypeOK ==
    /\ sent \in Seq(Packets) /\ Len(sent) <= MaxPackets
    /\ wire \in Seq(Byte) /\ buffer \in Seq(Byte)
    /\ Len(buffer) <= MaxPayload + HeaderSize
    /\ ended \in BOOLEAN /\ rejected \in BOOLEAN
    /\ pc \in {"read", "parse", "dispatch", "closed"}
    /\ expected \in 0..Len(sent)
    /\ packets \in Seq(1..Len(sent)) /\ dispatched \in Seq(1..Len(sent))
    /\ last_sequence \in Nat \cup {-1}
    /\ pc \in {"read", "dispatch"} => Incomplete

\* A packet that is as it was encoded, not too long, and leaves room for a chunk.
Acceptable(n) ==
    /\ sent[n].damage = "none" /\ sent[n].length <= MaxPayload
    /\ sent[n].length + ChunkSize <= MaxPayload + HeaderSize + 1
    /\ n = 1 <=> sent[n].type = "HELLO"

\* However a legal stream is cut into chunks, it is never rejected: only damage, a packet out
\* of protocol or one so long that the rest of a chunk may not fit behind it ends a connection.
LegalStreamAccepted == rejected => \E n \in DOMAIN sent : ~Acceptable(n)

\* The parser is always in step: what is dispatched is what was sent, in order and without
\* gaps, for every way the stream is cut, and all of it unless the connection ends.
Queue == INSTANCE PacketQueue WITH open <- pc # "closed"
ImplementsQueue == Queue!Spec
=============================================================================
