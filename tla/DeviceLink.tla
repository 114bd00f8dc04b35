------------------------------ MODULE DeviceLink ------------------------------
(***************************************************************************)
(* The TCP link between the edge's BackendStream                           *)
(* (poc/pi/ignis_poc/edge.py) and the backend's DeviceTcpServer            *)
(* (backend/app/tcp_server.py), with the registry of device connections    *)
(* (device_registry.py) and the device's row in the devices table.         *)
(*                                                                         *)
(* Connections are numbered in the order the edge opens them; the backend  *)
(* runs one handler per connection.  A handler's steps end at its awaits:  *)
(* registering, storing the row and writing the ACK is one step, since     *)
(* neither the registry's lock nor the database suspends.                  *)
(*                                                                         *)
(* wire[c] holds the packets the handler of c has not dispatched yet: in   *)
(* the network, in the reader's buffer or in the chunk being dispatched.   *)
(* Closing the writer stops the reading, not the dispatching: any prefix   *)
(* may be buffered already.  The order within a connection is TCP's, so    *)
(* the receiver's check of the sequence numbers never skips a packet here. *)
(***************************************************************************)
EXTENDS Integers, Sequences

CONSTANTS
    MaxConnection,   \* bound: connections the edge opens
    MaxBoot,         \* bound: starts of the edge process
    MaxClock,        \* bound: incident updates and timeline events raised
    MaxFaults        \* bound: timeouts, broken connections, crashes and restarts

ASSUME LinkAssumption ==
    /\ MaxConnection \in Nat
    /\ MaxBoot \in Nat \ {0}
    /\ MaxClock \in Nat
    /\ MaxFaults \in Nat

Connections == 1..MaxConnection
Boots       == 1..MaxBoot

VARIABLES
    \* the edge
    boot,        \* boot_id
    clock,       \* sequence number of the last update or event the loop raised
    opened,      \* connections opened so far
    conn,        \* the connection in use, 0 for None
    edge,        \* "idle", "greeting" (connect() waits for the ACK) or "open"
    \* the network
    wire,
    ended,       \* the edge closed its end: the reader sees EOF after the wire
    acked,       \* HELLO_ACK was written
    \* the backend
    handler,     \* where the handler of a connection is
    hello,       \* boot_id its HELLO carried, 0 before
    closing,     \* writer.is_closing()
    registry,    \* registry.connections[device_id], 0 when absent
    \* its database
    row,         \* the devices row
    hazard,      \* per boot (one incident each), the number of the stored update, 0 for no row
    events,      \* the timeline events stored
    \* history
    raised,      \* the timeline events the edge raised
    restarted,   \* the backend restarted after the last HELLO
    faults

edgeVars    == <<boot, opened, conn, edge>>
storeVars   == <<hazard, events>>
deviceVars  == <<registry, row, restarted>>
handlerVars == <<handler, hello, closing>>
vars == <<edgeVars, clock, wire, ended, acked, handlerVars, deviceVars, storeVars, raised, faults>>

Packet == [type : {"HELLO", "INCIDENT_UPDATE", "INCIDENT_TIMELINE_EVENT"},
           boot : Boots, sequence : 0..MaxClock]

Init ==
    /\ boot = 1 /\ clock = 0 /\ opened = 0 /\ conn = 0 /\ edge = "idle"
    /\ wire    = [c \in Connections |-> << >>]
    /\ ended   = [c \in Connections |-> FALSE]
    /\ acked   = [c \in Connections |-> FALSE]
    /\ handler = [c \in Connections |-> "none"]
    /\ hello   = [c \in Connections |-> 0]
    /\ closing = [c \in Connections |-> FALSE]
    /\ registry = 0
    /\ row = [connected |-> FALSE, boot |-> 0]
    /\ hazard = [b \in Boots |-> 0]
    /\ events = {} /\ raised = {}
    /\ restarted = FALSE /\ faults = 0

Fault == faults < MaxFaults /\ faults' = faults + 1

\* Any part of the packets from the first on.
Prefixes(packets) == {SubSeq(packets, 1, n) : n \in 0..Len(packets)}

\* The handler is there to read what the edge sends.
Reads(c) == handler[c] \in {"reading", "greeting"} /\ ~closing[c]

-----------------------------------------------------------------------------
(* The edge *)

\* connect(): the connection is open and HELLO is sent; the ACK is awaited.
Connect ==
    /\ conn = 0 /\ opened < MaxConnection
    /\ opened' = opened + 1
    /\ conn' = opened + 1
    /\ edge' = "greeting"
    /\ handler' = [handler EXCEPT ![opened + 1] = "reading"]
    /\ wire' = [wire EXCEPT ![opened + 1] = <<[type |-> "HELLO", boot |-> boot, sequence |-> clock]>>]
    /\ UNCHANGED <<boot, clock, ended, acked, hello, closing, deviceVars, storeVars, raised, faults>>

\* Variant: the ACK is not awaited.
AcknowledgedAtOnce(c) == TRUE

Acknowledged(c) == acked[c]

\* connect() returns True.
Open ==
    /\ edge = "greeting" /\ Acknowledged(conn)
    /\ edge' = "open"
    /\ UNCHANGED <<boot, clock, opened, conn, wire, ended, acked, handlerVars, deviceVars, storeVars, raised, faults>>

\* Variant: after an error the connection is kept.
AbandonButKeep ==
    /\ UNCHANGED <<opened, conn, wire>>
    /\ edge' = "open"
    /\ ended' = [ended EXCEPT ![conn] = TRUE]

\* Variant: only the socket is dropped.
AbandonHalf ==
    /\ conn' = 0
    /\ ended' = [ended EXCEPT ![conn] = TRUE]
    /\ UNCHANGED <<opened, edge, wire>>

\* close(): the edge is done with its connection.  Its end of the connection is closed
\* after what was sent, or, when the network is gone, the backend sees no end of it.
Abandon ==
    /\ conn' = 0 /\ edge' = "idle"
    /\ UNCHANGED opened
    /\ \/ ended' = [ended EXCEPT ![conn] = TRUE] /\ UNCHANGED wire
       \/ \E sent \in Prefixes(wire[conn]) : wire' = [wire EXCEPT ![conn] = sent]
          /\ UNCHANGED ended

\* The backend closed the connection: the ACK never comes, or the next packet (a frame is
\* sent every period) fails.
Notice ==
    /\ conn # 0 /\ ~Reads(conn)
    /\ Abandon
    /\ UNCHANGED <<boot, clock, acked, handlerVars, deviceVars, storeVars, raised, faults>>

\* The ACK is late by more than the socket's timeout, or sendall() fails.
Lose ==
    /\ conn # 0
    /\ Fault
    /\ Abandon
    /\ UNCHANGED <<boot, clock, acked, handlerVars, deviceVars, storeVars, raised>>

\* The edge process dies, or the Pi loses power, and starts again.
Crash ==
    /\ boot < MaxBoot
    /\ Fault
    /\ boot' = boot + 1
    /\ IF conn = 0 THEN UNCHANGED <<opened, conn, edge, wire, ended>> ELSE Abandon
    /\ UNCHANGED <<clock, acked, handlerVars, deviceVars, storeVars, raised>>

\* stream.send() of an update or an event: what is sent while there is no connection, or on
\* one the backend no longer reads, is gone; the loop does not look at the result.
Send(type) ==
    /\ edge # "greeting" /\ clock < MaxClock
    /\ clock' = clock + 1
    /\ raised' = IF type = "INCIDENT_TIMELINE_EVENT" THEN raised \cup {clock + 1} ELSE raised
    /\ IF conn # 0 /\ Reads(conn)
       THEN wire' = [wire EXCEPT ![conn] =
                       Append(@, [type |-> type, boot |-> boot, sequence |-> clock + 1])]
       ELSE UNCHANGED wire
    /\ UNCHANGED <<edgeVars, ended, acked, handlerVars, deviceVars, storeVars, faults>>

-----------------------------------------------------------------------------
(* The backend *)

Packet1(c) == Head(wire[c])

\* register(), upsert_device() and the ACK: the connection replaces the one before, whose
\* writer is closed.
Hello(c) ==
    /\ handler[c] = "reading" /\ hello[c] = 0 /\ wire[c] # << >>
    /\ Packet1(c).type = "HELLO"
    /\ handler' = [handler EXCEPT ![c] = "greeting"]
    /\ hello' = [hello EXCEPT ![c] = Packet1(c).boot]
    /\ registry' = c
    /\ row' = [connected |-> TRUE, boot |-> Packet1(c).boot]
    /\ restarted' = FALSE
    /\ acked' = [acked EXCEPT ![c] = TRUE]
    /\ IF registry = 0
       THEN /\ wire' = [wire EXCEPT ![c] = Tail(@)]
            /\ UNCHANGED closing
       ELSE /\ \E read \in Prefixes(wire[registry]) :
                 wire' = [wire EXCEPT ![c] = Tail(@), ![registry] = read]
            /\ closing' = [closing EXCEPT ![registry] = TRUE]
    /\ UNCHANGED <<edgeVars, clock, ended, storeVars, raised, faults>>

\* The ACK is drained and announced: hello is set, packets are dispatched from here on.
Greeted(c) ==
    /\ handler[c] = "greeting"
    /\ handler' = [handler EXCEPT ![c] = "reading"]
    /\ UNCHANGED <<edgeVars, clock, wire, ended, acked, hello, closing, deviceVars, storeVars, raised, faults>>

Dispatches(c, type) ==
    /\ handler[c] = "reading" /\ hello[c] # 0 /\ wire[c] # << >>
    /\ Packet1(c).type = type
    /\ wire' = [wire EXCEPT ![c] = Tail(@)]

\* The row takes what the packet says, whatever it held; nothing is stored while disarmed,
\* and the operator may arm and disarm at any time.
IncidentUpdate(c) ==
    /\ Dispatches(c, "INCIDENT_UPDATE")
    /\ \E armed \in BOOLEAN :
         hazard' = IF armed THEN [hazard EXCEPT ![hello[c]] = Packet1(c).sequence] ELSE hazard
    /\ UNCHANGED <<edgeVars, clock, ended, acked, handlerVars, deviceVars, events, raised, faults>>

\* An event of an incident that has no row is an error that ends the connection.
TimelineEvent(c) ==
    /\ Dispatches(c, "INCIDENT_TIMELINE_EVENT")
    /\ IF hazard[hello[c]] = 0
       THEN handler' = [handler EXCEPT ![c] = "rejecting"] /\ UNCHANGED events
       ELSE events' = events \cup {Packet1(c).sequence} /\ UNCHANGED handler
    /\ UNCHANGED <<edgeVars, clock, ended, acked, hello, closing, deviceVars, hazard, raised, faults>>

\* Variant: unregister() does not look at whose writer it is.
IsCurrentWhoever(c) == registry # 0

IsCurrent(c) == registry = c

\* Variant: the device is marked disconnected whoever leaves.
UnregisterMarksAlways(c) ==
    /\ registry' = IF IsCurrent(c) THEN 0 ELSE registry
    /\ row' = IF row.boot = hello[c] THEN [row EXCEPT !.connected = FALSE] ELSE row
    /\ UNCHANGED restarted

\* unregister() and, when the connection was the current one, mark_device_disconnected().
Unregister(c) ==
    /\ registry' = IF IsCurrent(c) THEN 0 ELSE registry
    /\ row' = IF IsCurrent(c) /\ row.boot = hello[c] THEN [row EXCEPT !.connected = FALSE] ELSE row
    /\ UNCHANGED restarted

\* EOF after everything that was buffered, or an error that was reported: the finally block.
Leave(c) ==
    /\ \/ handler[c] = "rejecting"
       \/ handler[c] = "reading" /\ wire[c] = << >> /\ (ended[c] \/ closing[c])
    /\ handler' = [handler EXCEPT ![c] = "leaving"]
    /\ wire' = [wire EXCEPT ![c] = << >>]
    /\ IF hello[c] # 0 THEN Unregister(c) ELSE UNCHANGED deviceVars
    /\ UNCHANGED <<edgeVars, clock, ended, acked, hello, closing, storeVars, raised, faults>>

\* The disconnection is announced; the writer is closed.
Close(c) ==
    /\ handler[c] = "leaving"
    /\ handler' = [handler EXCEPT ![c] = "done"]
    /\ closing' = [closing EXCEPT ![c] = TRUE]
    /\ UNCHANGED <<edgeVars, clock, wire, ended, acked, hello, deviceVars, storeVars, raised, faults>>

\* The backend process starts anew; the database is all it keeps.
Restart ==
    /\ Fault
    /\ handler' = [c \in Connections |-> IF handler[c] = "none" THEN "none" ELSE "done"]
    /\ closing' = [c \in Connections |-> handler[c] # "none"]
    /\ wire' = [c \in Connections |-> << >>]
    /\ registry' = 0
    /\ restarted' = TRUE
    /\ UNCHANGED <<edgeVars, clock, ended, acked, hello, row, storeVars, raised>>

Handler(c) ==
    Hello(c) \/ Greeted(c) \/ IncidentUpdate(c) \/ TimelineEvent(c) \/ Leave(c) \/ Close(c)

Next ==
    \/ Connect \/ Open \/ Notice \/ Lose \/ Crash
    \/ Send("INCIDENT_UPDATE") \/ Send("INCIDENT_TIMELINE_EVENT")
    \/ \E c \in Connections : Handler(c)
    \/ Restart

Spec == Init /\ [][Next]_vars

\* Every handler is a task of the event loop and runs again; the edge's loop sends a frame
\* every period, so it tries to connect, sees the ACK and notices a closed connection.
FairSpec ==
    /\ Spec
    /\ \A c \in Connections : WF_vars(Handler(c))
    /\ WF_vars(Connect) /\ WF_vars(Open) /\ WF_vars(Notice)

-----------------------------------------------------------------------------
(* Properties *)

\* Every variable has its type, and the edge has a connection exactly when it is not idle.
TypeOK ==
    /\ boot \in Boots /\ clock \in 0..MaxClock /\ opened \in 0..MaxConnection
    /\ conn \in 0..opened
    /\ edge \in {"idle", "greeting", "open"}
    /\ edge = "idle" <=> conn = 0
    /\ wire \in [Connections -> Seq(Packet)]
    /\ ended \in [Connections -> BOOLEAN]
    /\ acked \in [Connections -> BOOLEAN]
    /\ handler \in [Connections -> {"none", "reading", "greeting", "rejecting", "leaving", "done"}]
    /\ hello \in [Connections -> 0..MaxBoot]
    /\ closing \in [Connections -> BOOLEAN]
    /\ registry \in 0..MaxConnection
    /\ row \in [connected : BOOLEAN, boot : 0..MaxBoot]
    /\ hazard \in [Boots -> 0..MaxClock]
    /\ events \subseteq 0..MaxClock /\ raised \subseteq 1..MaxClock
    /\ restarted \in BOOLEAN
    /\ faults \in 0..MaxFaults

\* The registry holds the one connection that is greeted, served and not closing: a newer
\* connection closes the older one, and no handler that ends leaves itself, or takes a newer
\* one, out of the registry (DeviceRegistry.register and unregister, run by handlers whose
\* ends and beginnings interleave).
RegistryIsLive ==
    \A c \in Connections :
        registry = c <=> /\ hello[c] # 0
                         /\ handler[c] \in {"reading", "greeting", "rejecting"}
                         /\ ~closing[c]

\* The dashboard's connection state is the registry's: the row says connected, with the boot
\* the registered connection greeted with, exactly when there is one.  Only a restart of the
\* backend leaves a row connected without a connection, until the next HELLO
\* (mark_device_disconnected is called by the current connection's handler only).
RowFollowsRegistry ==
    /\ registry # 0 => row = [connected |-> TRUE, boot |-> hello[registry]]
    /\ registry = 0 /\ row.connected => restarted

\* A stored incident only goes back to an older update through packets that were buffered
\* for a superseded connection: what the registered connection delivers is in order, also
\* when its HELLO was late (the edge sends nothing before the ACK).
RegressOnlyBuffered ==
    [][\A b \in Boots : hazard'[b] < hazard[b] =>
         \E c \in Connections \ {registry} : wire[c]' # wire[c]]_vars

\* When the faults are over the link heals without a restart of the edge process: the edge
\* is connected for good, the backend knows it and serves that very connection
\* (docs/POC_HANDOFF.md:134, "the live stream reconnects without restarting the Pi process").
Reconnects ==
    <>[](edge = "open" /\ registry = conn /\ row = [connected |-> TRUE, boot |-> boot])
=============================================================================
