----------------------------- MODULE LiveDashboard -----------------------------
(***************************************************************************)
(* What the browsers show (frontend/src/state.ts, hooks/useIgnisSocket.ts) *)
(* of what the backend holds: one incident's row, the zone configuration   *)
(* and the arming switch, told through the WebSocketHub                    *)
(* (backend/app/websockets.py) by the receiver, the operator's endpoints   *)
(* and the response timer (tcp_server.py, main.py, escalation.py).         *)
(*                                                                         *)
(* Row and configuration are their versions, counted up with every change. *)
(* A broadcast is serialised, and its receivers chosen, when it is called, *)
(* and the sends begin in the order of the calls: a client's channel is in *)
(* that order.  What matters is what a task awaits between changing the    *)
(* store and calling broadcast: nothing (the receiver, the arming switch)  *)
(* or the device and the broadcast of an event (the other endpoints and    *)
(* the timer), whose announcements wait here.                              *)
(***************************************************************************)
EXTENDS Naturals, Sequences

CONSTANTS
    Clients,       \* browsers
    MaxVersion,    \* bound: changes of the row, and of the configuration
    MaxSwitches,   \* bound: uses of the arming switch, and restarts of the backend
    Room           \* bound: messages a client is behind by

ASSUME DashboardAssumption ==
    /\ MaxVersion \in Nat /\ MaxSwitches \in Nat
    /\ Room \in Nat \ {0}

Items    == {"incident", "zones"}
Versions == 0..MaxVersion

VARIABLES
    \* the backend
    store,      \* the version of each item in the database
    armed,
    waiting,    \* announcements of tasks that still await something
    said,       \* history: the version of each item broadcast last
    switches,
    edge,       \* it is "reporting" the incident, "away" from the backend, or the incident is "over"
    \* the hub and the browsers
    socket,     \* the browser's socket is open: it believes itself LIVE
    member,     \* the client is in the hub
    channel,    \* messages on their way to it
    view        \* what it shows

backendVars == <<store, armed, waiting, said, switches, edge>>
clientVars  == <<socket, member, channel, view>>
vars == <<backendVars, clientVars>>

View == [incident : Versions, zones : Versions, armed : BOOLEAN]

\* A message has the parts of the view it replaces; what it was sent for is a history.
Message ==
    [via : {"snapshot"}, data : View]
      \cup [via : {"device", "announcement"}, data : [Items -> Versions] \cup UNION {[{i} -> Versions] : i \in Items}]
      \cup [via : {"arming"}, data : [{"armed"} -> BOOLEAN]]

Announcement == [item : Items, version : Versions]

Init ==
    /\ store = [i \in Items |-> 0]
    /\ armed = FALSE
    /\ waiting = {}
    /\ said = [i \in Items |-> 0]
    /\ switches = 0 /\ edge = "away"
    /\ socket  = [c \in Clients |-> FALSE]
    /\ member  = [c \in Clients |-> FALSE]
    /\ channel = [c \in Clients |-> << >>]
    /\ view    = [c \in Clients |-> [incident |-> 0, zones |-> 0, armed |-> FALSE]]

-----------------------------------------------------------------------------
(* The hub *)

\* broadcast(): every client of the hub is sent the message.
Broadcast(message) ==
    /\ \A c \in Clients : member[c] => Len(channel[c]) < Room
    /\ channel' = [c \in Clients |-> IF member[c] THEN Append(channel[c], message) ELSE channel[c]]
    /\ UNCHANGED <<socket, member, view>>

\* Variant: the snapshot leaves the arming switch out.
SnapshotUnarmed == [incident |-> store["incident"], zones |-> store["zones"]]

\* Variant: the snapshot is the last broadcast of everything.
SnapshotOfBroadcasts == [incident |-> said["incident"], zones |-> said["zones"], armed |-> armed]

\* snapshot(): the database and the switch as they are.
Snapshot == [incident |-> store["incident"], zones |-> store["zones"], armed |-> armed]

\* connect(): once the socket is accepted, the client is added, the snapshot taken and its
\* sending begun without a suspension in between.
Join(c) ==
    /\ ~socket[c]
    /\ socket' = [socket EXCEPT ![c] = TRUE]
    /\ member' = [member EXCEPT ![c] = TRUE]
    /\ channel' = [channel EXCEPT ![c] = <<[via |-> "snapshot", data |-> Snapshot]>>]
    /\ UNCHANGED <<backendVars, view>>

\* Variant: a slow client misses the message and stays.
SlowMisses(c) ==
    /\ member[c] /\ channel[c] # << >>
    /\ channel' = [channel EXCEPT ![c] = SubSeq(@, 1, Len(@) - 1)]
    /\ UNCHANGED <<backendVars, socket, member, view>>

\* A send takes longer than 0.35 s: the client leaves the hub.  What was written arrives,
\* the socket stays open.
Slow(c) ==
    /\ member[c] /\ channel[c] # << >>
    /\ member' = [member EXCEPT ![c] = FALSE]
    /\ UNCHANGED <<backendVars, socket, channel, view>>

\* The connection breaks or the browser is closed: onclose there, disconnect() here.
Close(c) ==
    /\ socket[c]
    /\ socket' = [socket EXCEPT ![c] = FALSE]
    /\ member' = [member EXCEPT ![c] = FALSE]
    /\ channel' = [channel EXCEPT ![c] = << >>]
    /\ UNCHANGED <<backendVars, view>>

\* The reducer: a message replaces the parts it has, whatever the view held.
Reduced(shown, message) ==
    [part \in DOMAIN shown |-> IF part \in DOMAIN message.data THEN message.data[part] ELSE shown[part]]

Read(c) ==
    /\ channel[c] # << >>
    /\ view' = [view EXCEPT ![c] = Reduced(@, Head(channel[c]))]
    /\ channel' = [channel EXCEPT ![c] = Tail(@)]
    /\ UNCHANGED <<backendVars, socket, member>>

-----------------------------------------------------------------------------
(* The backend *)

Tell(via, item, version) ==
    /\ said' = [said EXCEPT ![item] = version]
    /\ Broadcast([via |-> via, data |-> [i \in {item} |-> version]])

\* The edge sends an update with every frame while its incident is open and it is connected.
\* The connection comes and goes; an incident that is over is not reported again.
EdgeTurns(to) ==
    /\ edge # "over" /\ to \in {"reporting", "away", "over"} \ {edge}
    /\ edge' = to
    /\ UNCHANGED <<store, armed, waiting, said, switches, clientVars>>

\* Variant: only a changed row is broadcast.
DeviceUpdateChanged(version) ==
    /\ armed /\ edge = "reporting"
    /\ version = store["incident"] + 1
    /\ store' = [store EXCEPT !["incident"] = version]
    /\ Tell("device", "incident", version)
    /\ UNCHANGED <<armed, waiting, switches, edge>>

\* An armed receiver stores the update, which changes the row or repeats it, and broadcasts
\* the row.  While disarmed it returns before either.
DeviceUpdate(version) ==
    /\ armed /\ edge = "reporting"
    /\ version \in {store["incident"], store["incident"] + 1}
    /\ store' = [store EXCEPT !["incident"] = version]
    /\ Tell("device", "incident", version)
    /\ UNCHANGED <<armed, waiting, switches, edge>>

\* A task stores a new version of an item, and broadcasts it after what it awaits first.
StoreFirst(item, version) ==
    /\ version \in (store[item] + 1)..MaxVersion
    /\ store' = [store EXCEPT ![item] = version]
    /\ waiting' = waiting \cup {[item |-> item, version |-> version]}
    /\ UNCHANGED <<armed, said, switches, edge, clientVars>>

\* confirm, cancel, reset and the timer change the row and read it, and await the device or
\* the broadcast of an event.
Decide == StoreFirst("incident", store["incident"] + 1)

\* put_zones() stores any newer configuration and awaits the device.
PutZones == \E version \in Versions : StoreFirst("zones", version)

\* The task goes on and broadcasts what it read.
Announce(a) ==
    /\ a \in waiting
    /\ waiting' = waiting \ {a}
    /\ Tell("announcement", a.item, a.version)
    /\ UNCHANGED <<store, armed, switches, edge>>

\* The provider's report changes the row; only a call_update is broadcast.
ProviderReport ==
    /\ store["incident"] < MaxVersion
    /\ store' = [store EXCEPT !["incident"] = @ + 1]
    /\ UNCHANGED <<armed, waiting, said, switches, edge, clientVars>>

\* put_arming().
Switch(value) ==
    /\ switches < MaxSwitches /\ switches' = switches + 1
    /\ armed' = value
    /\ Broadcast([via |-> "arming", data |-> [part \in {"armed"} |-> value]])
    /\ UNCHANGED <<store, waiting, said, edge>>

\* The process starts anew: the database is all it keeps.  The edge has to connect again.
Restart ==
    /\ switches < MaxSwitches /\ switches' = switches + 1
    /\ armed' = FALSE
    /\ waiting' = {}
    /\ edge' = IF edge = "reporting" THEN "away" ELSE edge
    /\ socket'  = [c \in Clients |-> FALSE]
    /\ member'  = [c \in Clients |-> FALSE]
    /\ channel' = [c \in Clients |-> << >>]
    /\ UNCHANGED <<store, said, view>>

Next ==
    \/ \E c \in Clients : Join(c) \/ Slow(c) \/ Close(c) \/ Read(c)
    \/ \E to \in {"reporting", "away", "over"} : EdgeTurns(to)
    \/ \E version \in Versions : DeviceUpdate(version)
    \/ Decide \/ PutZones
    \/ \E a \in waiting : Announce(a)
    \/ ProviderReport
    \/ \E value \in BOOLEAN : Switch(value)
    \/ Restart

Spec == Init /\ [][Next]_vars

\* A browser reads what arrives and reconnects after a while (at most 10 s), a task is
\* resumed, and an edge that reports sends an update with every frame.  Nobody need arm, and
\* the edge may stay away or its incident end.
FairSpec ==
    /\ Spec
    /\ \A c \in Clients : WF_vars(Read(c)) /\ WF_vars(Join(c))
    /\ WF_vars(\E a \in waiting : Announce(a))
    /\ WF_vars(\E version \in Versions : DeviceUpdate(version))

-----------------------------------------------------------------------------
(* Properties *)

\* Every variable has its type; a client of the hub has its socket open, and no announcement
\* is newer than the store.
TypeOK ==
    /\ store \in [Items -> Versions] /\ said \in [Items -> Versions]
    /\ armed \in BOOLEAN
    /\ waiting \subseteq Announcement
    /\ \A a \in waiting : a.version <= store[a.item]
    /\ switches \in 0..MaxSwitches
    /\ edge \in {"reporting", "away", "over"}
    /\ socket \in [Clients -> BOOLEAN] /\ member \in [Clients -> BOOLEAN]
    /\ \A c \in Clients : member[c] => socket[c]
    /\ channel \in [Clients -> Seq(Message)] /\ \A c \in Clients : Len(channel[c]) <= Room
    /\ view \in [Clients -> View]

Tells(c, field) == \E n \in DOMAIN channel[c] : field \in DOMAIN channel[c][n].data

\* Nobody in the hub is left with a wrong arming switch: whoever has read what was sent
\* shows it as it is, also who joined as it was being switched, and after a restart, which
\* disarms (put_arming, snapshot and connect, in any order).
ArmedAsShown ==
    \A c \in Clients : member[c] /\ ~Tells(c, "armed") => view[c].armed = armed

\* Once the current version of an item is the last that was broadcast, whoever is in the hub
\* and has read what was sent shows it, whether it joined before the broadcast or after.
ShownAsStored ==
    \A c \in Clients, i \in Items :
        member[c] /\ said[i] = store[i] /\ ~Tells(c, i) => view[c][i] = store[i]

\* A browser only goes back to an older row or configuration by an announcement that waited
\* while a newer one was told: never by the snapshot of a reconnection, nor by what the
\* device reports.
BackOnlyByAnnouncement ==
    [][\A c \in Clients, i \in Items :
         view'[c][i] < view[c][i] => Head(channel[c]).via = "announcement"]_vars

\* A browser that stays in the hub shows the current row in the end, whatever overtook
\* what, and though the provider's reports are not broadcast: the edge's next update heals
\* it, as long as the edge reports to an armed backend.  (Otherwise nothing does but the next
\* snapshot: a row that the provider's report changes while the backend is disarmed or after the
\* incident's end is shown as it was.  Nor does anything heal the configuration.)
CatchesUp ==
    \A c \in Clients :
        <>[](member[c] /\ armed /\ edge = "reporting")
            => <>[](view[c].incident = store["incident"])
=============================================================================
