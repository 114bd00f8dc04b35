-------------------------- MODULE LiveDashboard_proofs --------------------------
(***************************************************************************)
(* Proofs about LiveDashboard, for any number of browsers, versions and    *)
(* messages in flight: what a browser shows once it has read what it was   *)
(* sent, and what takes it back.                                           *)
(***************************************************************************)
EXTENDS LiveDashboard, TLAPS

Parts == Items \cup {"armed"}

-----------------------------------------------------------------------------
(* What a channel comes to *)

\* The last message of the channel that has the part.
LastTelling(messages, part, n) ==
    /\ part \in DOMAIN messages[n].data
    /\ \A k \in DOMAIN messages : part \in DOMAIN messages[k].data => k <= n

\* Who shows this and reads these messages ends with one of the values.
EndsIn(messages, shown, part, values) ==
    /\ \A n \in DOMAIN messages : LastTelling(messages, part, n) => messages[n].data[part] \in values
    /\ (\A n \in DOMAIN messages : part \notin DOMAIN messages[n].data) => shown[part] \in values

\* A message that has the part decides.
LEMMA AppendTelling ==
  ASSUME NEW S, NEW messages \in Seq(S), NEW m \in S, NEW shown, NEW part \in DOMAIN m.data,
         NEW values, m.data[part] \in values
  PROVE  EndsIn(Append(messages, m), shown, part, values)
<1> DEFINE longer == Append(messages, m)
<1>1. /\ DOMAIN messages = 1..Len(messages) /\ DOMAIN longer = 1..(Len(messages) + 1)
      /\ longer[Len(messages) + 1] = m
  OBVIOUS
<1>2. ASSUME NEW n \in DOMAIN longer, LastTelling(longer, part, n) PROVE longer[n].data[part] \in values
  <2>1. Len(messages) + 1 <= n
    BY <1>1, <1>2 DEF LastTelling
  <2>2. n = Len(messages) + 1
    BY <1>1, <2>1
  <2>3. QED
    BY <1>1, <2>2
<1>3. QED
  BY <1>1, <1>2 DEF EndsIn

\* Any other changes nothing.
LEMMA AppendSilent ==
  ASSUME NEW S, NEW messages \in Seq(S), NEW m \in S, NEW shown, NEW part, part \notin DOMAIN m.data,
         NEW values, EndsIn(messages, shown, part, values)
  PROVE  EndsIn(Append(messages, m), shown, part, values)
<1> DEFINE longer == Append(messages, m)
<1>1. /\ DOMAIN messages = 1..Len(messages) /\ DOMAIN longer = 1..(Len(messages) + 1)
      /\ longer[Len(messages) + 1] = m
      /\ \A n \in DOMAIN messages : n \in DOMAIN longer /\ longer[n] = messages[n]
  OBVIOUS
<1>2. ASSUME NEW n \in DOMAIN longer, LastTelling(longer, part, n) PROVE longer[n].data[part] \in values
  <2>1. n \in DOMAIN messages
    BY <1>1, <1>2 DEF LastTelling
  <2>2. LastTelling(messages, part, n)
    BY <1>1, <1>2, <2>1 DEF LastTelling
  <2>3. QED
    BY <1>1, <2>1, <2>2 DEF EndsIn
<1>3. QED
  BY <1>1, <1>2 DEF EndsIn

\* Reading the first message changes nothing either.
LEMMA TailEnds ==
  ASSUME NEW S, NEW messages \in Seq(S), messages # << >>, NEW shown, NEW part \in DOMAIN shown,
         NEW values, EndsIn(messages, shown, part, values)
  PROVE  EndsIn(Tail(messages), Reduced(shown, Head(messages)), part, values)
<1> DEFINE rest == Tail(messages)
<1>1. /\ DOMAIN messages = 1..Len(messages) /\ Len(messages) \in Nat \ {0} /\ Head(messages) = messages[1]
      /\ DOMAIN rest = 1..(Len(messages) - 1)
      /\ \A n \in DOMAIN rest : n \in Nat /\ n + 1 \in DOMAIN messages /\ rest[n] = messages[n + 1]
      /\ \A n \in DOMAIN messages : n > 1 => n - 1 \in DOMAIN rest /\ messages[n] = rest[n - 1]
  OBVIOUS
<1>2. ASSUME NEW n \in DOMAIN rest, LastTelling(rest, part, n) PROVE rest[n].data[part] \in values
  <2>1. LastTelling(messages, part, n + 1)
    <3>1. part \in DOMAIN messages[n + 1].data
      BY <1>1, <1>2 DEF LastTelling
    <3>2. ASSUME NEW k \in DOMAIN messages, part \in DOMAIN messages[k].data PROVE k <= n + 1
      <4>1. CASE k = 1
        BY <1>1, <4>1
      <4>2. CASE k > 1
        BY <1>1, <1>2, <3>2, <4>2 DEF LastTelling
      <4>3. QED
        BY <1>1, <4>1, <4>2
    <3>3. QED
      BY <3>1, <3>2 DEF LastTelling
  <2>2. QED
    BY <1>1, <2>1 DEF EndsIn
<1>3. ASSUME \A n \in DOMAIN rest : part \notin DOMAIN rest[n].data
      PROVE  Reduced(shown, Head(messages))[part] \in values
  <2>1. ASSUME NEW n \in DOMAIN messages, part \in DOMAIN messages[n].data PROVE n <= 1
    <3>1. n > 1 => n - 1 \in DOMAIN rest /\ messages[n] = rest[n - 1]
      BY <1>1
    <3>2. n \in Nat
      BY <1>1
    <3>3. QED
      BY <1>3, <2>1, <3>1, <3>2
  <2>2. CASE part \in DOMAIN messages[1].data
    BY <1>1, <2>1, <2>2 DEF EndsIn, LastTelling, Reduced
  <2>3. CASE part \notin DOMAIN messages[1].data
    <3>1. \A n \in DOMAIN messages : part \notin DOMAIN messages[n].data
      BY <1>1, <2>1, <2>3
    <3>2. QED
      BY <1>1, <2>3, <3>1 DEF EndsIn, Reduced
  <2>4. QED
    BY <2>2, <2>3
<1>4. QED
  BY <1>2, <1>3 DEF EndsIn

-----------------------------------------------------------------------------
(* Types *)

\* What a message tells of an item is a version, and of the switch whether it is armed.
LEMMA MessageTells ==
  ASSUME NEW m \in Message
  PROVE  /\ DOMAIN m.data \subseteq Parts
         /\ \A i \in Items : i \in DOMAIN m.data => m.data[i] \in Versions
         /\ "armed" \in DOMAIN m.data => m.data["armed"] \in BOOLEAN
<1>1. CASE m \in [via : {"snapshot"}, data : View]
  BY <1>1 DEF View, Items, Parts
<1>2. CASE m \in [via : {"device", "announcement"}, data : [Items -> Versions] \cup UNION {[{i} -> Versions] : i \in Items}]
  BY <1>2 DEF Items, Parts
<1>3. CASE m \in [via : {"arming"}, data : [{"armed"} -> BOOLEAN]]
  BY <1>3 DEF Items, Parts
<1>4. QED
  BY <1>1, <1>2, <1>3 DEF Message

\* What the reducer makes of a view is a view.
LEMMA ReducedView ==
  ASSUME NEW m \in Message, NEW shown \in View
  PROVE  /\ Reduced(shown, m) \in View
         /\ DOMAIN shown = Parts
         /\ \A part \in Parts :
              Reduced(shown, m)[part] = IF part \in DOMAIN m.data THEN m.data[part] ELSE shown[part]
<1>1. DOMAIN shown = Parts /\ \A i \in Items : shown[i] \in Versions
  BY DEF View, Parts, Items
<1>2. shown["armed"] \in BOOLEAN
  BY DEF View
<1>3. \A part \in Parts :
         Reduced(shown, m)[part] = IF part \in DOMAIN m.data THEN m.data[part] ELSE shown[part]
  BY <1>1 DEF Reduced
<1>4. \A i \in Items : Reduced(shown, m)[i] \in Versions
  BY <1>1, <1>3, MessageTells DEF Parts
<1>5. Reduced(shown, m)["armed"] \in BOOLEAN
  BY <1>2, <1>3, MessageTells DEF Parts
<1>6. Reduced(shown, m) = [incident |-> Reduced(shown, m)["incident"], zones |-> Reduced(shown, m)["zones"],
                            armed |-> Reduced(shown, m)["armed"]]
  BY <1>1 DEF Reduced, Parts, Items
<1>7. QED
  BY <1>1, <1>3, <1>4, <1>5, <1>6 DEF View, Items

-----------------------------------------------------------------------------
(* The invariant *)

\* Every client of the hub ends with the switch as it is, and with a version of each item that
\* is at least the one broadcast last.
EndsInv ==
    \A c \in Clients : member[c] =>
        /\ EndsIn(channel[c], view[c], "armed", {armed})
        /\ \A i \in Items : EndsIn(channel[c], view[c], i, said[i]..store[i])

\* No older version of the item is on its way after a newer one, but in an announcement, and
\* none is newer than the store's.
Ordered(messages, shown, item, newest) ==
    /\ shown[item] <= newest
    /\ \A n \in DOMAIN messages : item \in DOMAIN messages[n].data =>
         /\ messages[n].data[item] <= newest
         /\ messages[n].via # "announcement" =>
              /\ shown[item] <= messages[n].data[item]
              /\ \A k \in 1..n : item \in DOMAIN messages[k].data =>
                   messages[k].data[item] <= messages[n].data[item]

\* So it is with every client, and nothing broadcast is newer than the store.
OrderInv ==
    \A i \in Items : said[i] <= store[i] /\ \A c \in Clients : Ordered(channel[c], view[c], i, store[i])

-----------------------------------------------------------------------------
(* Steps *)

\* A broadcast reaches the clients of the hub, and only them.
LEMMA BroadcastTypes ==
  ASSUME TypeOK, NEW m \in Message, Broadcast(m)
  PROVE  /\ channel' \in [Clients -> Seq(Message)]
         /\ \A c \in Clients : Len(channel'[c]) <= Room
         /\ \A c \in Clients : channel'[c] = IF member[c] THEN Append(channel[c], m) ELSE channel[c]
  BY DashboardAssumption DEF TypeOK, Broadcast

\* Tasks announce versions; the switch is told as a Boolean.
LEMMA Announced ==
  ASSUME NEW item \in Items, NEW version \in Versions, NEW via \in {"device", "announcement"},
         NEW m, m = [via |-> via, data |-> [i \in {item} |-> version]]
  PROVE  m \in Message /\ DOMAIN m.data = {item} /\ m.data[item] = version /\ m.via = via
  BY DEF Message

LEMMA Switched ==
  ASSUME NEW value \in BOOLEAN, NEW m, m = [via |-> "arming", data |-> [part \in {"armed"} |-> value]]
  PROVE  m \in Message /\ DOMAIN m.data = {"armed"} /\ m.data["armed"] = value /\ m.via = "arming"
  BY DEF Message

\* The snapshot is a view of the store.
LEMMA SnapshotView ==
  ASSUME TypeOK
  PROVE  /\ Snapshot \in View /\ DOMAIN Snapshot = Parts
         /\ \A i \in Items : Snapshot[i] = store[i]
         /\ Snapshot["armed"] = armed
         /\ [via |-> "snapshot", data |-> Snapshot] \in Message
<1>1. store["incident"] \in Versions /\ store["zones"] \in Versions /\ armed \in BOOLEAN
  BY DEF TypeOK, Items
<1>2. Snapshot \in View
  BY <1>1 DEF Snapshot, View
<1>3. QED
  BY <1>2 DEF Snapshot, Parts, Items, Message

\* An update of the device leaves the row its version or gives it the next.
LEMMA UpdateStores ==
  ASSUME TypeOK, NEW version \in Versions, DeviceUpdate(version)
  PROVE  /\ store' \in [Items -> Versions] /\ store'["incident"] = version
         /\ \A i \in Items \ {"incident"} : store'[i] = store[i]
         /\ \A i \in Items : store[i] <= store'[i]
<1>1. store \in [Items -> Versions] /\ "incident" \in Items /\ \A i \in Items : store[i] \in Nat
  BY DEF TypeOK, Items, Versions
<1>2. store' = [store EXCEPT !["incident"] = version] /\ store["incident"] <= version
  BY <1>1 DEF DeviceUpdate
<1>3. store' \in [Items -> Versions] /\ store'["incident"] = version
      /\ \A i \in Items \ {"incident"} : store'[i] = store[i]
  BY <1>1, <1>2
<1>4. \A i \in Items : store[i] <= store'[i]
  BY <1>1, <1>2, <1>3
<1>5. QED
  BY <1>3, <1>4

\* Every variable keeps its type, a client of the hub has its socket open, and no announcement
\* is newer than the store.
THEOREM DashboardType == Spec => []TypeOK
<1>1. Init => TypeOK
  <2> SUFFICES ASSUME Init PROVE TypeOK
    OBVIOUS
  <2>1. 0 \in Versions /\ 0 \in 0..MaxSwitches /\ 0 <= Room
    BY DashboardAssumption DEF Versions
  <2>2. channel \in [Clients -> Seq(Message)] /\ \A c \in Clients : Len(channel[c]) = 0
    BY DEF Init
  <2>3. view \in [Clients -> View]
    BY <2>1 DEF Init, View
  <2>4. QED
    BY <2>1, <2>2, <2>3 DEF Init, TypeOK
<1>2. TypeOK /\ [Next]_vars => TypeOK'
  <2> SUFFICES ASSUME TypeOK, [Next]_vars PROVE TypeOK'
    OBVIOUS
  <2> USE DashboardAssumption
  <2>1. ASSUME NEW c \in Clients, Join(c) PROVE TypeOK'
    <3>1. <<[via |-> "snapshot", data |-> Snapshot]>> \in Seq(Message)
      BY SnapshotView
    <3>2. QED
      BY <2>1, <3>1 DEF TypeOK, Join, backendVars
  <2>2. ASSUME NEW c \in Clients, Slow(c) PROVE TypeOK'
    BY <2>2 DEF TypeOK, Slow, backendVars
  <2>3. ASSUME NEW c \in Clients, Close(c) PROVE TypeOK'
    BY <2>3 DEF TypeOK, Close, backendVars
  <2>4. ASSUME NEW c \in Clients, Read(c) PROVE TypeOK'
    <3>1. Head(channel[c]) \in Message /\ Tail(channel[c]) \in Seq(Message)
          /\ Len(Tail(channel[c])) <= Room
      BY <2>4 DEF TypeOK, Read
    <3>2. Reduced(view[c], Head(channel[c])) \in View
      BY <3>1, ReducedView DEF TypeOK
    <3>3. QED
      BY <2>4, <3>1, <3>2 DEF TypeOK, Read, backendVars
  <2>5. ASSUME NEW version \in Versions, DeviceUpdate(version) PROVE TypeOK'
    <3> DEFINE m == [via |-> "device", data |-> [i \in {"incident"} |-> version]]
    <3>1. m \in Message
      BY Announced DEF Items
    <3>2. Broadcast(m)
      BY <2>5 DEF DeviceUpdate, Tell
    <3> HIDE DEF m
    <3>3. channel' \in [Clients -> Seq(Message)] /\ \A c \in Clients : Len(channel'[c]) <= Room
      BY <3>1, <3>2, BroadcastTypes
    <3>4. store' \in [Items -> Versions] /\ \A i \in Items : store[i] <= store'[i]
      BY <2>5, UpdateStores
    <3>5. \A a \in waiting : a.version <= store'[a.item]
      BY <3>4 DEF TypeOK, Announcement, Versions
    <3>6. UNCHANGED <<armed, waiting, switches, edge, socket, member, view>> /\ said' \in [Items -> Versions]
      BY <2>5, <3>2 DEF TypeOK, DeviceUpdate, Tell, Broadcast
    <3>7. QED
      BY <3>3, <3>4, <3>5, <3>6 DEF TypeOK
  <2>6. ASSUME NEW to \in {"reporting", "away", "over"}, EdgeTurns(to) PROVE TypeOK'
    BY <2>6 DEF TypeOK, EdgeTurns, clientVars
  <2>7. ASSUME NEW item \in Items, NEW version \in Versions, StoreFirst(item, version) PROVE TypeOK'
    <3>1. store' \in [Items -> Versions] /\ \A i \in Items : store[i] <= store'[i]
      BY <2>7 DEF TypeOK, StoreFirst, Versions
    <3>2. waiting' \subseteq Announcement
      BY <2>7 DEF TypeOK, StoreFirst, Announcement
    <3>3. \A a \in waiting' : a.version <= store'[a.item]
      BY <2>7, <3>1 DEF TypeOK, StoreFirst, Announcement, Versions
    <3>4. UNCHANGED <<armed, said, switches, edge, clientVars>>
      BY <2>7 DEF StoreFirst
    <3>5. QED
      BY <3>1, <3>2, <3>3, <3>4 DEF TypeOK, clientVars
  <2>8. ASSUME NEW a \in waiting, Announce(a) PROVE TypeOK'
    <3> DEFINE m == [via |-> "announcement", data |-> [i \in {a.item} |-> a.version]]
    <3>1. a.item \in Items /\ a.version \in Versions
      BY DEF TypeOK, Announcement
    <3>2. m \in Message
      BY <3>1, Announced
    <3>3. Broadcast(m)
      BY <2>8 DEF Announce, Tell
    <3> HIDE DEF m
    <3>4. channel' \in [Clients -> Seq(Message)] /\ \A c \in Clients : Len(channel'[c]) <= Room
      BY <3>2, <3>3, BroadcastTypes
    <3>5. UNCHANGED <<store, armed, switches, edge, socket, member, view>> /\ said' \in [Items -> Versions]
          /\ waiting' \subseteq waiting
      BY <2>8, <3>1, <3>3 DEF TypeOK, Announce, Tell, Broadcast
    <3>6. QED
      BY <3>4, <3>5 DEF TypeOK
  <2>9. CASE ProviderReport
    <3>1. store' \in [Items -> Versions] /\ \A i \in Items : store[i] <= store'[i]
      BY <2>9 DEF TypeOK, ProviderReport, Items, Versions
    <3>2. \A a \in waiting : a.version <= store'[a.item]
      BY <3>1 DEF TypeOK, Announcement, Versions
    <3>3. QED
      BY <2>9, <3>1, <3>2 DEF TypeOK, ProviderReport, clientVars
  <2>10. ASSUME NEW value \in BOOLEAN, Switch(value) PROVE TypeOK'
    <3> DEFINE m == [via |-> "arming", data |-> [part \in {"armed"} |-> value]]
    <3>1. m \in Message
      BY Switched
    <3>2. Broadcast(m)
      BY <2>10 DEF Switch
    <3> HIDE DEF m
    <3>3. channel' \in [Clients -> Seq(Message)] /\ \A c \in Clients : Len(channel'[c]) <= Room
      BY <3>1, <3>2, BroadcastTypes
    <3>4. UNCHANGED <<store, waiting, said, edge, socket, member, view>> /\ armed' \in BOOLEAN /\ switches' \in 0..MaxSwitches
      BY <2>10, <3>2 DEF TypeOK, Switch, Broadcast
    <3>5. QED
      BY <3>3, <3>4 DEF TypeOK
  <2>11. CASE Restart
    <3>1. channel' \in [Clients -> Seq(Message)] /\ \A c \in Clients : Len(channel'[c]) = 0
      BY <2>11 DEF Restart
    <3>2. switches' \in 0..MaxSwitches
      BY <2>11 DEF TypeOK, Restart
    <3>3. Room >= 0
      OBVIOUS
    <3>4. UNCHANGED <<store, said, view>> /\ waiting' = {} /\ armed' \in BOOLEAN
      BY <2>11 DEF Restart
    <3>5. socket' \in [Clients -> BOOLEAN] /\ member' \in [Clients -> BOOLEAN]
          /\ \A c \in Clients : ~member'[c]
      BY <2>11 DEF Restart
    <3>6. edge' \in {"reporting", "away", "over"}
      BY <2>11 DEF TypeOK, Restart
    <3>7. QED
      BY <3>1, <3>2, <3>3, <3>4, <3>5, <3>6 DEF TypeOK
  <2>12. CASE UNCHANGED vars
    BY <2>12 DEF TypeOK, vars, backendVars, clientVars
  <2>13. CASE Decide
    <3>1. "incident" \in Items /\ store["incident"] + 1 \in Versions
      BY <2>13 DEF Decide, StoreFirst, TypeOK, Items, Versions
    <3>2. QED
      BY <2>7, <2>13, <3>1 DEF Decide
  <2>14. CASE PutZones
    BY <2>7, <2>14 DEF PutZones, Items
  <2>15. QED
    BY <2>1, <2>2, <2>3, <2>4, <2>5, <2>6, <2>8, <2>9, <2>10, <2>11, <2>12, <2>13, <2>14 DEF Next
<1>3. QED
  BY <1>1, <1>2, PTL DEF Spec

-----------------------------------------------------------------------------
(* What is on its way is in order, but for announcements *)

\* A message may follow if it does not have the item, announces it, or tells the newest.
LEMMA AppendOrdered ==
  ASSUME NEW messages \in Seq(Message), NEW m \in Message, NEW shown \in View, NEW item \in Items,
         NEW newest \in Nat, Ordered(messages, shown, item, newest),
         item \in DOMAIN m.data =>
           m.data[item] <= newest /\ (m.via # "announcement" => m.data[item] = newest)
  PROVE  Ordered(Append(messages, m), shown, item, newest)
<1> DEFINE longer == Append(messages, m)
<1>1. /\ DOMAIN messages = 1..Len(messages) /\ DOMAIN longer = 1..(Len(messages) + 1)
      /\ Len(messages) \in Nat /\ longer[Len(messages) + 1] = m
      /\ \A n \in 1..Len(messages) : longer[n] = messages[n]
  OBVIOUS
<1> HIDE DEF longer
<1>2. ASSUME NEW n \in DOMAIN longer, item \in DOMAIN longer[n].data PROVE longer[n].data[item] <= newest
  BY <1>1, <1>2 DEF Ordered
<1>3. ASSUME NEW n \in DOMAIN longer, item \in DOMAIN longer[n].data, longer[n].via # "announcement"
      PROVE  /\ shown[item] <= longer[n].data[item]
             /\ \A k \in 1..n : item \in DOMAIN longer[k].data => longer[k].data[item] <= longer[n].data[item]
  <2>1. CASE n = Len(messages) + 1
    <3>1. longer[n].data[item] = newest
      BY <1>1, <1>3, <2>1
    <3>2. 1..n = DOMAIN longer
      BY <1>1, <2>1
    <3>3. QED
      BY <1>2, <3>1, <3>2 DEF Ordered
  <2>2. CASE n \in 1..Len(messages)
    <3>1. \A k \in 1..n : k \in 1..Len(messages)
      BY <1>1, <2>2
    <3>2. QED
      BY <1>1, <1>3, <2>2, <3>1 DEF Ordered
  <2>3. QED
    BY <1>1, <2>1, <2>2
<1>4. QED
  BY <1>2, <1>3 DEF Ordered, longer

\* Reading keeps the order, and only an announcement takes the view back.
LEMMA TailOrdered ==
  ASSUME NEW messages \in Seq(Message), messages # << >>, NEW shown \in View, NEW item \in Items,
         NEW newest \in Nat, Ordered(messages, shown, item, newest)
  PROVE  /\ Ordered(Tail(messages), Reduced(shown, Head(messages)), item, newest)
         /\ Reduced(shown, Head(messages))[item] < shown[item] => Head(messages).via = "announcement"
<1> DEFINE rest == Tail(messages)
           now == Reduced(shown, Head(messages))
<1>1. /\ DOMAIN messages = 1..Len(messages) /\ Len(messages) \in Nat /\ Len(messages) >= 1
      /\ Head(messages) = messages[1] /\ messages[1] \in Message
      /\ DOMAIN rest = 1..(Len(messages) - 1)
      /\ \A n \in 1..(Len(messages) - 1) : rest[n] = messages[n + 1]
  OBVIOUS
<1>2. /\ now[item] = IF item \in DOMAIN messages[1].data THEN messages[1].data[item] ELSE shown[item]
      /\ now[item] \in Nat /\ shown[item] \in Nat
  <2>1. item \in Parts
    BY DEF Parts
  <2>2. now[item] = IF item \in DOMAIN messages[1].data THEN messages[1].data[item] ELSE shown[item]
    BY <1>1, <2>1, ReducedView
  <2>3. now[item] \in Nat /\ shown[item] \in Nat
    BY <1>1, ReducedView DEF View, Items, Versions
  <2>4. QED
    BY <2>2, <2>3
<1> HIDE DEF rest, now
<1>3. 1 \in DOMAIN messages
  BY <1>1
<1>4. now[item] <= newest
  BY <1>2, <1>3 DEF Ordered
<1>5. now[item] < shown[item] => Head(messages).via = "announcement"
  BY <1>1, <1>2, <1>3 DEF Ordered
<1>6. ASSUME NEW n \in DOMAIN rest, item \in DOMAIN rest[n].data PROVE rest[n].data[item] <= newest
  BY <1>1, <1>6 DEF Ordered
<1>7. ASSUME NEW n \in DOMAIN rest, item \in DOMAIN rest[n].data, rest[n].via # "announcement"
      PROVE  /\ now[item] <= rest[n].data[item]
             /\ \A k \in 1..n : item \in DOMAIN rest[k].data => rest[k].data[item] <= rest[n].data[item]
  <2>1. /\ n + 1 \in DOMAIN messages /\ rest[n] = messages[n + 1] /\ 1 \in 1..(n + 1)
        /\ \A k \in 1..n : k + 1 \in 1..(n + 1) /\ rest[k] = messages[k + 1]
    BY <1>1
  <2>2. /\ shown[item] <= messages[n + 1].data[item]
        /\ \A k \in 1..(n + 1) : item \in DOMAIN messages[k].data =>
             messages[k].data[item] <= messages[n + 1].data[item]
    BY <1>7, <2>1 DEF Ordered
  <2>3. QED
    BY <1>2, <2>1, <2>2
<1>8. QED
  BY <1>4, <1>5, <1>6, <1>7 DEF Ordered, rest, now

\* A newer store excludes nothing.
LEMMA OrderedNewer ==
  ASSUME NEW messages \in Seq(Message), NEW shown \in View, NEW item \in Items, NEW old \in Nat,
         NEW newest \in Nat, old <= newest, Ordered(messages, shown, item, old)
  PROVE  Ordered(messages, shown, item, newest)
<1>1. shown[item] \in Nat
  BY DEF View, Items, Versions
<1>2. \A n \in DOMAIN messages : item \in DOMAIN messages[n].data => messages[n].data[item] \in Nat
  <2>1. ASSUME NEW n \in DOMAIN messages, item \in DOMAIN messages[n].data PROVE messages[n].data[item] \in Nat
    <3>1. messages[n] \in Message
      OBVIOUS
    <3>2. QED
      BY <2>1, <3>1, MessageTells DEF Versions
  <2>2. QED
    BY <2>1
<1>3. QED
  BY <1>1, <1>2 DEF Ordered

\* What is told, but by an announcement, is what the store has just become.
LEMMA OrderInductive == TypeOK /\ OrderInv /\ [Next]_vars => OrderInv'
<1> SUFFICES ASSUME TypeOK, OrderInv, [Next]_vars, NEW item \in Items
             PROVE  /\ said'[item] <= store'[item]
                    /\ \A c \in Clients : Ordered(channel'[c], view'[c], item, store'[item])
  BY DEF OrderInv
<1>t. /\ store[item] \in Nat /\ said[item] \in Nat /\ said[item] <= store[item]
      /\ \A c \in Clients : /\ channel[c] \in Seq(Message) /\ view[c] \in View
                              /\ Ordered(channel[c], view[c], item, store[item])
  BY DEF TypeOK, OrderInv, Versions
\* Messages that do not have the item, announce it or tell what the store has become.
<1>a. ASSUME NEW m \in Message, Broadcast(m), store'[item] \in Nat, store[item] <= store'[item],
             said'[item] <= store'[item],
             item \in DOMAIN m.data =>
               m.data[item] <= store'[item] /\ (m.via # "announcement" => m.data[item] = store'[item])
      PROVE  /\ said'[item] <= store'[item]
             /\ \A c \in Clients : Ordered(channel'[c], view'[c], item, store'[item])
  <2>1. ASSUME NEW c \in Clients PROVE Ordered(channel'[c], view'[c], item, store'[item])
    <3>1. Ordered(channel[c], view[c], item, store'[item])
      BY <1>a, <1>t, OrderedNewer
    <3>2. Ordered(Append(channel[c], m), view[c], item, store'[item])
      BY <1>a, <1>t, <3>1, AppendOrdered
    <3>3. view'[c] = view[c] /\ channel'[c] \in {channel[c], Append(channel[c], m)}
      BY <1>a DEF Broadcast
    <3>4. QED
      BY <3>1, <3>2, <3>3
  <2>2. QED
    BY <1>a, <2>1
\* What leaves the channels alone.
<1>b. ASSUME UNCHANGED <<said, channel, view>>, store'[item] \in Nat, store[item] <= store'[item]
      PROVE  /\ said'[item] <= store'[item]
             /\ \A c \in Clients : Ordered(channel'[c], view'[c], item, store'[item])
  BY <1>b, <1>t, OrderedNewer
\* A channel that is empty or holds the snapshot alone.
<1>c. ASSUME NEW c \in Clients, channel'[c] = << >>, UNCHANGED <<store, view>>
      PROVE  Ordered(channel'[c], view'[c], item, store'[item])
  BY <1>c, <1>t DEF Ordered
<1>1. ASSUME NEW d \in Clients, Join(d)
      PROVE  /\ said'[item] <= store'[item]
             /\ \A c \in Clients : Ordered(channel'[c], view'[c], item, store'[item])
  <2>1. UNCHANGED <<store, said, view>>
    BY <1>1 DEF Join, backendVars
  <2>2. ASSUME NEW c \in Clients, c = d PROVE Ordered(channel'[c], view'[c], item, store'[item])
    <3> DEFINE m == [via |-> "snapshot", data |-> Snapshot]
    <3>1. channel'[c] = <<m>>
      BY <1>1, <2>2 DEF Join, TypeOK
    <3>2. m.data[item] = store[item]
      BY SnapshotView
    <3> HIDE DEF m
    <3>3. DOMAIN <<m>> = {1} /\ <<m>>[1] = m /\ 1..1 = {1}
      OBVIOUS
    <3>4. view[c][item] <= store[item]
      BY <1>t DEF Ordered
    <3>5. Ordered(<<m>>, view[c], item, store[item])
      BY <1>t, <3>2, <3>3, <3>4 DEF Ordered
    <3>6. QED
      BY <2>1, <3>1, <3>5
  <2>3. ASSUME NEW c \in Clients, c # d PROVE Ordered(channel'[c], view'[c], item, store'[item])
    BY <1>1, <1>t, <2>1, <2>3 DEF Join, TypeOK
  <2>4. QED
    BY <1>t, <2>1, <2>2, <2>3
<1>2. ASSUME NEW d \in Clients, Slow(d)
      PROVE  /\ said'[item] <= store'[item]
             /\ \A c \in Clients : Ordered(channel'[c], view'[c], item, store'[item])
  BY <1>2, <1>t DEF Slow, backendVars
<1>3. ASSUME NEW d \in Clients, Close(d)
      PROVE  /\ said'[item] <= store'[item]
             /\ \A c \in Clients : Ordered(channel'[c], view'[c], item, store'[item])
  <2>1. UNCHANGED <<store, said, view>> /\ \A c \in Clients : channel'[c] \in {channel[c], << >>}
    BY <1>3 DEF Close, backendVars, TypeOK
  <2>2. QED
    BY <1>t, <1>c, <2>1
<1>4. ASSUME NEW d \in Clients, Read(d)
      PROVE  /\ said'[item] <= store'[item]
             /\ \A c \in Clients : Ordered(channel'[c], view'[c], item, store'[item])
  <2>1. UNCHANGED <<store, said>>
    BY <1>4 DEF Read, backendVars
  <2>2. ASSUME NEW c \in Clients, c = d PROVE Ordered(channel'[c], view'[c], item, store'[item])
    <3>1. /\ channel[c] # << >> /\ channel'[c] = Tail(channel[c])
          /\ view'[c] = Reduced(view[c], Head(channel[c]))
      BY <1>4, <2>2 DEF Read, TypeOK
    <3>2. QED
      BY <1>t, <2>1, <3>1, TailOrdered
  <2>3. ASSUME NEW c \in Clients, c # d PROVE Ordered(channel'[c], view'[c], item, store'[item])
    BY <1>4, <1>t, <2>1, <2>3 DEF Read, TypeOK
  <2>4. QED
    BY <1>t, <2>1, <2>2, <2>3
<1>5. ASSUME NEW version \in Versions, DeviceUpdate(version)
      PROVE  /\ said'[item] <= store'[item]
             /\ \A c \in Clients : Ordered(channel'[c], view'[c], item, store'[item])
  <2> DEFINE m == [via |-> "device", data |-> [i \in {"incident"} |-> version]]
  <2>1. "incident" \in Items /\ version \in Nat
    BY DEF Items, Versions
  <2>2. m \in Message /\ DOMAIN m.data = {"incident"} /\ m.data["incident"] = version
    BY <2>1, Announced
  <2>3. Broadcast(m) /\ said' = [said EXCEPT !["incident"] = version]
    BY <1>5 DEF DeviceUpdate, Tell
  <2> HIDE DEF m
  <2>4. CASE item = "incident"
    <3>1. store'[item] = version /\ said'[item] = version /\ store[item] <= version
      BY <1>5, <2>1, <2>3, <2>4, UpdateStores DEF TypeOK
    <3>2. QED
      BY <1>a, <2>1, <2>2, <2>3, <2>4, <3>1
  <2>5. CASE item # "incident"
    <3>1. store'[item] = store[item] /\ said'[item] = said[item]
      BY <1>5, <2>3, <2>5, UpdateStores DEF TypeOK
    <3>2. QED
      BY <1>a, <1>t, <2>2, <2>3, <2>5, <3>1
  <2>6. QED
    BY <2>4, <2>5
<1>6. ASSUME NEW to \in {"reporting", "away", "over"}, EdgeTurns(to)
      PROVE  /\ said'[item] <= store'[item]
             /\ \A c \in Clients : Ordered(channel'[c], view'[c], item, store'[item])
  BY <1>6, <1>t DEF EdgeTurns, clientVars
<1>7. ASSUME NEW a \in waiting, Announce(a)
      PROVE  /\ said'[item] <= store'[item]
             /\ \A c \in Clients : Ordered(channel'[c], view'[c], item, store'[item])
  <2> DEFINE m == [via |-> "announcement", data |-> [i \in {a.item} |-> a.version]]
  <2>1. a.item \in Items /\ a.version \in Versions /\ a.version <= store[a.item]
    BY DEF TypeOK, Announcement
  <2>2. m \in Message /\ DOMAIN m.data = {a.item} /\ m.data[a.item] = a.version /\ m.via = "announcement"
    BY <2>1, Announced
  <2>3. Broadcast(m) /\ said' = [said EXCEPT ![a.item] = a.version] /\ store' = store
    BY <1>7 DEF Announce, Tell
  <2> HIDE DEF m
  <2>4. said'[item] <= store'[item]
    BY <1>t, <2>1, <2>3 DEF TypeOK
  <2>5. QED
    BY <1>a, <1>t, <2>1, <2>2, <2>3, <2>4
<1>8. ASSUME NEW i \in Items, NEW version, StoreFirst(i, version)
      PROVE  /\ said'[item] <= store'[item]
             /\ \A c \in Clients : Ordered(channel'[c], view'[c], item, store'[item])
  <2>1. store'[item] \in Nat /\ store[item] <= store'[item]
    BY <1>8, <1>t DEF StoreFirst, TypeOK, Versions
  <2>2. QED
    BY <1>8, <1>b, <2>1 DEF StoreFirst, clientVars
<1>9. CASE ProviderReport
  <2>1. store'[item] \in Nat /\ store[item] <= store'[item]
    BY <1>9, <1>t DEF ProviderReport, TypeOK, Versions
  <2>2. QED
    BY <1>9, <1>b, <2>1 DEF ProviderReport, clientVars
<1>10. ASSUME NEW value \in BOOLEAN, Switch(value)
       PROVE  /\ said'[item] <= store'[item]
              /\ \A c \in Clients : Ordered(channel'[c], view'[c], item, store'[item])
  <2> DEFINE m == [via |-> "arming", data |-> [part \in {"armed"} |-> value]]
  <2>1. m \in Message /\ DOMAIN m.data = {"armed"}
    BY Switched
  <2>2. Broadcast(m) /\ UNCHANGED <<store, said>>
    BY <1>10 DEF Switch
  <2> HIDE DEF m
  <2>3. item # "armed"
    BY DEF Items
  <2>4. QED
    BY <1>a, <1>t, <2>1, <2>2, <2>3
<1>11. CASE Restart
  <2>1. UNCHANGED <<store, said, view>> /\ \A c \in Clients : channel'[c] = << >>
    BY <1>11 DEF Restart
  <2>2. QED
    BY <1>t, <1>c, <2>1
<1>12. CASE UNCHANGED vars
  BY <1>12, <1>t DEF vars, backendVars, clientVars
<1>13. QED
  BY <1>1, <1>2, <1>3, <1>4, <1>5, <1>6, <1>7, <1>8, <1>9, <1>10, <1>11, <1>12
     DEF Next, Decide, PutZones, Items

LEMMA OrderInvariant == Spec => []OrderInv
<1>1. Init => OrderInv
  BY DEF Init, OrderInv, Ordered, Items
<1>2. TypeOK /\ OrderInv /\ [Next]_vars => OrderInv'
  BY OrderInductive
<1>3. QED
  BY <1>1, <1>2, DashboardType, PTL DEF Spec

\* A browser only goes back to an older row or configuration by an announcement that waited
\* while a newer one was told: never by the snapshot of a reconnection, nor by what the
\* device reports (StoreFirst and Announce; BackOnlyByAnnouncement).
THEOREM BackByAnnouncementOnly == Spec => BackOnlyByAnnouncement
<1>1. ASSUME TypeOK, OrderInv, [Next]_vars, NEW c \in Clients, NEW i \in Items, view'[c][i] < view[c][i]
      PROVE  Head(channel[c]).via = "announcement"
  <2>1. view[c] \in View /\ channel[c] \in Seq(Message) /\ store[i] \in Nat
        /\ Ordered(channel[c], view[c], i, store[i])
    BY <1>1 DEF TypeOK, OrderInv, Versions
  <2>2. view'[c] # view[c]
    BY <1>1, <2>1 DEF View, Items, Versions
  <2>3. Read(c)
    BY <1>1, <2>2 DEF Next, vars, backendVars, clientVars, TypeOK, Join, Slow, Close, Read, EdgeTurns,
          DeviceUpdate, Decide, PutZones, StoreFirst, Announce, ProviderReport, Switch, Restart, Tell, Broadcast
  <2>4. channel[c] # << >> /\ view'[c] = Reduced(view[c], Head(channel[c]))
    BY <1>1, <2>3 DEF Read, TypeOK
  <2>5. QED
    BY <1>1, <2>1, <2>4, TailOrdered
<1>2. TypeOK /\ OrderInv /\ [Next]_vars =>
        [\A c \in Clients, i \in Items :
           view'[c][i] < view[c][i] => Head(channel[c]).via = "announcement"]_vars
  BY <1>1
<1>3. QED
  BY <1>2, DashboardType, OrderInvariant, PTL DEF Spec, BackOnlyByAnnouncement

-----------------------------------------------------------------------------
(* Whoever has read what was sent shows what is *)

\* A broadcast leaves a client of the hub that ends with one of the values with one of them, if
\* it tells one or does not have the part.
LEMMA BroadcastEnds ==
  ASSUME TypeOK, NEW m \in Message, Broadcast(m), NEW c \in Clients, member[c], NEW part, NEW values,
         IF part \in DOMAIN m.data THEN m.data[part] \in values ELSE EndsIn(channel[c], view[c], part, values)
  PROVE  EndsIn(channel'[c], view'[c], part, values)
<1>1. channel'[c] = Append(channel[c], m) /\ view'[c] = view[c] /\ channel[c] \in Seq(Message)
  BY BroadcastTypes DEF TypeOK, Broadcast
<1>2. CASE part \in DOMAIN m.data
  BY <1>1, <1>2, AppendTelling
<1>3. CASE part \notin DOMAIN m.data
  BY <1>1, <1>3, AppendSilent
<1>4. QED
  BY <1>2, <1>3

\* Values that were not excluded are not excluded by more.
LEMMA EndsMore ==
  ASSUME NEW messages, NEW shown, NEW part, NEW values, NEW more, values \subseteq more,
         EndsIn(messages, shown, part, values)
  PROVE  EndsIn(messages, shown, part, more)
  BY DEF EndsIn

\* What is broadcast last is what the members end with; what is stored only widens the range.
LEMMA EndsInductive == TypeOK /\ OrderInv /\ EndsInv /\ [Next]_vars => EndsInv'
<1> SUFFICES ASSUME TypeOK, OrderInv, EndsInv, [Next]_vars, NEW c \in Clients, member'[c]
             PROVE  /\ EndsIn(channel'[c], view'[c], "armed", {armed'})
                    /\ \A i \in Items : EndsIn(channel'[c], view'[c], i, said'[i]..store'[i])
  BY DEF EndsInv
<1>t. /\ "armed" \notin Items /\ channel[c] \in Seq(Message) /\ view[c] \in View
      /\ \A i \in Items : store[i] \in Nat /\ said[i] \in Nat /\ said[i] <= store[i]
  BY DEF TypeOK, OrderInv, Items, Versions
<1>m. member[c] => /\ EndsIn(channel[c], view[c], "armed", {armed})
                   /\ \A i \in Items : EndsIn(channel[c], view[c], i, said[i]..store[i])
  BY DEF EndsInv
\* Announcing a version of an item that the store has: of the other item nothing changes.
<1>a. ASSUME NEW item \in Items, NEW version \in Versions, NEW via \in {"device", "announcement"},
             Tell(via, item, version), version <= store'[item], UNCHANGED armed,
             \A i \in Items : store[i] <= store'[i] /\ store'[i] \in Nat
      PROVE  /\ EndsIn(channel'[c], view'[c], "armed", {armed'})
             /\ \A i \in Items : EndsIn(channel'[c], view'[c], i, said'[i]..store'[i])
  <2> DEFINE m == [via |-> via, data |-> [i \in {item} |-> version]]
  <2>1. m \in Message /\ DOMAIN m.data = {item} /\ m.data[item] = version
    BY <1>a, Announced
  <2>2. Broadcast(m)
    BY <1>a DEF Tell
  <2> HIDE DEF m
  <2>3. member[c]
    BY <2>2 DEF Broadcast
  <2>4. EndsIn(channel'[c], view'[c], "armed", {armed'})
    BY <1>a, <1>t, <1>m, <2>1, <2>2, <2>3, BroadcastEnds
  <2>5. said'[item] = version /\ \A i \in Items \ {item} : said'[i] = said[i]
    BY <1>a DEF Tell, TypeOK
  <2>6. version \in said'[item]..store'[item]
    BY <1>a, <2>5 DEF Versions
  <2>7. EndsIn(channel'[c], view'[c], item, said'[item]..store'[item])
    BY <2>1, <2>2, <2>3, <2>6, BroadcastEnds
  <2>8. ASSUME NEW i \in Items \ {item} PROVE EndsIn(channel'[c], view'[c], i, said'[i]..store'[i])
    <3>1. said[i]..store[i] \subseteq said'[i]..store'[i]
      BY <1>a, <1>t, <2>5
    <3>2. EndsIn(channel[c], view[c], i, said'[i]..store'[i])
      BY <1>m, <2>3, <3>1, EndsMore
    <3>3. QED
      BY <2>1, <2>2, <2>3, <3>2, BroadcastEnds
  <2>9. QED
    BY <2>4, <2>7, <2>8
\* What changes the store only, or neither store nor channel.
<1>b. ASSUME UNCHANGED <<armed, said, member, channel, view>>,
             \A i \in Items : store[i] <= store'[i] /\ store'[i] \in Nat
      PROVE  /\ EndsIn(channel'[c], view'[c], "armed", {armed'})
             /\ \A i \in Items : EndsIn(channel'[c], view'[c], i, said'[i]..store'[i])
  <2>1. member[c] /\ channel'[c] = channel[c] /\ view'[c] = view[c] /\ armed' = armed
        /\ \A i \in Items : said'[i] = said[i]
    BY <1>b
  <2>2. ASSUME NEW i \in Items PROVE EndsIn(channel[c], view[c], i, said'[i]..store'[i])
    <3>1. said[i]..store[i] \subseteq said'[i]..store'[i]
      BY <1>b, <1>t, <2>1
    <3>2. EndsIn(channel[c], view[c], i, said[i]..store[i])
      BY <1>m, <2>1
    <3>3. QED
      BY <3>1, <3>2, EndsMore
  <2>3. QED
    BY <1>m, <2>1, <2>2
<1>1. ASSUME NEW d \in Clients, Join(d)
      PROVE  /\ EndsIn(channel'[c], view'[c], "armed", {armed'})
             /\ \A i \in Items : EndsIn(channel'[c], view'[c], i, said'[i]..store'[i])
  <2>1. CASE c = d
    <3> DEFINE m == [via |-> "snapshot", data |-> Snapshot]
    <3>1. channel'[c] = <<m>>
      BY <1>1, <2>1 DEF Join, TypeOK
    <3>2. DOMAIN m.data = Parts /\ m.data["armed"] = armed /\ \A i \in Items : m.data[i] = store[i]
      BY SnapshotView
    <3> HIDE DEF m
    <3>3. DOMAIN <<m>> = {1} /\ <<m>>[1] = m
      OBVIOUS
    <3>4. ASSUME NEW part \in Parts, NEW values, m.data[part] \in values
          PROVE  EndsIn(<<m>>, view'[c], part, values)
      BY <3>2, <3>3, <3>4 DEF EndsIn, LastTelling
    <3>5. armed' = armed /\ \A i \in Items : store[i] \in said'[i]..store'[i]
      BY <1>1, <1>t DEF Join, backendVars
    <3>6. QED
      BY <3>1, <3>2, <3>4, <3>5 DEF Parts
  <2>2. CASE c # d
    BY <1>1, <1>m, <2>2 DEF Join, backendVars, TypeOK
  <2>3. QED
    BY <2>1, <2>2
<1>2. ASSUME NEW d \in Clients, Slow(d) \/ Close(d)
      PROVE  /\ EndsIn(channel'[c], view'[c], "armed", {armed'})
             /\ \A i \in Items : EndsIn(channel'[c], view'[c], i, said'[i]..store'[i])
  <2>1. c # d
    BY <1>2 DEF Slow, Close, TypeOK
  <2>2. member[c] /\ channel'[c] = channel[c] /\ view'[c] = view[c] /\ UNCHANGED <<armed, said, store>>
    BY <1>2, <2>1 DEF Slow, Close, TypeOK, backendVars
  <2>3. QED
    BY <1>m, <2>2
<1>3. ASSUME NEW d \in Clients, Read(d)
      PROVE  /\ EndsIn(channel'[c], view'[c], "armed", {armed'})
             /\ \A i \in Items : EndsIn(channel'[c], view'[c], i, said'[i]..store'[i])
  <2>1. UNCHANGED <<armed, said, store, member>>
    BY <1>3 DEF Read, backendVars
  <2>2. CASE c = d
    <3>1. /\ channel[c] # << >> /\ channel'[c] = Tail(channel[c])
          /\ view'[c] = Reduced(view[c], Head(channel[c]))
      BY <1>3, <2>2 DEF Read, TypeOK
    <3>2. DOMAIN view[c] = Items \cup {"armed"}
      BY <1>t DEF View, Items
    <3>3. QED
      BY <1>t, <1>m, <2>1, <3>1, <3>2, TailEnds
  <2>3. CASE c # d
    <3>1. channel'[c] = channel[c] /\ view'[c] = view[c]
      BY <1>3, <2>3 DEF Read, TypeOK
    <3>2. QED
      BY <1>m, <2>1, <3>1
  <2>4. QED
    BY <2>2, <2>3
<1>4. ASSUME NEW version \in Versions, DeviceUpdate(version)
      PROVE  /\ EndsIn(channel'[c], view'[c], "armed", {armed'})
             /\ \A i \in Items : EndsIn(channel'[c], view'[c], i, said'[i]..store'[i])
  <2>1. "incident" \in Items /\ store'["incident"] = version
        /\ \A i \in Items : store[i] <= store'[i] /\ store'[i] \in Nat
    BY <1>4, UpdateStores DEF Items, Versions
  <2>2. version <= store'["incident"]
    BY <2>1
  <2>3. Tell("device", "incident", version) /\ UNCHANGED armed
    BY <1>4 DEF DeviceUpdate
  <2>4. QED
    BY <1>a, <2>1, <2>2, <2>3
<1>5. ASSUME NEW to \in {"reporting", "away", "over"}, EdgeTurns(to)
      PROVE  /\ EndsIn(channel'[c], view'[c], "armed", {armed'})
             /\ \A i \in Items : EndsIn(channel'[c], view'[c], i, said'[i]..store'[i])
  BY <1>5, <1>t, <1>b DEF EdgeTurns, clientVars
<1>6. ASSUME NEW a \in waiting, Announce(a)
      PROVE  /\ EndsIn(channel'[c], view'[c], "armed", {armed'})
             /\ \A i \in Items : EndsIn(channel'[c], view'[c], i, said'[i]..store'[i])
  <2>1. a.item \in Items /\ a.version \in Versions /\ a.version <= store[a.item]
    BY DEF TypeOK, Announcement
  <2>2. UNCHANGED <<store, armed>> /\ Tell("announcement", a.item, a.version)
    BY <1>6 DEF Announce
  <2>3. a.version <= store'[a.item] /\ \A i \in Items : store[i] <= store'[i] /\ store'[i] \in Nat
    BY <1>t, <2>1, <2>2
  <2>4. QED
    BY <1>a, <2>1, <2>2, <2>3
<1>7. ASSUME NEW item \in Items, NEW version, StoreFirst(item, version)
      PROVE  /\ EndsIn(channel'[c], view'[c], "armed", {armed'})
             /\ \A i \in Items : EndsIn(channel'[c], view'[c], i, said'[i]..store'[i])
  <2>1. \A i \in Items : store[i] <= store'[i] /\ store'[i] \in Nat
    BY <1>7, <1>t DEF StoreFirst, TypeOK, Versions
  <2>2. QED
    BY <1>7, <1>b, <2>1 DEF StoreFirst, clientVars
<1>8. CASE ProviderReport
  <2>1. \A i \in Items : store[i] <= store'[i] /\ store'[i] \in Nat
    BY <1>8, <1>t DEF ProviderReport, TypeOK, Versions
  <2>2. QED
    BY <1>8, <1>b, <2>1 DEF ProviderReport, clientVars
<1>9. ASSUME NEW value \in BOOLEAN, Switch(value)
      PROVE  /\ EndsIn(channel'[c], view'[c], "armed", {armed'})
             /\ \A i \in Items : EndsIn(channel'[c], view'[c], i, said'[i]..store'[i])
  <2> DEFINE m == [via |-> "arming", data |-> [part \in {"armed"} |-> value]]
  <2>1. m \in Message /\ DOMAIN m.data = {"armed"} /\ m.data["armed"] = value
    BY Switched
  <2>2. Broadcast(m) /\ armed' = value /\ UNCHANGED <<store, said>>
    BY <1>9 DEF Switch
  <2> HIDE DEF m
  <2>3. member[c]
    BY <2>2 DEF Broadcast
  <2>4. EndsIn(channel'[c], view'[c], "armed", {armed'})
    BY <2>1, <2>2, <2>3, BroadcastEnds
  <2>5. ASSUME NEW i \in Items PROVE EndsIn(channel'[c], view'[c], i, said'[i]..store'[i])
    BY <1>t, <1>m, <2>1, <2>2, <2>3, BroadcastEnds
  <2>6. QED
    BY <2>4, <2>5
<1>10. CASE Restart
  BY <1>10 DEF Restart
<1>11. CASE UNCHANGED vars
  BY <1>11, <1>m DEF vars, backendVars, clientVars
<1>12. QED
  BY <1>1, <1>2, <1>3, <1>4, <1>5, <1>6, <1>7, <1>8, <1>9, <1>10, <1>11
     DEF Next, Decide, PutZones, Items

LEMMA EndsInvariant == Spec => []EndsInv
<1>1. Init => EndsInv
  BY DEF Init, EndsInv
<1>2. TypeOK /\ OrderInv /\ EndsInv /\ [Next]_vars => EndsInv'
  BY EndsInductive
<1>3. QED
  BY <1>1, <1>2, DashboardType, OrderInvariant, PTL DEF Spec

\* Nobody in the hub is left with a wrong arming switch: whoever has read what was sent shows
\* it as it is, also who joined as it was being switched, and after a restart, which disarms
\* (Switch, Join and Restart; ArmedAsShown).
THEOREM SwitchIsShown == Spec => []ArmedAsShown
<1>1. EndsInv => ArmedAsShown
  BY DEF EndsInv, EndsIn, ArmedAsShown, Tells
<1>2. QED
  BY <1>1, EndsInvariant, PTL

\* Once the current version of an item is the last that was broadcast, whoever is in the hub
\* and has read what was sent shows it, whether it joined before the broadcast or after
\* (Join, Broadcast and Slow; ShownAsStored).
THEOREM StoreIsShown == Spec => []ShownAsStored
<1>1. TypeOK /\ EndsInv => ShownAsStored
  <2> SUFFICES ASSUME TypeOK, EndsInv, NEW c \in Clients, NEW i \in Items,
                      member[c], said[i] = store[i], ~Tells(c, i)
               PROVE  view[c][i] = store[i]
    BY DEF ShownAsStored
  <2>1. view[c][i] \in said[i]..store[i]
    BY DEF EndsInv, EndsIn, Tells
  <2>2. store[i] \in Nat
    BY DEF TypeOK, Versions
  <2>3. QED
    BY <2>1, <2>2
<1>2. QED
  BY <1>1, DashboardType, EndsInvariant, PTL
=============================================================================
