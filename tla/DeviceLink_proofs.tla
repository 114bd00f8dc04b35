-------------------------- MODULE DeviceLink_proofs --------------------------
(***************************************************************************)
(* Theorems of DeviceLink, for every number of connections, boots, packets *)
(* and faults: types, the registry's invariant and the devices row.        *)
(***************************************************************************)
EXTENDS DeviceLink, SequenceTheorems, TLAPS

USE LinkAssumption

\* What is left of a wire is a wire.
LEMMA PrefixType ==
    ASSUME NEW packets \in Seq(Packet), NEW p \in Prefixes(packets)
    PROVE  p \in Seq(Packet)
<1>1. PICK n \in 0..Len(packets) : p = SubSeq(packets, 1, n)
  BY DEF Prefixes
<1>2. n = 0 => p = << >>
  BY <1>1, SubSeqEmpty
<1>3. n # 0 => p \in Seq(Packet)
  <2>1. Len(packets) \in Nat
    BY LenProperties
  <2>2. 1 \in 1..Len(packets)+1 /\ n \in 0..Len(packets)
    BY <1>1, <2>1
  <2>3. \A i \in 1..n : packets[i] \in Packet
    BY <1>1, ElementOfSeq
  <2>4. QED
    BY <1>1, <2>2, <2>3, SubSeqProperties
<1>4. QED
  BY <1>2, <1>3, EmptySeq

\* The packet a handler takes off its wire, and what remains.
LEMMA TakeType ==
    ASSUME TypeOK, NEW c \in Connections, wire[c] # << >>
    PROVE  /\ Packet1(c).boot \in Boots /\ Packet1(c).sequence \in 0..MaxClock
           /\ Tail(wire[c]) \in Seq(Packet)
<1>1. wire[c] \in Seq(Packet)
  BY DEF TypeOK
<1>2. Head(wire[c]) \in Packet /\ Tail(wire[c]) \in Seq(Packet)
  BY <1>1, HeadTailProperties
<1>3. QED
  BY <1>2 DEF Packet1, Packet

\* A connection the edge has is one of those it opened.
LEMMA ConnIsOpened ==
    ASSUME TypeOK, conn # 0
    PROVE  conn \in Connections
BY DEF TypeOK, Connections

\* close() leaves the edge idle and the wires well typed.
LEMMA AbandonType ==
    ASSUME TypeOK, conn # 0, Abandon
    PROVE  /\ conn' = 0 /\ edge' = "idle" /\ opened' = opened
           /\ wire' \in [Connections -> Seq(Packet)]
           /\ ended' \in [Connections -> BOOLEAN]
<1>1. conn \in Connections
  BY ConnIsOpened
<1>2. wire \in [Connections -> Seq(Packet)] /\ ended \in [Connections -> BOOLEAN]
  BY DEF TypeOK
<1>3. conn' = 0 /\ edge' = "idle" /\ opened' = opened
  BY DEF Abandon
<1>4. CASE ended' = [ended EXCEPT ![conn] = TRUE] /\ UNCHANGED wire
  BY <1>2, <1>3, <1>4
<1>5. CASE /\ \E sent \in Prefixes(wire[conn]) : wire' = [wire EXCEPT ![conn] = sent]
           /\ UNCHANGED ended
  <2>1. PICK sent \in Prefixes(wire[conn]) : wire' = [wire EXCEPT ![conn] = sent]
    BY <1>5
  <2>2. sent \in Seq(Packet)
    BY <1>1, <1>2, <2>1, PrefixType
  <2>3. QED
    BY <1>2, <1>3, <1>5, <2>1, <2>2
<1>6. QED
  BY <1>4, <1>5 DEF Abandon

\* Type correctness.
THEOREM LinkType == Spec => []TypeOK
<1>1. Init => TypeOK
  <2> SUFFICES ASSUME Init PROVE TypeOK
    OBVIOUS
  <2>1. wire \in [Connections -> Seq(Packet)]
    BY EmptySeq DEF Init
  <2>2. /\ boot \in Boots /\ clock \in 0..MaxClock /\ opened \in 0..MaxConnection /\ conn \in 0..opened
        /\ edge \in {"idle", "greeting", "open"} /\ (edge = "idle" <=> conn = 0)
    BY DEF Init, Boots
  <2>3. /\ ended \in [Connections -> BOOLEAN] /\ acked \in [Connections -> BOOLEAN]
        /\ closing \in [Connections -> BOOLEAN]
        /\ handler \in [Connections -> {"none", "reading", "greeting", "rejecting", "leaving", "done"}]
    BY DEF Init
  <2>4. /\ hello \in [Connections -> 0..MaxBoot] /\ registry \in 0..MaxConnection
        /\ hazard \in [Boots -> 0..MaxClock] /\ faults \in 0..MaxFaults
    BY DEF Init
  <2>5. row = [connected |-> FALSE, boot |-> 0] /\ restarted = FALSE
    BY DEF Init
  <2>6. /\ row \in [connected : BOOLEAN, boot : 0..MaxBoot]
        /\ restarted \in BOOLEAN
    <3>1. 0 \in 0..MaxBoot
      OBVIOUS
    <3>2. row \in [connected : BOOLEAN, boot : 0..MaxBoot]
      BY <2>5, <3>1
    <3>3. restarted \in BOOLEAN
      BY <2>5
    <3>4. QED
      BY <3>2, <3>3
  <2>7. events \subseteq 0..MaxClock /\ raised \subseteq 1..MaxClock
    BY DEF Init
  <2>8. QED
    BY <2>1, <2>2, <2>3, <2>4, <2>6, <2>7 DEF TypeOK
<1>2. TypeOK /\ [Next]_vars => TypeOK'
  <2> SUFFICES ASSUME TypeOK, [Next]_vars PROVE TypeOK'
    OBVIOUS
  <2>1. CASE Connect
    <3> DEFINE p == [type |-> "HELLO", boot |-> boot, sequence |-> clock]
    <3>1. p \in Packet
      BY DEF TypeOK, Packet
    <3>2. <<p>> \in Seq(Packet)
      BY <3>1, SeqDef
    <3>3. wire' \in [Connections -> Seq(Packet)]
      BY <2>1, <3>2 DEF Connect, TypeOK
    <3>4. opened' \in 0..MaxConnection /\ conn' \in 0..opened' /\ conn' # 0 /\ edge' = "greeting"
      BY <2>1 DEF Connect, TypeOK
    <3>5. handler' \in [Connections -> {"none", "reading", "greeting", "rejecting", "leaving", "done"}]
      BY <2>1 DEF Connect, TypeOK
    <3>6. QED
      BY <2>1, <3>3, <3>4, <3>5 DEF Connect, TypeOK, deviceVars, storeVars
  <2>2. CASE Open
    BY <2>2 DEF Open, TypeOK, handlerVars, deviceVars, storeVars
  <2>3. CASE Notice
    <3>1. /\ conn' = 0 /\ edge' = "idle" /\ opened' = opened
          /\ wire' \in [Connections -> Seq(Packet)] /\ ended' \in [Connections -> BOOLEAN]
      BY <2>3, AbandonType DEF Notice
    <3>2. QED
      BY <2>3, <3>1 DEF Notice, TypeOK, handlerVars, deviceVars, storeVars
  <2>4. CASE Lose
    <3>1. /\ conn' = 0 /\ edge' = "idle" /\ opened' = opened
          /\ wire' \in [Connections -> Seq(Packet)] /\ ended' \in [Connections -> BOOLEAN]
      BY <2>4, AbandonType DEF Lose
    <3>2. faults' \in 0..MaxFaults
      BY <2>4 DEF Lose, Fault, TypeOK
    <3>3. QED
      BY <2>4, <3>1, <3>2 DEF Lose, TypeOK, handlerVars, deviceVars, storeVars
  <2>5. CASE Crash
    <3>1. /\ conn' \in 0..opened' /\ opened' = opened
          /\ edge' \in {"idle", "greeting", "open"} /\ (edge' = "idle" <=> conn' = 0)
          /\ wire' \in [Connections -> Seq(Packet)] /\ ended' \in [Connections -> BOOLEAN]
      <4>1. CASE conn = 0
        BY <2>5, <4>1 DEF Crash, TypeOK
      <4>2. CASE conn # 0
        <5>1. Abandon
          BY <2>5, <4>2 DEF Crash
        <5>2. opened \in Nat
          BY DEF TypeOK
        <5>3. QED
          BY <4>2, <5>1, <5>2, AbandonType
      <4>3. QED
        BY <4>1, <4>2
    <3>2. faults' \in 0..MaxFaults /\ boot' \in Boots
      BY <2>5 DEF Crash, Fault, TypeOK, Boots
    <3>3. QED
      BY <2>5, <3>1, <3>2 DEF Crash, TypeOK, handlerVars, deviceVars, storeVars
  <2>6. ASSUME NEW type \in {"INCIDENT_UPDATE", "INCIDENT_TIMELINE_EVENT"}, Send(type)
        PROVE  TypeOK'
    <3> DEFINE p == [type |-> type, boot |-> boot, sequence |-> clock + 1]
    <3>1. clock' = clock + 1 /\ clock' \in 1..MaxClock
      BY <2>6 DEF Send, TypeOK
    <3>2. p \in Packet
      BY <3>1 DEF TypeOK, Packet
    <3>3. wire' \in [Connections -> Seq(Packet)]
      <4>1. CASE conn # 0 /\ Reads(conn)
        <5>1. conn \in Connections
          BY <4>1, ConnIsOpened
        <5>2. Append(wire[conn], p) \in Seq(Packet)
          BY <3>2, <5>1, AppendProperties DEF TypeOK
        <5>3. wire' = [wire EXCEPT ![conn] = Append(wire[conn], p)]
          BY <2>6, <4>1 DEF Send
        <5>4. QED
          BY <5>1, <5>2, <5>3 DEF TypeOK
      <4>2. CASE ~(conn # 0 /\ Reads(conn))
        BY <2>6, <4>2 DEF Send, TypeOK
      <4>3. QED
        BY <4>1, <4>2
    <3>4. raised' \subseteq 1..MaxClock
      BY <2>6, <3>1 DEF Send, TypeOK
    <3>5. QED
      BY <2>6, <3>1, <3>3, <3>4 DEF Send, TypeOK, edgeVars, handlerVars, deviceVars, storeVars
  <2>7. ASSUME NEW c \in Connections, Hello(c) PROVE TypeOK'
    <3>1. Packet1(c).boot \in Boots /\ Tail(wire[c]) \in Seq(Packet)
      BY <2>7, TakeType DEF Hello
    <3>2. Packet1(c).boot \in 0..MaxBoot
      BY <3>1 DEF Boots
    <3>3. wire' \in [Connections -> Seq(Packet)] /\ closing' \in [Connections -> BOOLEAN]
      <4>1. CASE registry = 0
        BY <2>7, <3>1, <4>1 DEF Hello, TypeOK
      <4>2. CASE registry # 0
        <5>1. registry \in Connections
          BY <4>2 DEF TypeOK, Connections
        <5>2. PICK read \in Prefixes(wire[registry]) :
                wire' = [wire EXCEPT ![c] = Tail(wire[c]), ![registry] = read]
          BY <2>7, <4>2 DEF Hello
        <5>3. read \in Seq(Packet)
          BY <5>1, <5>2, PrefixType DEF TypeOK
        <5>4. closing' = [closing EXCEPT ![registry] = TRUE]
          BY <2>7, <4>2 DEF Hello
        <5>5. QED
          BY <3>1, <5>2, <5>3, <5>4 DEF TypeOK
      <4>3. QED
        BY <4>1, <4>2
    <3>4. /\ handler' \in [Connections -> {"none", "reading", "greeting", "rejecting", "leaving", "done"}]
          /\ hello' \in [Connections -> 0..MaxBoot]
          /\ acked' \in [Connections -> BOOLEAN]
      BY <2>7, <3>2 DEF Hello, TypeOK
    <3>5. registry' \in 0..MaxConnection /\ restarted' \in BOOLEAN
      <4>1. registry' = c /\ restarted' = FALSE
        BY <2>7 DEF Hello
      <4>2. registry' \in 0..MaxConnection
        BY <4>1 DEF Connections
      <4>3. restarted' \in BOOLEAN
        BY <4>1
      <4>4. QED
        BY <4>2, <4>3
    <3>6. row' \in [connected : BOOLEAN, boot : 0..MaxBoot]
      BY <2>7, <3>2 DEF Hello
    <3>7. QED
      BY <2>7, <3>3, <3>4, <3>5, <3>6 DEF Hello, TypeOK, edgeVars, storeVars
  <2>8. ASSUME NEW c \in Connections, Greeted(c) PROVE TypeOK'
    BY <2>8 DEF Greeted, TypeOK, edgeVars, deviceVars, storeVars
  <2>9. ASSUME NEW c \in Connections, IncidentUpdate(c) PROVE TypeOK'
    <3>1. Packet1(c).sequence \in 0..MaxClock /\ Tail(wire[c]) \in Seq(Packet)
      BY <2>9, TakeType DEF IncidentUpdate, Dispatches
    <3>2. wire' \in [Connections -> Seq(Packet)]
      BY <2>9, <3>1 DEF IncidentUpdate, Dispatches, TypeOK
    <3>3. hazard' \in [Boots -> 0..MaxClock]
      BY <2>9, <3>1 DEF IncidentUpdate, TypeOK
    <3>4. QED
      BY <2>9, <3>2, <3>3 DEF IncidentUpdate, TypeOK, edgeVars, handlerVars, deviceVars
  <2>10. ASSUME NEW c \in Connections, TimelineEvent(c) PROVE TypeOK'
    <3>1. Packet1(c).sequence \in 0..MaxClock /\ Tail(wire[c]) \in Seq(Packet)
      BY <2>10, TakeType DEF TimelineEvent, Dispatches
    <3>2. wire' \in [Connections -> Seq(Packet)]
      BY <2>10, <3>1 DEF TimelineEvent, Dispatches, TypeOK
    <3>3. /\ handler' \in [Connections -> {"none", "reading", "greeting", "rejecting", "leaving", "done"}]
          /\ events' \subseteq 0..MaxClock
      BY <2>10, <3>1 DEF TimelineEvent, TypeOK
    <3>4. QED
      BY <2>10, <3>2, <3>3 DEF TimelineEvent, TypeOK, edgeVars, deviceVars
  <2>11. ASSUME NEW c \in Connections, Leave(c) PROVE TypeOK'
    <3>1. wire' \in [Connections -> Seq(Packet)]
      BY <2>11, EmptySeq DEF Leave, TypeOK
    <3>2. /\ registry' \in 0..MaxConnection
          /\ row' \in [connected : BOOLEAN, boot : 0..MaxBoot]
          /\ restarted' \in BOOLEAN
      <4>1. /\ registry' = registry \/ registry' = 0
            /\ row' = row \/ row' = [row EXCEPT !.connected = FALSE]
            /\ restarted' = restarted
        BY <2>11 DEF Leave, Unregister, deviceVars
      <4>2. [row EXCEPT !.connected = FALSE] \in [connected : BOOLEAN, boot : 0..MaxBoot]
        BY DEF TypeOK
      <4>3. row' \in [connected : BOOLEAN, boot : 0..MaxBoot]
        BY <4>1, <4>2 DEF TypeOK
      <4>4. QED
        BY <4>1, <4>3 DEF TypeOK
    <3>3. handler' \in [Connections -> {"none", "reading", "greeting", "rejecting", "leaving", "done"}]
      BY <2>11 DEF Leave, TypeOK
    <3>4. QED
      BY <2>11, <3>1, <3>2, <3>3 DEF Leave, TypeOK, edgeVars, storeVars
  <2>12. ASSUME NEW c \in Connections, Close(c) PROVE TypeOK'
    BY <2>12 DEF Close, TypeOK, edgeVars, deviceVars, storeVars
  <2>13. CASE Restart
    <3>1. wire' \in [Connections -> Seq(Packet)]
      BY <2>13, EmptySeq DEF Restart
    <3>2. /\ handler' \in [Connections -> {"none", "reading", "greeting", "rejecting", "leaving", "done"}]
          /\ closing' \in [Connections -> BOOLEAN]
          /\ registry' \in 0..MaxConnection /\ restarted' \in BOOLEAN
          /\ faults' \in 0..MaxFaults
      BY <2>13 DEF Restart, Fault, TypeOK
    <3>3. QED
      BY <2>13, <3>1, <3>2 DEF Restart, TypeOK, edgeVars, storeVars
  <2>14. CASE UNCHANGED vars
    BY <2>14 DEF vars, TypeOK, edgeVars, handlerVars, deviceVars, storeVars
  <2>15. QED
    BY <2>1, <2>2, <2>3, <2>4, <2>5, <2>6, <2>7, <2>8, <2>9, <2>10, <2>11, <2>12, <2>13, <2>14
       DEF Next, Handler
<1>3. QED
  BY <1>1, <1>2, PTL DEF Spec

-----------------------------------------------------------------------------
(* The registry and the devices row *)

\* The handler of c greeted, has not reached its finally block, and its writer is open.
Live(c) == hello[c] # 0 /\ handler[c] \in {"reading", "greeting", "rejecting"} /\ ~closing[c]

\* What the registry's invariant needs besides itself: a connection that was not opened has
\* no handler, and only a greeted or an ended connection has a closed writer.
LinkInv ==
    /\ \A c \in Connections : c > opened => handler[c] = "none"
    /\ \A c \in Connections : handler[c] = "none" => hello[c] = 0
    /\ \A c \in Connections : closing[c] => hello[c] # 0 \/ handler[c] = "done"
    /\ \A c \in Connections : registry = c <=> Live(c)
    /\ RowFollowsRegistry

\* Steps that leave handlers, registry and row alone keep the invariant.
LEMMA LinkStutter ==
    ASSUME LinkInv, UNCHANGED <<handlerVars, deviceVars, opened>>
    PROVE  LinkInv'
BY DEF LinkInv, Live, RowFollowsRegistry, handlerVars, deviceVars

LEMMA LinkInductive ==
    ASSUME TypeOK, LinkInv, [Next]_vars
    PROVE  LinkInv'
<1>1. CASE Connect
  <2>1. opened + 1 \in Connections /\ opened \in Nat
    BY <1>1 DEF Connect, TypeOK, Connections
  <2>2. handler[opened + 1] = "none" /\ hello[opened + 1] = 0
    BY <2>1 DEF LinkInv
  <2>3. /\ opened' = opened + 1 /\ handler' = [handler EXCEPT ![opened + 1] = "reading"]
        /\ UNCHANGED <<hello, closing, registry, row, restarted>>
    BY <1>1 DEF Connect, deviceVars
  <2>4. (\A c \in Connections : c > opened => handler[c] = "none")'
    BY <2>1, <2>3 DEF LinkInv, TypeOK, Connections
  <2>5. (\A c \in Connections : handler[c] = "none" => hello[c] = 0)'
    BY <2>1, <2>3 DEF LinkInv, TypeOK
  <2>6. (\A c \in Connections : closing[c] => hello[c] # 0 \/ handler[c] = "done")'
    BY <2>1, <2>2, <2>3 DEF LinkInv, TypeOK
  <2>7. (\A c \in Connections : registry = c <=> Live(c))'
    BY <2>1, <2>2, <2>3 DEF LinkInv, Live, TypeOK
  <2>8. RowFollowsRegistry'
    BY <2>3 DEF LinkInv, RowFollowsRegistry
  <2>9. QED
    BY <2>4, <2>5, <2>6, <2>7, <2>8 DEF LinkInv
<1>2. CASE Open
  BY <1>2, LinkStutter DEF Open
<1>3. CASE Notice
  <2>1. opened' = opened
    BY <1>3 DEF Notice, Abandon
  <2>2. QED
    BY <1>3, <2>1, LinkStutter DEF Notice
<1>4. CASE Lose
  <2>1. opened' = opened
    BY <1>4 DEF Lose, Abandon
  <2>2. QED
    BY <1>4, <2>1, LinkStutter DEF Lose
<1>5. CASE Crash
  <2>1. opened' = opened
    BY <1>5 DEF Crash, Abandon
  <2>2. QED
    BY <1>5, <2>1, LinkStutter DEF Crash
<1>6. ASSUME NEW type \in {"INCIDENT_UPDATE", "INCIDENT_TIMELINE_EVENT"}, Send(type)
      PROVE  LinkInv'
  BY <1>6, LinkStutter DEF Send, edgeVars
<1>7. ASSUME NEW c \in Connections, Hello(c) PROVE LinkInv'
  <2>1. Packet1(c).boot \in Boots
    BY <1>7, TakeType DEF Hello
  <2>2. /\ handler' = [handler EXCEPT ![c] = "greeting"]
        /\ hello' = [hello EXCEPT ![c] = Packet1(c).boot]
        /\ registry' = c /\ row' = [connected |-> TRUE, boot |-> Packet1(c).boot]
        /\ restarted' = FALSE /\ opened' = opened
        /\ handler[c] = "reading" /\ hello[c] = 0
    BY <1>7 DEF Hello, edgeVars
  <2>3. Packet1(c).boot # 0 /\ c # 0
    BY <2>1 DEF Boots, Connections
  <2>4. registry # c
    BY <2>2 DEF LinkInv, Live
  <2>5. ~closing[c]
    BY <2>2 DEF LinkInv
  <2>6. \A d \in Connections : closing'[d] <=> closing[d] \/ d = registry
    <3>1. CASE registry = 0
      <4>1. closing' = closing
        BY <1>7, <3>1 DEF Hello
      <4>2. QED
        BY <3>1, <4>1 DEF Connections
    <3>2. CASE registry # 0
      <4>1. closing' = [closing EXCEPT ![registry] = TRUE]
        BY <1>7, <3>2 DEF Hello
      <4>2. QED
        BY <4>1 DEF TypeOK
    <3>3. QED
      BY <3>1, <3>2
  <2>7. (\A d \in Connections : d > opened => handler[d] = "none")'
    BY <2>2 DEF LinkInv, TypeOK
  <2>8. (\A d \in Connections : handler[d] = "none" => hello[d] = 0)'
    BY <2>2 DEF LinkInv, TypeOK
  <2>9. ASSUME NEW d \in Connections, closing'[d] PROVE hello'[d] # 0 \/ handler'[d] = "done"
    <3>1. CASE d = c
      BY <2>2, <2>3, <3>1 DEF TypeOK
    <3>2. CASE d # c /\ closing[d]
      BY <2>2, <3>2 DEF LinkInv, TypeOK
    <3>3. CASE d # c /\ d = registry
      BY <2>2, <3>3 DEF LinkInv, Live, TypeOK
    <3>4. QED
      BY <2>6, <2>9, <3>1, <3>2, <3>3
  <2>10. ASSUME NEW d \in Connections PROVE registry' = d <=> Live(d)'
    <3>1. CASE d = c
      BY <2>2, <2>3, <2>4, <2>5, <2>6, <3>1 DEF Live, TypeOK
    <3>2. CASE d # c
      <4>1. hello'[d] = hello[d] /\ handler'[d] = handler[d]
        BY <2>2, <3>2 DEF TypeOK
      <4>2. ~Live(d)'
        BY <2>6, <4>1 DEF LinkInv, Live
      <4>3. QED
        BY <2>2, <3>2, <4>2
    <3>3. QED
      BY <3>1, <3>2
  <2>11. RowFollowsRegistry'
    <3>1. hello'[c] = Packet1(c).boot
      BY <2>2 DEF TypeOK
    <3>2. QED
      BY <2>2, <2>3, <3>1 DEF RowFollowsRegistry
  <2>12. QED
    BY <2>7, <2>8, <2>9, <2>10, <2>11 DEF LinkInv
<1>8. ASSUME NEW c \in Connections, Greeted(c) PROVE LinkInv'
  <2>1. /\ handler' = [handler EXCEPT ![c] = "reading"] /\ handler[c] = "greeting"
        /\ UNCHANGED <<hello, closing, registry, row, restarted, opened>>
    BY <1>8 DEF Greeted, edgeVars, deviceVars
  <2>2. \A d \in Connections : Live(d)' <=> Live(d)
    BY <2>1 DEF Live, TypeOK
  <2>3. QED
    BY <2>1, <2>2 DEF LinkInv, TypeOK, RowFollowsRegistry
<1>9. ASSUME NEW c \in Connections, IncidentUpdate(c) PROVE LinkInv'
  BY <1>9, LinkStutter DEF IncidentUpdate, edgeVars
<1>10. ASSUME NEW c \in Connections, TimelineEvent(c) PROVE LinkInv'
  <2>1. /\ handler' = handler \/ handler' = [handler EXCEPT ![c] = "rejecting"]
        /\ handler[c] = "reading"
        /\ UNCHANGED <<hello, closing, registry, row, restarted, opened>>
    BY <1>10 DEF TimelineEvent, Dispatches, edgeVars, deviceVars
  <2>2. \A d \in Connections : Live(d)' <=> Live(d)
    BY <2>1 DEF Live, TypeOK
  <2>3. QED
    BY <2>1, <2>2 DEF LinkInv, TypeOK, RowFollowsRegistry
<1>11. ASSUME NEW c \in Connections, Leave(c) PROVE LinkInv'
  <2>1. /\ handler' = [handler EXCEPT ![c] = "leaving"] /\ handler[c] \in {"rejecting", "reading"}
        /\ UNCHANGED <<hello, closing, opened>>
    BY <1>11 DEF Leave, edgeVars
  <2>2. \A d \in Connections : Live(d)' <=> Live(d) /\ d # c
    BY <2>1 DEF Live, TypeOK
  <2>3. /\ registry' = IF registry = c THEN 0 ELSE registry
        /\ row' = IF registry = c /\ row.boot = hello[c] THEN [row EXCEPT !.connected = FALSE] ELSE row
        /\ restarted' = restarted
    <3>1. CASE hello[c] # 0
      BY <1>11, <3>1 DEF Leave, Unregister, IsCurrent
    <3>2. CASE hello[c] = 0
      <4>1. registry # c
        BY <3>2 DEF LinkInv, Live
      <4>2. QED
        BY <1>11, <3>2, <4>1 DEF Leave, deviceVars
    <3>3. QED
      BY <3>1, <3>2
  <2>4. \A d \in Connections : registry' = d <=> Live(d)'
    BY <2>2, <2>3 DEF LinkInv, Connections
  <2>5. RowFollowsRegistry'
    <3>1. CASE registry = c
      <4>1. row = [connected |-> TRUE, boot |-> hello[c]]
        BY <3>1 DEF LinkInv, RowFollowsRegistry, Connections
      <4>2. row'.connected = FALSE
        BY <2>3, <3>1, <4>1
      <4>3. QED
        BY <2>3, <3>1, <4>2 DEF RowFollowsRegistry
    <3>2. CASE registry # c
      BY <2>1, <2>3, <3>2 DEF LinkInv, RowFollowsRegistry
    <3>3. QED
      BY <3>1, <3>2
  <2>6. (\A d \in Connections : d > opened => handler[d] = "none")'
    BY <2>1 DEF LinkInv, TypeOK
  <2>7. (\A d \in Connections : handler[d] = "none" => hello[d] = 0)'
    BY <2>1 DEF LinkInv, TypeOK
  <2>8. (\A d \in Connections : closing[d] => hello[d] # 0 \/ handler[d] = "done")'
    BY <2>1 DEF LinkInv, TypeOK
  <2>9. QED
    BY <2>4, <2>5, <2>6, <2>7, <2>8 DEF LinkInv
<1>12. ASSUME NEW c \in Connections, Close(c) PROVE LinkInv'
  <2>1. /\ handler' = [handler EXCEPT ![c] = "done"] /\ handler[c] = "leaving"
        /\ closing' = [closing EXCEPT ![c] = TRUE]
        /\ UNCHANGED <<hello, registry, row, restarted, opened>>
    BY <1>12 DEF Close, edgeVars, deviceVars
  <2>2. \A d \in Connections : Live(d)' <=> Live(d)
    BY <2>1 DEF Live, TypeOK
  <2>3. QED
    BY <2>1, <2>2 DEF LinkInv, TypeOK, RowFollowsRegistry
<1>13. CASE Restart
  <2>1. /\ handler' = [c \in Connections |-> IF handler[c] = "none" THEN "none" ELSE "done"]
        /\ closing' = [c \in Connections |-> handler[c] # "none"]
        /\ registry' = 0 /\ restarted' = TRUE
        /\ UNCHANGED <<hello, row, opened>>
    BY <1>13 DEF Restart, edgeVars
  <2>2. \A d \in Connections : ~Live(d)' /\ d # 0
    BY <2>1 DEF Live, Connections
  <2>3. QED
    BY <2>1, <2>2 DEF LinkInv, RowFollowsRegistry
<1>14. CASE UNCHANGED vars
  BY <1>14, LinkStutter DEF vars, edgeVars
<1>15. QED
  BY <1>1, <1>2, <1>3, <1>4, <1>5, <1>6, <1>7, <1>8, <1>9, <1>10, <1>11, <1>12, <1>13, <1>14
     DEF Next, Handler

LEMMA LinkInvariant == Spec => []LinkInv
<1>1. Init => LinkInv
  BY DEF Init, LinkInv, Live, RowFollowsRegistry, Connections
<1>2. TypeOK /\ LinkInv /\ [Next]_vars => LinkInv'
  BY LinkInductive
<1>3. QED
  BY <1>1, <1>2, LinkType, PTL DEF Spec

\* The registry holds the live connection: of the handlers that overlap, only the newest
\* greeted one is registered, and it stays so when the others end.
THEOREM RegistryServed == Spec => []RegistryIsLive
<1>1. LinkInv => RegistryIsLive
  BY DEF LinkInv, Live, RegistryIsLive
<1>2. QED
  BY <1>1, LinkInvariant, PTL

\* The devices row says what the registry holds, except after a restart of the backend.
THEOREM RowTruthful == Spec => []RowFollowsRegistry
<1>1. LinkInv => RowFollowsRegistry
  BY DEF LinkInv
<1>2. QED
  BY <1>1, LinkInvariant, PTL

-----------------------------------------------------------------------------
(* Updates that reach the database *)

\* The packets on a connection are in the order they were raised.
Ordered ==
    \A c \in Connections : \A i, j \in 1..Len(wire[c]) :
        i < j => wire[c][i].sequence < wire[c][j].sequence

\* What was sent on a connection was raised after all that was sent on an earlier one.
NewerBehind ==
    \A c, d \in Connections : c < d =>
        \A i \in 1..Len(wire[c]), j \in 1..Len(wire[d]) :
            wire[d][j].type # "HELLO" => wire[c][i].sequence < wire[d][j].sequence

\* The clock is at the last packet that was raised.
RaisedBefore ==
    /\ \A c \in Connections : \A i \in 1..Len(wire[c]) : wire[c][i].sequence <= clock
    /\ \A b \in Boots : hazard[b] <= clock

\* The edge uses the last connection it opened; there is nothing on those it has not opened.
LastOpened ==
    /\ conn # 0 => conn = opened
    /\ \A c \in Connections : c > opened => wire[c] = << >> /\ hello[c] = 0

\* The edge sends nothing but HELLO before the backend answers it.
Ungreeted ==
    /\ \A c \in Connections : hello[c] = 0 =>
         /\ ~acked[c] /\ Len(wire[c]) <= 1
         /\ \A i \in 1..Len(wire[c]) : wire[c][i].type = "HELLO"
    /\ edge = "open" => acked[conn]

Queued == Ordered /\ NewerBehind /\ RaisedBefore /\ LastOpened /\ Ungreeted

\* What the registered connection is still to deliver is not older than what is stored; and one
\* that was registered after a newer one, for its HELLO was late, has nothing to deliver.
Current ==
    registry # 0 =>
        /\ hello[registry] # 0
        /\ \A b \in Boots : \A i \in 1..Len(wire[registry]) :
             wire[registry][i].type # "HELLO" => hazard[b] <= wire[registry][i].sequence
        /\ \A c \in Connections : c > registry /\ hello[c] # 0 => wire[registry] = << >>

\* A wire of which packets were taken from the front or lost at the end.
Shifted(new, old, k) == \A i \in 1..Len(new) : i + k \in 1..Len(old) /\ new[i] = old[i + k]

Cut(new, old) == Len(new) <= Len(old) /\ \E k \in Nat : Shifted(new, old, k)

LEMMA CutSame == ASSUME NEW old \in Seq(Packet) PROVE Cut(old, old)
<1>1. Shifted(old, old, 0) /\ 0 \in Nat
  BY DEF Shifted
<1>2. Len(old) \in Nat /\ Len(old) <= Len(old)
  OBVIOUS
<1>3. QED
  BY <1>1, <1>2 DEF Cut

LEMMA CutEmpty == ASSUME NEW old \in Seq(Packet) PROVE Cut(<< >>, old)
<1>1. Len(<< >>) = 0 /\ 1..0 = {}
  OBVIOUS
<1>2. Shifted(<< >>, old, 0) /\ 0 \in Nat
  BY <1>1 DEF Shifted
<1>3. 0 <= Len(old)
  OBVIOUS
<1>4. QED
  BY <1>1, <1>2, <1>3 DEF Cut

LEMMA CutTail == ASSUME NEW old \in Seq(Packet), old # << >> PROVE Cut(Tail(old), old)
<1> PICK l \in Nat : l = Len(old)
  OBVIOUS
<1>1. l # 0 /\ Len(Tail(old)) = l - 1 /\ \A i \in 1..(l - 1) : Tail(old)[i] = old[i + 1]
  BY EmptySeq, HeadTailProperties
<1>2. (\A i \in 1..(l - 1) : i + 1 \in 1..l) /\ l - 1 <= l /\ 1 \in Nat
  OBVIOUS
<1>3. Shifted(Tail(old), old, 1)
  BY <1>1, <1>2 DEF Shifted
<1>4. Len(Tail(old)) <= Len(old)
  <2>1. Len(Tail(old)) = l - 1 /\ Len(old) = l
    BY <1>1
  <2>2. QED
    BY <2>1
<1>5. \E k \in Nat : Shifted(Tail(old), old, k)
  BY ONLY <1>3
<1>6. QED
  BY ONLY <1>4, <1>5 DEF Cut

LEMMA CutPrefix == ASSUME NEW old \in Seq(Packet), NEW new \in Prefixes(old) PROVE Cut(new, old)
<1>1. PICK n \in 0..Len(old) : new = SubSeq(old, 1, n)
  BY DEF Prefixes
<1>2. CASE n = 0
  <2>1. new = << >>
    BY <1>1, <1>2, SubSeqEmpty
  <2>2. QED
    BY <2>1, CutEmpty
<1>3. CASE n # 0
  <2>1. \A i \in 1..n : old[i] \in Packet
    OBVIOUS
  <2>2. /\ Len(new) = IF 1 <= n THEN n - 1 + 1 ELSE 0
        /\ \A i \in 1..(n - 1 + 1) : new[i] = old[1 + i - 1]
    BY <1>1, <2>1, SubSeqProperties
  <2>3. Len(new) = n /\ n <= Len(old)
    BY <1>3, <2>2
  <2>4. Shifted(new, old, 0) /\ 0 \in Nat
    <3>1. ASSUME NEW i \in 1..n PROVE i + 0 \in 1..Len(old) /\ new[i] = old[i + 0]
      BY <2>2
    <3>2. QED
      BY <2>3, <3>1 DEF Shifted
  <2>5. QED
    BY <2>3, <2>4 DEF Cut
<1>4. QED
  BY <1>2, <1>3

\* Cutting wires keeps the queues in order.
LEMMA CutQueued ==
  ASSUME TypeOK, TypeOK', Queued, \A c \in Connections : Cut(wire'[c], wire[c]),
         clock' = clock, opened' = opened, \A b \in Boots : hazard'[b] <= clock,
         \A c \in Connections : (hello'[c] = hello[c] /\ acked'[c] = acked[c]) \/ (hello'[c] # 0 /\ c <= opened),
         conn' = conn \/ conn' = 0, edge' = "open" => acked'[conn']
  PROVE  Queued'
<1>1. ASSUME NEW c \in Connections
      PROVE  /\ Len(wire'[c]) \in Nat /\ Len(wire[c]) \in Nat /\ Len(wire'[c]) <= Len(wire[c])
             /\ \E k \in Nat : \A i \in 1..Len(wire'[c]) : i + k \in 1..Len(wire[c]) /\ wire'[c][i] = wire[c][i + k]
  <2>1. wire'[c] \in Seq(Packet) /\ wire[c] \in Seq(Packet)
    BY DEF TypeOK
  <2>2. Len(wire'[c]) \in Nat /\ Len(wire[c]) \in Nat
    BY <2>1, LenProperties
  <2>3. Cut(wire'[c], wire[c])
    OBVIOUS
  <2>4. Len(wire'[c]) <= Len(wire[c]) /\ \E k \in Nat : Shifted(wire'[c], wire[c], k)
    BY <2>3 DEF Cut
  <2>5. QED
    BY <2>2, <2>4 DEF Shifted
<1>2. Ordered'
  <2> SUFFICES ASSUME NEW c \in Connections, NEW i \in 1..Len(wire'[c]), NEW j \in 1..Len(wire'[c]), i < j
               PROVE  wire'[c][i].sequence < wire'[c][j].sequence
    BY DEF Ordered
  <2>1. PICK k \in Nat : \A n \in 1..Len(wire'[c]) : n + k \in 1..Len(wire[c]) /\ wire'[c][n] = wire[c][n + k]
    BY <1>1
  <2>2. i + k \in 1..Len(wire[c]) /\ j + k \in 1..Len(wire[c]) /\ wire'[c][i] = wire[c][i + k] /\ wire'[c][j] = wire[c][j + k]
    BY <2>1
  <2>3. i + k < j + k
    BY <1>1
  <2>4. QED
    BY <2>2, <2>3 DEF Queued, Ordered
<1>3. NewerBehind'
  <2> SUFFICES ASSUME NEW c \in Connections, NEW d \in Connections, c < d,
                      NEW i \in 1..Len(wire'[c]), NEW j \in 1..Len(wire'[d]), wire'[d][j].type # "HELLO"
               PROVE  wire'[c][i].sequence < wire'[d][j].sequence
    BY DEF NewerBehind
  <2>1. PICK m \in 1..Len(wire[c]) : wire'[c][i] = wire[c][m]
    BY <1>1
  <2>2. PICK n \in 1..Len(wire[d]) : wire'[d][j] = wire[d][n]
    BY <1>1
  <2>3. QED
    BY <2>1, <2>2 DEF Queued, NewerBehind
<1>4. RaisedBefore'
  <2>1. ASSUME NEW c \in Connections, NEW i \in 1..Len(wire'[c]) PROVE wire'[c][i].sequence <= clock'
    <3>1. PICK m \in 1..Len(wire[c]) : wire'[c][i] = wire[c][m]
      BY <1>1
    <3>2. QED
      BY <3>1 DEF Queued, RaisedBefore
  <2>2. QED
    BY <2>1 DEF RaisedBefore
<1>5. LastOpened'
  <2>1. ASSUME NEW c \in Connections, c > opened PROVE wire'[c] = << >>
    <3>1. wire[c] = << >> /\ wire'[c] \in Seq(Packet)
      BY <2>1 DEF Queued, LastOpened, TypeOK
    <3>2. Len(wire'[c]) = 0
      BY <1>1, <3>1
    <3>3. QED
      BY <3>1, <3>2, EmptySeq
  <2>2. ASSUME NEW c \in Connections, c > opened PROVE hello'[c] = 0
    <3>1. c \in Nat /\ opened \in Nat
      BY DEF TypeOK, Connections
    <3>2. ~(c <= opened) /\ hello[c] = 0
      BY <2>2, <3>1 DEF Queued, LastOpened
    <3>3. QED
      BY <3>2
  <2>3. QED
    BY <2>1, <2>2 DEF Queued, LastOpened
<1>6. Ungreeted'
  <2>1. ASSUME NEW c \in Connections, hello'[c] = 0
        PROVE  ~acked'[c] /\ Len(wire'[c]) <= 1 /\ \A i \in 1..Len(wire'[c]) : wire'[c][i].type = "HELLO"
    <3>1. /\ ~acked'[c] /\ Len(wire[c]) <= 1
          /\ \A i \in 1..Len(wire[c]) : wire[c][i].type = "HELLO"
      BY <2>1 DEF Queued, Ungreeted
    <3>2. Len(wire'[c]) <= 1
      BY <1>1, <3>1
    <3>3. ASSUME NEW i \in 1..Len(wire'[c]) PROVE wire'[c][i].type = "HELLO"
      <4>1. PICK m \in 1..Len(wire[c]) : wire'[c][i] = wire[c][m]
        BY <1>1
      <4>2. QED
        BY <3>1, <4>1
    <3>4. QED
      BY <3>1, <3>2, <3>3
  <2>2. QED
    BY <2>1 DEF Ungreeted
<1>7. QED
  BY <1>2, <1>3, <1>4, <1>5, <1>6 DEF Queued

\* So it does what the registered connection has left to deliver.
LEMMA CutCurrent ==
  ASSUME TypeOK, TypeOK', Current, \A c \in Connections : Cut(wire'[c], wire[c]),
         UNCHANGED <<hello, hazard>>, registry' = registry \/ registry' = 0
  PROVE  Current'
<1> SUFFICES ASSUME registry' # 0 PROVE Current'
  BY DEF Current
<1> DEFINE r == registry
<1>1. registry' = r /\ r \in Connections /\ r # 0
  BY DEF TypeOK, Connections
<1>2. wire'[r] \in Seq(Packet) /\ wire[r] \in Seq(Packet) /\ Cut(wire'[r], wire[r])
  BY <1>1 DEF TypeOK
<1>3. ASSUME NEW b \in Boots, NEW i \in 1..Len(wire'[r]), wire'[r][i].type # "HELLO"
      PROVE  hazard[b] <= wire'[r][i].sequence
  <2>1. PICK m \in 1..Len(wire[r]) : wire'[r][i] = wire[r][m]
    BY <1>2 DEF Cut, Shifted
  <2>2. QED
    BY <1>1, <1>3, <2>1 DEF Current
<1>4. wire[r] = << >> => wire'[r] = << >>
  <2>1. wire[r] = << >> => Len(wire'[r]) = 0
    BY <1>2 DEF Cut
  <2>2. QED
    BY <1>2, <2>1, EmptySeq
<1>5. QED
  BY <1>1, <1>3, <1>4 DEF Current

\* A step that leaves clock and incidents alone and at most cuts wires.
LEMMA CutStep ==
  ASSUME TypeOK, TypeOK', Queued, Current, \A c \in Connections : Cut(wire'[c], wire[c]),
         UNCHANGED <<clock, opened, hello, hazard, acked>>,
         conn' = conn \/ conn' = 0, edge' = "open" => acked[conn'], registry' = registry \/ registry' = 0
  PROVE  Queued' /\ Current'
<1>1. \A b \in Boots : hazard'[b] <= clock
  BY DEF Queued, RaisedBefore
<1>2. Queued'
  <2>1. \A c \in Connections : hello'[c] = hello[c] /\ acked'[c] = acked[c]
    OBVIOUS
  <2>2. edge' = "open" => acked'[conn']
    OBVIOUS
  <2>3. clock' = clock /\ opened' = opened
    OBVIOUS
  <2>4. QED
    BY <1>1, <2>1, <2>2, <2>3, CutQueued
<1>3. Current'
  BY CutCurrent
<1>4. QED
  BY <1>2, <1>3

\* A step that also leaves the wires alone.
LEMMA StillStep ==
  ASSUME TypeOK, TypeOK', Queued, Current,
         UNCHANGED <<wire, clock, opened, hello, hazard, acked, conn, registry>>,
         edge' = edge \/ (edge' = "open" /\ acked[conn])
  PROVE  Queued' /\ Current'
<1>1. \A c \in Connections : wire[c] \in Seq(Packet)
  BY DEF TypeOK
<1>2. \A c \in Connections : Cut(wire'[c], wire[c])
  BY <1>1, CutSame
<1>3. edge' = "open" => acked[conn']
  BY DEF Queued, Ungreeted
<1>4. QED
  BY <1>2, <1>3, CutStep

\* close() cuts the wire of the connection that was in use.
LEMMA AbandonCuts ==
  ASSUME TypeOK, conn # 0, Abandon
  PROVE  \A c \in Connections : Cut(wire'[c], wire[c])
<1> SUFFICES ASSUME NEW c \in Connections PROVE Cut(wire'[c], wire[c])
  OBVIOUS
<1>1. wire[c] \in Seq(Packet) /\ conn \in Connections
  BY ConnIsOpened DEF TypeOK
<1>2. CASE wire'[c] = wire[c]
  BY <1>1, <1>2, CutSame
<1>3. CASE wire'[c] # wire[c]
  <2>1. PICK sent \in Prefixes(wire[conn]) : wire' = [wire EXCEPT ![conn] = sent]
    BY <1>3 DEF Abandon
  <2>2. c = conn /\ wire'[c] = sent
    BY <1>3, <2>1 DEF TypeOK
  <2>3. QED
    BY <1>1, <2>1, <2>2, CutPrefix
<1>4. QED
  BY <1>2, <1>3

\* A handler that takes the first packet, or drops what is left, cuts its wire.
LEMMA TakeCuts ==
  ASSUME TypeOK, NEW c \in Connections,
         \/ wire' = [wire EXCEPT ![c] = << >>]
         \/ (wire[c] # << >> /\ wire' = [wire EXCEPT ![c] = Tail(@)])
  PROVE  \A d \in Connections : Cut(wire'[d], wire[d])
<1> SUFFICES ASSUME NEW d \in Connections PROVE Cut(wire'[d], wire[d])
  OBVIOUS
<1>1. wire[d] \in Seq(Packet)
  BY DEF TypeOK
<1>2. CASE d # c
  <2>1. wire'[d] = wire[d]
    BY <1>2 DEF TypeOK
  <2>2. QED
    BY <1>1, <2>1, CutSame
<1>3. CASE d = c
  <2>1. wire'[d] = << >> \/ (wire[d] # << >> /\ wire'[d] = Tail(wire[d]))
    <3>1. wire \in [Connections -> Seq(Packet)]
      BY DEF TypeOK
    <3>2. CASE wire' = [wire EXCEPT ![c] = << >>]
      <4>1. wire'[c] = << >>
        BY <3>1, <3>2
      <4>2. QED
        BY <1>3, <4>1
    <3>3. CASE wire[c] # << >> /\ wire' = [wire EXCEPT ![c] = Tail(wire[c])]
      BY <1>3, <3>1, <3>3
    <3>4. QED
      BY <3>2, <3>3
  <2>2. QED
    BY <1>1, <2>1, CutEmpty, CutTail
<1>4. QED
  BY <1>2, <1>3

LEMMA ConnectQueued ==
  ASSUME TypeOK, TypeOK', Queued, Current, Connect
  PROVE  Queued' /\ Current'
<1> DEFINE n == opened + 1
<1> DEFINE p == [type |-> "HELLO", boot |-> boot, sequence |-> clock]
<1>1. /\ n \in Connections /\ opened \in Nat /\ clock \in Nat
      /\ \A c \in Connections : c \in Nat
  BY DEF Connect, TypeOK, Connections
<1>2. /\ opened' = n /\ conn' = n /\ edge' = "greeting" /\ wire' = [wire EXCEPT ![n] = <<p>>]
      /\ UNCHANGED <<clock, hello, acked, hazard, registry>>
  BY DEF Connect, deviceVars, storeVars
<1>3. wire[n] = << >> /\ hello[n] = 0
  BY <1>1 DEF Queued, LastOpened
<1>4. wire'[n] = <<p>> /\ \A c \in Connections \ {n} : wire'[c] = wire[c]
  BY <1>1, <1>2 DEF TypeOK
<1>5. \A i \in 1..Len(wire'[n]) : i = 1 /\ wire'[n][i] = p
  BY <1>4
<1>0. Len(wire'[n]) = 1
  BY <1>4
<1>6. p.type = "HELLO" /\ p.sequence = clock
  OBVIOUS
<1>7. \A c \in Connections : c > n => wire[c] = << >> /\ hello[c] = 0 /\ c # n
  BY <1>1 DEF Queued, LastOpened
<1> HIDE DEF n, p
<1>8. Ordered'
  <2> SUFFICES ASSUME NEW c \in Connections, NEW i \in 1..Len(wire'[c]), NEW j \in 1..Len(wire'[c]), i < j
               PROVE  wire'[c][i].sequence < wire'[c][j].sequence
    BY DEF Ordered
  <2>1. c # n
    <3>1. c = n => i = 1 /\ j = 1
      BY <1>5
    <3>2. QED
      BY <3>1
  <2>2. QED
    BY <1>4, <2>1 DEF Queued, Ordered
<1>9. NewerBehind'
  <2> SUFFICES ASSUME NEW c \in Connections, NEW d \in Connections, c < d,
                      NEW i \in 1..Len(wire'[c]), NEW j \in 1..Len(wire'[d]), wire'[d][j].type # "HELLO"
               PROVE  wire'[c][i].sequence < wire'[d][j].sequence
    BY DEF NewerBehind
  <2>1. d # n
    BY <1>5, <1>6
  <2>2. c # n
    <3>1. ASSUME d > n PROVE FALSE
      <4>1. wire'[d] = << >>
        BY <1>4, <1>7, <2>1, <3>1
      <4>2. Len(<< >>) = 0 /\ 1..0 = {}
        OBVIOUS
      <4>3. QED
        BY <4>1, <4>2
    <3>2. QED
      BY <1>1, <3>1
  <2>3. QED
    BY <1>4, <2>1, <2>2 DEF Queued, NewerBehind
<1>10. RaisedBefore'
  <2>1. ASSUME NEW c \in Connections, NEW i \in 1..Len(wire'[c]) PROVE wire'[c][i].sequence <= clock
    <3>1. CASE c = n
      BY <1>1, <1>5, <1>6, <3>1
    <3>2. CASE c # n
      BY <1>4, <3>2 DEF Queued, RaisedBefore
    <3>3. QED
      BY <3>1, <3>2
  <2>2. QED
    BY <1>2, <2>1 DEF Queued, RaisedBefore
<1>11. LastOpened'
  BY <1>2, <1>4, <1>7 DEF LastOpened
<1>12. Ungreeted'
  <2>1. ASSUME NEW c \in Connections, hello[c] = 0
        PROVE  ~acked[c] /\ Len(wire'[c]) <= 1 /\ \A i \in 1..Len(wire'[c]) : wire'[c][i].type = "HELLO"
    <3>1. ~acked[c] /\ Len(wire[c]) <= 1 /\ \A i \in 1..Len(wire[c]) : wire[c][i].type = "HELLO"
      BY <2>1 DEF Queued, Ungreeted
    <3>2. CASE c = n
      <4>1. \A i \in 1..Len(wire'[c]) : wire'[c][i].type = "HELLO"
        BY <1>5, <1>6, <3>2
      <4>2. Len(wire'[c]) <= 1
        <5>1. Len(wire'[c]) = 1 /\ 1 <= 1
          BY <1>0, <3>2
        <5>2. QED
          BY <5>1
      <4>3. QED
        BY <3>1, <4>1, <4>2
    <3>3. CASE c # n
      BY <1>4, <3>1, <3>3
    <3>4. QED
      BY <3>2, <3>3
  <2>2. QED
    BY <1>2, <2>1 DEF Ungreeted
<1>13. Current'
  <2> SUFFICES ASSUME registry # 0 PROVE Current'
    BY <1>2 DEF Current
  <2>1. registry \in Connections /\ registry # n
    <3>1. registry \in Connections
      BY DEF TypeOK, Connections
    <3>2. hello[registry] # 0
      BY DEF Current
    <3>3. QED
      BY <1>3, <3>1, <3>2
  <2>2. wire'[registry] = wire[registry]
    BY <1>4, <2>1
  <2>3. QED
    BY <1>2, <2>2 DEF Current
<1>14. QED
  BY <1>8, <1>9, <1>10, <1>11, <1>12, <1>13 DEF Queued

LEMMA SendQueued ==
  ASSUME TypeOK, TypeOK', Queued, Current,
         NEW type \in {"INCIDENT_UPDATE", "INCIDENT_TIMELINE_EVENT"}, Send(type)
  PROVE  Queued' /\ Current'
<1> DEFINE p == [type |-> type, boot |-> boot, sequence |-> clock + 1]
<1>1. /\ opened \in Nat /\ clock \in Nat /\ \A c \in Connections : c \in Nat
      /\ \A c \in Connections : \A i \in 1..Len(wire[c]) : wire[c][i].sequence \in Nat
      /\ \A b \in Boots : hazard[b] \in Nat
  <2>1. opened \in Nat /\ clock \in Nat /\ \A c \in Connections : c \in Nat
    BY DEF TypeOK, Connections
  <2>2. ASSUME NEW c \in Connections, NEW i \in 1..Len(wire[c]) PROVE wire[c][i].sequence \in Nat
    <3>1. wire[c] \in Seq(Packet)
      BY DEF TypeOK
    <3>2. wire[c][i] \in Packet
      BY <3>1
    <3>3. QED
      BY <3>2 DEF Packet
  <2>3. \A b \in Boots : hazard[b] \in Nat
    BY DEF TypeOK
  <2>4. QED
    BY <2>1, <2>2, <2>3
<1>2. /\ clock' = clock + 1 /\ conn' = conn /\ opened' = opened /\ edge' = edge
      /\ acked' = acked /\ hello' = hello /\ hazard' = hazard /\ registry' = registry
  BY DEF Send, edgeVars, handlerVars, deviceVars, storeVars
<1>3. CASE ~(conn # 0 /\ Reads(conn))
  <2>1. wire' = wire
    BY <1>3 DEF Send
  <2>2. RaisedBefore'
    <3>1. ASSUME NEW c \in Connections, NEW i \in 1..Len(wire[c]) PROVE wire[c][i].sequence <= clock + 1
      <4>1. wire[c][i].sequence <= clock
        BY DEF Queued, RaisedBefore
      <4>2. QED
        BY <1>1, <4>1
    <3>2. ASSUME NEW b \in Boots PROVE hazard[b] <= clock + 1
      <4>1. hazard[b] <= clock
        BY DEF Queued, RaisedBefore
      <4>2. QED
        BY <1>1, <4>1
    <3>3. QED
      BY <1>2, <2>1, <3>1, <3>2 DEF RaisedBefore
  <2>3. Ordered' /\ NewerBehind' /\ LastOpened' /\ Ungreeted'
    BY <1>2, <2>1 DEF Queued, Ordered, NewerBehind, LastOpened, Ungreeted
  <2>4. Current'
    BY <1>2, <2>1 DEF Current
  <2>5. QED
    BY <2>2, <2>3, <2>4 DEF Queued
<1>4. CASE conn # 0 /\ Reads(conn)
  <2>1. conn \in Connections /\ conn = opened
    BY <1>4, ConnIsOpened DEF Queued, LastOpened
  <2>2. acked[conn] /\ hello[conn] # 0
    <3>1. edge = "open"
      BY <1>4 DEF Send, TypeOK
    <3>2. acked[conn]
      BY <3>1 DEF Queued, Ungreeted
    <3>3. QED
      BY <2>1, <3>2 DEF Queued, Ungreeted
  <2>3. wire' = [wire EXCEPT ![conn] = Append(wire[conn], p)]
    BY <1>4 DEF Send
  <2>4. wire'[conn] = Append(wire[conn], p) /\ \A c \in Connections \ {conn} : wire'[c] = wire[c]
    BY <2>1, <2>3 DEF TypeOK
  <2>5. p.type # "HELLO" /\ p.sequence = clock + 1
    OBVIOUS
  <2> PICK l \in Nat : l = Len(wire[conn])
    <3>1. wire[conn] \in Seq(Packet)
      BY <2>1 DEF TypeOK
    <3>2. QED
      BY <3>1, LenProperties
  <2> HIDE DEF p
  <2>6. /\ Len(wire'[conn]) = l + 1 /\ wire'[conn][l + 1] = p
        /\ \A i \in 1..l : wire'[conn][i] = wire[conn][i]
    <3>1. wire[conn] \in Seq(Packet)
      BY <2>1 DEF TypeOK
    <3>2. QED
      BY <2>4, <3>1
  \* A packet is one that was there, or the new one behind them all.
  <2>7. ASSUME NEW c \in Connections, NEW i \in 1..Len(wire'[c])
        PROVE  \/ (i \in 1..Len(wire[c]) /\ wire'[c][i] = wire[c][i])
               \/ (c = conn /\ i = l + 1 /\ wire'[c][i] = p)
    <3>1. CASE c = conn
      <4>1. i \in 1..(l + 1)
        BY <2>6, <3>1
      <4>2. i \in 1..l \/ i = l + 1
        BY <4>1
      <4>3. QED
        BY <2>6, <3>1, <4>2
    <3>2. CASE c # conn
      BY <2>4, <3>2
    <3>3. QED
      BY <3>1, <3>2
  <2>8. \A c \in Connections : c > opened => wire[c] = << >> /\ hello[c] = 0 /\ c # conn
    BY <1>1, <2>1 DEF Queued, LastOpened
  <2>9. \A c \in Connections : \A i \in 1..Len(wire[c]) : wire[c][i].sequence < clock + 1
    <3>1. ASSUME NEW c \in Connections, NEW i \in 1..Len(wire[c]) PROVE wire[c][i].sequence < clock + 1
      <4>1. wire[c][i].sequence <= clock
        BY DEF Queued, RaisedBefore
      <4>2. QED
        BY <1>1, <4>1
    <3>2. QED
      BY <3>1
  <2>10. Ordered'
    <3> SUFFICES ASSUME NEW c \in Connections, NEW i \in 1..Len(wire'[c]), NEW j \in 1..Len(wire'[c]), i < j
                 PROVE  wire'[c][i].sequence < wire'[c][j].sequence
      BY DEF Ordered
    <3>1. CASE j \in 1..Len(wire[c]) /\ wire'[c][j] = wire[c][j]
      <4>1. ~(c = conn /\ i = l + 1)
        <5>1. c = conn => j \in 1..l
          BY <3>1
        <5>2. QED
          BY <5>1
      <4>2. i \in 1..Len(wire[c]) /\ wire'[c][i] = wire[c][i]
        BY <2>7, <4>1
      <4>3. QED
        BY <3>1, <4>2 DEF Queued, Ordered
    <3>2. CASE c = conn /\ j = l + 1 /\ wire'[c][j] = p
      <4>1. i # l + 1
        BY <3>2
      <4>2. i \in 1..Len(wire[c]) /\ wire'[c][i] = wire[c][i]
        BY <2>7, <4>1
      <4>3. QED
        BY <2>5, <2>9, <3>2, <4>2
    <3>3. QED
      BY <2>7, <3>1, <3>2
  <2>11. NewerBehind'
    <3> SUFFICES ASSUME NEW c \in Connections, NEW d \in Connections, c < d,
                        NEW i \in 1..Len(wire'[c]), NEW j \in 1..Len(wire'[d]), wire'[d][j].type # "HELLO"
                 PROVE  wire'[c][i].sequence < wire'[d][j].sequence
      BY DEF NewerBehind
    <3>1. c # conn
      <4>1. ASSUME d > opened PROVE FALSE
        <5>1. wire'[d] = << >>
          BY <2>4, <2>8, <4>1
        <5>2. Len(<< >>) = 0 /\ 1..0 = {}
          OBVIOUS
        <5>3. QED
          BY <5>1, <5>2
      <4>2. QED
        BY <1>1, <2>1, <4>1
    <3>2. i \in 1..Len(wire[c]) /\ wire'[c][i] = wire[c][i]
      BY <2>7, <3>1
    <3>3. CASE j \in 1..Len(wire[d]) /\ wire'[d][j] = wire[d][j]
      BY <3>2, <3>3 DEF Queued, NewerBehind
    <3>4. CASE wire'[d][j] = p
      BY <2>5, <2>9, <3>2, <3>4
    <3>5. QED
      BY <2>7, <3>3, <3>4
  <2>12. RaisedBefore'
    <3>1. ASSUME NEW c \in Connections, NEW i \in 1..Len(wire'[c]) PROVE wire'[c][i].sequence <= clock + 1
      <4>1. CASE i \in 1..Len(wire[c]) /\ wire'[c][i] = wire[c][i]
        <5>1. wire[c][i].sequence \in Nat /\ wire[c][i].sequence < clock + 1
          BY <1>1, <2>9, <4>1
        <5>2. QED
          BY <1>1, <4>1, <5>1
      <4>2. CASE wire'[c][i] = p
        BY <1>1, <2>5, <4>2
      <4>3. QED
        BY <2>7, <4>1, <4>2
    <3>2. ASSUME NEW b \in Boots PROVE hazard[b] <= clock + 1
      <4>1. hazard[b] <= clock
        BY DEF Queued, RaisedBefore
      <4>2. QED
        BY <1>1, <4>1
    <3>3. QED
      BY <1>2, <3>1, <3>2 DEF RaisedBefore
  <2>13. LastOpened'
    <3>1. \A c \in Connections : c > opened => wire'[c] = << >> /\ hello[c] = 0
      BY <2>4, <2>8
    <3>2. QED
      BY <1>2, <2>1, <3>1 DEF LastOpened
  <2>14. Ungreeted'
    <3>1. ASSUME NEW c \in Connections, hello[c] = 0 PROVE wire'[c] = wire[c]
      BY <2>2, <2>4, <3>1
    <3>2. QED
      BY <1>2, <3>1 DEF Queued, Ungreeted
  <2>15. Current'
    <3> SUFFICES ASSUME registry # 0 PROVE Current'
      BY <1>2 DEF Current
    <3>1. registry \in Connections
      BY DEF TypeOK, Connections
    <3>2. ASSUME NEW b \in Boots, NEW i \in 1..Len(wire'[registry]), wire'[registry][i].type # "HELLO"
          PROVE  hazard[b] <= wire'[registry][i].sequence
      <4>1. CASE i \in 1..Len(wire[registry]) /\ wire'[registry][i] = wire[registry][i]
        BY <3>2, <4>1 DEF Current
      <4>2. CASE wire'[registry][i] = p
        <5>1. hazard[b] <= clock
          BY DEF Queued, RaisedBefore
        <5>2. hazard[b] <= clock + 1
          BY <1>1, <5>1
        <5>3. QED
          BY <2>5, <4>2, <5>2
      <4>3. QED
        BY <2>7, <3>1, <4>1, <4>2
    <3>3. ASSUME NEW c \in Connections, c > registry, hello[c] # 0 PROVE wire'[registry] = << >>
      <4>1. wire[registry] = << >>
        BY <3>3 DEF Current
      <4>2. registry # conn
        BY <2>1, <2>8, <3>3
      <4>3. QED
        BY <2>4, <3>1, <4>1, <4>2
    <3>4. QED
      BY <1>2, <3>2, <3>3 DEF Current
  <2>16. QED
    BY <2>10, <2>11, <2>12, <2>13, <2>14, <2>15 DEF Queued
<1>5. QED
  BY <1>3, <1>4

LEMMA HelloQueued ==
  ASSUME TypeOK, TypeOK', LinkInv, Queued, Current, NEW c \in Connections, Hello(c)
  PROVE  Queued' /\ Current'
<1>1. /\ handler[c] = "reading" /\ hello[c] = 0 /\ wire[c] # << >> /\ registry' = c
      /\ hello' = [hello EXCEPT ![c] = Packet1(c).boot] /\ acked' = [acked EXCEPT ![c] = TRUE]
      /\ clock' = clock /\ opened' = opened /\ conn' = conn /\ edge' = edge /\ hazard' = hazard
  BY DEF Hello, edgeVars, storeVars
<1>2. hello'[c] # 0 /\ \A d \in Connections \ {c} : hello'[d] = hello[d] /\ acked'[d] = acked[d]
  <2>1. Packet1(c).boot \in Boots
    BY <1>1, TakeType
  <2>2. Packet1(c).boot # 0
    BY <2>1 DEF Boots
  <2>3. hello \in [Connections -> 0..MaxBoot] /\ acked \in [Connections -> BOOLEAN]
    BY DEF TypeOK
  <2>4. QED
    BY <1>1, <2>2, <2>3
<1>3. c <= opened
  <2>1. c \in Nat /\ opened \in Nat
    BY DEF TypeOK, Connections
  <2>2. ~(c > opened)
    BY <1>1 DEF LinkInv
  <2>3. QED
    BY <2>1, <2>2
<1>4. registry # c
  BY <1>1 DEF LinkInv, Live
<1>5. /\ wire'[c] = Tail(wire[c])
      /\ \A d \in Connections \ {c, registry} : wire'[d] = wire[d]
      /\ registry # 0 => wire'[registry] \in Prefixes(wire[registry])
  <2>1. wire \in [Connections -> Seq(Packet)]
    BY DEF TypeOK
  <2>2. CASE registry = 0
    BY <2>1, <2>2 DEF Hello
  <2>3. CASE registry # 0
    <3>1. registry \in Connections
      BY <2>3 DEF TypeOK, Connections
    <3>2. PICK read \in Prefixes(wire[registry]) :
            wire' = [wire EXCEPT ![c] = Tail(wire[c]), ![registry] = read]
      BY <2>3 DEF Hello
    <3>3. QED
      BY <1>4, <2>1, <3>1, <3>2
  <2>4. QED
    BY <2>2, <2>3
<1>6. ASSUME NEW d \in Connections PROVE Cut(wire'[d], wire[d])
  <2>1. wire[d] \in Seq(Packet)
    BY DEF TypeOK
  <2>2. CASE d = c
    BY <1>1, <1>5, <2>1, <2>2, CutTail
  <2>3. CASE d = registry
    <3>1. registry # 0
      BY <2>3 DEF Connections
    <3>2. QED
      BY <1>5, <2>1, <2>3, <3>1, CutPrefix
  <2>4. CASE d \notin {c, registry}
    BY <1>5, <2>1, <2>4, CutSame
  <2>5. QED
    BY <2>2, <2>3, <2>4
<1>7. Queued'
  <2>1. \A b \in Boots : hazard'[b] <= clock
    BY <1>1 DEF Queued, RaisedBefore
  <2>2. \A d \in Connections : (hello'[d] = hello[d] /\ acked'[d] = acked[d]) \/ (hello'[d] # 0 /\ d <= opened)
    BY <1>2, <1>3
  <2>3. edge' = "open" => acked'[conn']
    <3>1. acked \in [Connections -> BOOLEAN]
      BY DEF TypeOK
    <3>2. edge = "open" => acked[conn]
      BY DEF Queued, Ungreeted
    <3>3. edge = "open" => conn \in Connections
      BY ConnIsOpened DEF TypeOK
    <3>4. QED
      BY <1>1, <3>1, <3>2, <3>3
  <2>4. QED
    BY <1>1, <1>6, <2>1, <2>2, <2>3, CutQueued
<1>8. wire'[c] = << >>
  <2>1. wire[c] \in Seq(Packet) /\ Len(wire[c]) <= 1
    BY <1>1 DEF TypeOK, Queued, Ungreeted
  <2> PICK l \in Nat : l = Len(wire[c])
    BY <2>1, LenProperties
  <2>2. l = 1
    <3>1. l <= 1
      BY <2>1
    <3>2. l # 0
      BY <1>1, <2>1, EmptySeq
    <3>3. QED
      BY ONLY <3>1, <3>2, l \in Nat
  <2>3. Tail(wire[c]) \in Seq(Packet) /\ Len(Tail(wire[c])) = l - 1
    BY <1>1, <2>1, HeadTailProperties
  <2>4. Len(Tail(wire[c])) = 0
    <3>1. l - 1 = 0
      BY <2>2
    <3>2. QED
      BY <2>3, <3>1
  <2>5. QED
    BY <1>5, <2>3, <2>4, EmptySeq
<1>9. Current'
  <2>1. Len(<< >>) = 0 /\ 1..0 = {}
    OBVIOUS
  <2>2. \A i \in 1..Len(wire'[c]) : FALSE
    BY <1>8, <2>1
  <2>3. QED
    BY <1>1, <1>2, <1>8, <2>2 DEF Current
<1>10. QED
  BY <1>7, <1>9

LEMMA PacketNumbers ==
  ASSUME TypeOK'
  PROVE  /\ \A b \in Boots : hazard'[b] \in Nat
         /\ \A c \in Connections : \A i \in 1..Len(wire'[c]) : wire'[c][i].sequence \in Nat
<1>1. \A b \in Boots : hazard'[b] \in Nat
  BY DEF TypeOK
<1>2. ASSUME NEW c \in Connections, NEW i \in 1..Len(wire'[c]) PROVE wire'[c][i].sequence \in Nat
  <2>1. wire'[c] \in Seq(Packet)
    BY DEF TypeOK
  <2>2. wire'[c][i] \in Packet
    BY <2>1
  <2>3. QED
    BY <2>2 DEF Packet
<1>3. QED
  BY <1>1, <1>2

LEMMA UpdateQueued ==
  ASSUME TypeOK, TypeOK', Queued, Current, NEW c \in Connections, IncidentUpdate(c)
  PROVE  Queued' /\ Current'
<1> DEFINE p == wire[c][1]
<1>1. /\ wire[c] # << >> /\ wire' = [wire EXCEPT ![c] = Tail(wire[c])] /\ Packet1(c).type = "INCIDENT_UPDATE"
      /\ clock' = clock /\ opened' = opened /\ conn' = conn /\ edge' = edge
      /\ acked' = acked /\ hello' = hello /\ registry' = registry /\ hello[c] # 0
      /\ hazard' = hazard \/ hazard' = [hazard EXCEPT ![hello[c]] = Packet1(c).sequence]
  BY DEF IncidentUpdate, Dispatches, edgeVars, handlerVars, deviceVars
<1> PICK l \in Nat : l = Len(wire[c])
  <2>1. wire[c] \in Seq(Packet)
    BY DEF TypeOK
  <2>2. QED
    BY <2>1, LenProperties
<1>2. /\ 1 \in 1..l /\ p.type = "INCIDENT_UPDATE" /\ Packet1(c) = p
      /\ Len(wire'[c]) = l - 1 /\ \A i \in 1..(l - 1) : wire'[c][i] = wire[c][i + 1]
      /\ \A d \in Connections \ {c} : wire'[d] = wire[d]
  <2>1. wire \in [Connections -> Seq(Packet)] /\ wire[c] \in Seq(Packet)
    BY DEF TypeOK
  <2>2. wire'[c] = Tail(wire[c]) /\ \A d \in Connections \ {c} : wire'[d] = wire[d]
    BY <1>1, <2>1
  <2>3. /\ l # 0 /\ Head(wire[c]) = wire[c][1]
        /\ Len(Tail(wire[c])) = l - 1 /\ \A i \in 1..(l - 1) : Tail(wire[c])[i] = wire[c][i + 1]
    BY <1>1, <2>1, EmptySeq, HeadTailProperties
  <2>4. 1 \in 1..l
    BY <2>3
  <2>5. QED
    BY <1>1, <2>2, <2>3, <2>4 DEF Packet1
<1>3. \A b \in Boots : hazard'[b] = hazard[b] \/ hazard'[b] = p.sequence
  <2>1. hazard \in [Boots -> 0..MaxClock]
    BY DEF TypeOK
  <2>2. QED
    BY <1>1, <1>2, <2>1
<1> HIDE DEF p
<1>4. \A b \in Boots : hazard'[b] <= clock
  <2>1. p.sequence <= clock /\ \A b \in Boots : hazard[b] <= clock
    BY <1>2 DEF Queued, RaisedBefore, p
  <2>2. QED
    BY <1>3, <2>1
<1>5. \A d \in Connections : Cut(wire'[d], wire[d])
  BY <1>1, TakeCuts
<1>6. Queued'
  <2>1. edge' = "open" => acked'[conn']
    BY <1>1 DEF Queued, Ungreeted
  <2>2. \A d \in Connections : hello'[d] = hello[d] /\ acked'[d] = acked[d]
    BY <1>1
  <2>3. clock' = clock /\ opened' = opened /\ conn' = conn
    BY <1>1
  <2>4. QED
    BY <1>4, <1>5, <2>1, <2>2, <2>3, CutQueued
<1>7. Current'
  <2> SUFFICES ASSUME registry # 0 PROVE Current'
    BY <1>1 DEF Current
  <2> DEFINE r == registry
  <2>1. r \in Connections /\ hello'[r] # 0
    BY <1>1 DEF TypeOK, Connections, Current
  <2>2. wire[r] = << >> => wire'[r] = << >>
    BY <1>1, <1>2, <2>1
  \* What the registered connection has left was there behind the packet, or before it on
  \* the same connection.
  <2>3. ASSUME NEW i \in 1..Len(wire'[r])
        PROVE  \E m \in 1..Len(wire[r]) : wire'[r][i] = wire[r][m] /\ (r = c => 1 < m)
    <3>1. CASE r = c
      <4>1. i \in 1..(l - 1)
        BY <1>2, <3>1
      <4>2. i + 1 \in 1..l /\ 1 < i + 1
        BY <4>1
      <4>3. wire'[r][i] = wire[r][i + 1]
        BY <1>2, <3>1, <4>1
      <4>4. QED
        BY <3>1, <4>2, <4>3
    <3>2. CASE r # c
      BY <1>2, <2>1, <3>2
    <3>3. QED
      BY <3>1, <3>2
  <2>4. ASSUME NEW b \in Boots, NEW i \in 1..Len(wire'[r]), wire'[r][i].type # "HELLO"
        PROVE  hazard'[b] <= wire'[r][i].sequence
    <3>1. PICK m \in 1..Len(wire[r]) : wire'[r][i] = wire[r][m] /\ (r = c => 1 < m)
      BY <2>3
    <3>2. CASE hazard'[b] = hazard[b]
      BY <2>4, <3>1, <3>2 DEF Current
    <3>3. CASE hazard'[b] = p.sequence
      <4>1. CASE r = c
        <5>1. wire[c][1].sequence < wire[c][m].sequence
          BY <1>2, <3>1, <4>1 DEF Queued, Ordered
        <5>2. hazard'[b] < wire'[r][i].sequence
          BY <3>1, <3>3, <4>1, <5>1 DEF p
        <5>3. hazard'[b] \in Nat /\ wire'[r][i].sequence \in Nat
          BY <2>1, PacketNumbers
        <5>4. QED
          BY <5>2, <5>3
      <4>2. CASE c < r
        <5>1. wire[c][1].sequence < wire[r][m].sequence
          BY <1>2, <2>1, <2>4, <3>1, <4>2 DEF Queued, NewerBehind
        <5>2. hazard'[b] < wire'[r][i].sequence
          BY <3>1, <3>3, <5>1 DEF p
        <5>3. hazard'[b] \in Nat /\ wire'[r][i].sequence \in Nat
          BY <2>1, PacketNumbers
        <5>4. QED
          BY <5>2, <5>3
      <4>3. CASE c > r
        <5>1. wire[r] = << >>
          BY <1>1, <4>3 DEF Current
        <5>2. Len(<< >>) = 0 /\ 1..0 = {}
          OBVIOUS
        <5>3. QED
          BY <3>1, <5>1, <5>2
      <4>4. r \in Nat /\ c \in Nat
        BY <2>1 DEF Connections
      <4>5. QED
        BY <4>1, <4>2, <4>3, <4>4
    <3>4. QED
      BY <1>3, <3>2, <3>3
  <2>5. QED
    BY <1>1, <2>1, <2>2, <2>4 DEF Current
<1>8. QED
  BY <1>6, <1>7

LEMMA QueuedInductive ==
  ASSUME TypeOK, TypeOK', LinkInv, Queued, Current, [Next]_vars
  PROVE  Queued' /\ Current'
<1>1. CASE Connect
  BY <1>1, ConnectQueued
<1>2. CASE Open
  BY <1>2, StillStep DEF Open, Acknowledged, deviceVars, storeVars, handlerVars
<1>3. ASSUME conn # 0, Abandon, UNCHANGED <<clock, hello, hazard, acked, registry>>
      PROVE  Queued' /\ Current'
  <2>1. conn' = 0 /\ edge' = "idle" /\ opened' = opened
    BY <1>3 DEF Abandon
  <2>2. \A c \in Connections : Cut(wire'[c], wire[c])
    BY <1>3, AbandonCuts
  <2>3. QED
    BY <1>3, <2>1, <2>2, CutStep
<1>4. CASE Notice
  BY <1>3, <1>4 DEF Notice, handlerVars, deviceVars, storeVars
<1>5. CASE Lose
  BY <1>3, <1>5 DEF Lose, handlerVars, deviceVars, storeVars
<1>6. CASE Crash
  <2>1. CASE conn = 0
    BY <1>6, <2>1, StillStep DEF Crash, handlerVars, deviceVars, storeVars
  <2>2. CASE conn # 0
    BY <1>3, <1>6, <2>2 DEF Crash, handlerVars, deviceVars, storeVars
  <2>3. QED
    BY <2>1, <2>2
<1>7. ASSUME NEW type \in {"INCIDENT_UPDATE", "INCIDENT_TIMELINE_EVENT"}, Send(type)
      PROVE  Queued' /\ Current'
  BY <1>7, SendQueued
<1>8. ASSUME NEW c \in Connections, Hello(c) PROVE Queued' /\ Current'
  BY <1>8, HelloQueued
<1>9. ASSUME NEW c \in Connections, Greeted(c) PROVE Queued' /\ Current'
  BY <1>9, StillStep DEF Greeted, edgeVars, deviceVars, storeVars
<1>10. ASSUME NEW c \in Connections, IncidentUpdate(c) PROVE Queued' /\ Current'
  BY <1>10, UpdateQueued
\* A handler takes a packet that stores no incident, or leaves.
<1>11. ASSUME NEW c \in Connections, \A d \in Connections : Cut(wire'[d], wire[d]),
              UNCHANGED <<edgeVars, clock, hello, hazard, acked>>, registry' = registry \/ registry' = 0
       PROVE  Queued' /\ Current'
  <2>1. UNCHANGED <<opened, conn, edge>>
    BY <1>11 DEF edgeVars
  <2>2. edge' = "open" => acked[conn']
    BY <2>1 DEF Queued, Ungreeted
  <2>3. QED
    BY <1>11, <2>1, <2>2, CutStep
<1>12. ASSUME NEW c \in Connections, TimelineEvent(c) PROVE Queued' /\ Current'
  <2>1. \A d \in Connections : Cut(wire'[d], wire[d])
    BY <1>12, TakeCuts DEF TimelineEvent, Dispatches
  <2>2. UNCHANGED <<edgeVars, clock, hello, hazard, acked, registry>>
    BY <1>12 DEF TimelineEvent, deviceVars
  <2>3. QED
    BY <1>11, <2>1, <2>2
<1>13. ASSUME NEW c \in Connections, Leave(c) PROVE Queued' /\ Current'
  <2>1. \A d \in Connections : Cut(wire'[d], wire[d])
    BY <1>13, TakeCuts DEF Leave
  <2>2. /\ UNCHANGED <<edgeVars, clock, hello, hazard, acked>>
        /\ registry' = registry \/ registry' = 0
    BY <1>13 DEF Leave, Unregister, deviceVars, storeVars
  <2>3. QED
    BY <1>11, <2>1, <2>2
<1>14. ASSUME NEW c \in Connections, Close(c) PROVE Queued' /\ Current'
  BY <1>14, StillStep DEF Close, edgeVars, deviceVars, storeVars
<1>15. CASE Restart
  <2>1. ASSUME NEW c \in Connections PROVE Cut(wire'[c], wire[c])
    <3>1. wire'[c] = << >> /\ wire[c] \in Seq(Packet)
      BY <1>15 DEF Restart, TypeOK
    <3>2. QED
      BY <3>1, CutEmpty
  <2>2. UNCHANGED <<clock, hello, hazard, acked, opened, conn, edge>> /\ registry' = 0
    BY <1>15 DEF Restart, edgeVars, storeVars
  <2>3. edge' = "open" => acked[conn']
    BY <2>2 DEF Queued, Ungreeted
  <2>4. QED
    BY <2>1, <2>2, <2>3, CutStep
<1>16. CASE UNCHANGED vars
  BY <1>16, StillStep DEF vars, edgeVars, handlerVars, deviceVars, storeVars
<1>17. QED
  BY <1>1, <1>2, <1>4, <1>5, <1>6, <1>7, <1>8, <1>9, <1>10, <1>12, <1>13, <1>14, <1>15, <1>16
     DEF Next, Handler

LEMMA QueuedInvariant == Spec => [](Queued /\ Current)
<1>1. Init => Queued /\ Current
  <2> SUFFICES ASSUME Init PROVE Queued /\ Current
    OBVIOUS
  <2>1. \A c \in Connections : wire[c] = << >> /\ Len(wire[c]) = 0 /\ 1..Len(wire[c]) = {}
    BY DEF Init
  <2>2. \A c \in Connections : hello[c] = 0 /\ ~acked[c]
    BY DEF Init
  <2>3. conn = 0 /\ edge = "idle" /\ registry = 0 /\ clock = 0 /\ \A b \in Boots : hazard[b] <= clock
    BY DEF Init
  <2>4. Ordered /\ NewerBehind /\ RaisedBefore
    BY <2>1, <2>3 DEF Ordered, NewerBehind, RaisedBefore
  <2>5. LastOpened /\ Ungreeted
    BY <2>1, <2>2, <2>3 DEF LastOpened, Ungreeted
  <2>6. Current
    BY <2>3 DEF Current
  <2>7. QED
    BY <2>4, <2>5, <2>6 DEF Queued
<1>2. TypeOK /\ TypeOK' /\ LinkInv /\ (Queued /\ Current) /\ [Next]_vars => (Queued /\ Current)'
  BY QueuedInductive
<1>3. QED
  BY <1>1, <1>2, LinkType, LinkInvariant, PTL DEF Spec

\* Only an update takes a stored incident back, and on the registered connection it is not
\* older than what is stored.
LEMMA RegressStep ==
  ASSUME TypeOK, TypeOK', Queued, Current, [Next]_vars, NEW b \in Boots, hazard'[b] < hazard[b]
  PROVE  \E c \in Connections \ {registry} : wire[c]' # wire[c]
<1>1. hazard' # hazard
  <2>1. hazard[b] \in Nat
    BY DEF TypeOK
  <2>2. QED
    BY <2>1
<1>2. PICK c \in Connections : IncidentUpdate(c)
  <2>1. \/ UNCHANGED hazard
        \/ \E c \in Connections : IncidentUpdate(c)
    BY DEF Next, Handler, Connect, Open, Notice, Lose, Crash, Send, Hello, Greeted, TimelineEvent,
           Leave, Close, Restart, vars, storeVars
  <2>2. QED
    BY <1>1, <2>1
<1>3. /\ wire[c] # << >> /\ wire' = [wire EXCEPT ![c] = Tail(wire[c])] /\ Packet1(c).type = "INCIDENT_UPDATE"
      /\ hazard' = [hazard EXCEPT ![hello[c]] = Packet1(c).sequence]
  BY <1>1, <1>2 DEF IncidentUpdate, Dispatches
<1>4. wire \in [Connections -> Seq(Packet)] /\ wire[c] \in Seq(Packet)
  BY DEF TypeOK
<1> PICK l \in Nat : l = Len(wire[c])
  BY <1>4, LenProperties
<1>5. l # 0 /\ Head(wire[c]) = wire[c][1] /\ Len(Tail(wire[c])) = l - 1
  BY <1>3, <1>4, EmptySeq, HeadTailProperties
<1>6. wire[c]' # wire[c]
  <2>1. l - 1 # l
    OBVIOUS
  <2>2. wire'[c] = Tail(wire[c])
    BY <1>3, <1>4
  <2>3. QED
    BY <1>5, <2>1, <2>2
<1>7. c # registry
  <2> SUFFICES ASSUME c = registry PROVE FALSE
    OBVIOUS
  <2>1. registry # 0
    BY DEF Connections
  <2>2. 1 \in 1..Len(wire[c])
    BY <1>5
  <2>3. wire[c][1].type # "HELLO"
    BY <1>3, <1>5 DEF Packet1
  <2>4. hazard[b] <= Packet1(c).sequence
    BY <1>5, <2>1, <2>2, <2>3 DEF Current, Packet1
  <2>5. hazard'[b] = Packet1(c).sequence
    <3>1. hazard \in [Boots -> 0..MaxClock]
      BY DEF TypeOK
    <3>2. hazard'[b] # hazard[b]
      BY <3>1
    <3>3. QED
      BY <1>3, <3>1, <3>2
  <2>6. hazard[b] \in Nat /\ hazard'[b] \in Nat
    BY DEF TypeOK
  <2>7. QED
    BY <2>4, <2>5, <2>6
<1>8. QED
  BY <1>6, <1>7

\* The registered connection never takes a stored incident back to an older update: only what
\* was buffered for a superseded connection does (the backend does not compare the updates).
THEOREM DeliveredInOrder == Spec => RegressOnlyBuffered
<1>1. /\ TypeOK /\ TypeOK' /\ Queued /\ Current /\ [Next]_vars
      => [\A b \in Boots : hazard'[b] < hazard[b] =>
            \E c \in Connections \ {registry} : wire[c]' # wire[c]]_vars
  BY RegressStep
<1>2. QED
  BY <1>1, LinkType, QueuedInvariant, PTL DEF Spec, RegressOnlyBuffered
=============================================================================
