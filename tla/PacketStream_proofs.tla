-------------------------- MODULE PacketStream_proofs --------------------------
(***************************************************************************)
(* Proofs about PacketStream, for every size of header, payload and chunk, *)
(* and any number of packets: the parser is in step with the sender        *)
(* however the stream is cut, a legal stream is not rejected, and what the *)
(* receiver dispatches is what PacketQueue allows.                         *)
(***************************************************************************)
EXTENDS PacketStream, SequenceTheorems, TLAPS

-----------------------------------------------------------------------------
(* The parser in step *)

\* The bytes that are not parsed yet: those in the buffer, then those on the wire.
At(front, back, i) == IF i <= Len(front) THEN front[i] ELSE back[i - Len(front)]

\* The bytes of the n-th packet.
Size(stream, n) == HeaderSize + stream[n].length

LayoutType(front, back, stream, pos, gone) ==
    /\ front \in Seq(Byte) /\ back \in Seq(Byte) /\ stream \in Seq(Packets)
    /\ pos \in [Nat -> Int] /\ gone \in Nat

\* The n-th packet begins with the byte pos[n] of all that were ever sent, of which this many
\* are gone: the packets lie one behind the other, and nothing else.
Laid(front, back, stream, pos, gone) ==
    /\ LayoutType(front, back, stream, pos, gone)
    /\ pos[Len(stream) + 1] = gone + Len(front) + Len(back) + 1
    /\ \A n \in 1..Len(stream) :
         /\ pos[n + 1] = pos[n] + Size(stream, n)
         /\ pos[n + 1] <= gone + Len(front) + Len(back) + 1
    /\ \A n \in 1..Len(stream) : \A p \in 1..Size(stream, n) :
         pos[n] + p - 1 > gone => At(front, back, pos[n] + p - 1 - gone) = [packet |-> n, place |-> p]

\* The first packets are gone, and nothing of the next or the header that was accepted.
Aligned(pos, gone, parsed) ==
    IF expected = 0
    THEN pos[parsed + 1] = gone + 1
    ELSE /\ expected = parsed + 1 /\ pos[expected] + HeaderSize = gone + 1
         /\ sent[expected].damage # "header" /\ sent[expected].length <= MaxPayload

\* Those that are not handled yet are the last of them, and undamaged.
Consecutive(parsed) ==
    /\ Len(packets) <= parsed
    /\ \A k \in 1..Len(packets) :
         packets[k] = parsed - Len(packets) + k /\ sent[packets[k]].damage = "none"

\* The numbers of those that were handled grew only where one was dispatched.
Numbered(handled) ==
    /\ dispatched = << >> <=> handled = 0
    /\ last_sequence = Queue!LastSequence
    /\ Queue!Latest <= handled
    /\ \A m \in (Queue!Latest + 1)..handled : sent[m].sequence <= last_sequence

StreamInv ==
    pc # "closed" =>
        \E pos \in [Nat -> Int], gone \in Nat, parsed \in 0..Len(sent) :
            /\ Laid(buffer, wire, sent, pos, gone) /\ Aligned(pos, gone, parsed)
            /\ Consecutive(parsed) /\ Numbered(parsed - Len(packets))

\* A connection that was rejected is closed, for a packet that is not acceptable.
RejectedInv == rejected => pc = "closed" /\ \E n \in DOMAIN sent : ~Acceptable(n)

-----------------------------------------------------------------------------
(* Cutting and joining *)

LEMMA FirstBytes ==
  ASSUME NEW S, NEW bytes \in Seq(S), NEW n \in 0..Len(bytes)
  PROVE  /\ First(bytes, n) \in Seq(S) /\ Len(First(bytes, n)) = n
         /\ \A i \in 1..n : First(bytes, n)[i] = bytes[i]
<1>1. \A i \in 1..n : bytes[i] \in S
  OBVIOUS
<1>2. n \in Int /\ 1 \in Int /\ n - 1 + 1 = n
  OBVIOUS
<1>3. /\ SubSeq(bytes, 1, n) \in Seq(S)
      /\ Len(SubSeq(bytes, 1, n)) = IF 1 <= n THEN n - 1 + 1 ELSE 0
      /\ \A i \in 1..(n - 1 + 1) : SubSeq(bytes, 1, n)[i] = bytes[1 + i - 1]
  BY <1>1, <1>2, SubSeqProperties
<1>4. Len(SubSeq(bytes, 1, n)) = n
  BY <1>3
<1>5. \A i \in 1..n : SubSeq(bytes, 1, n)[i] = bytes[i]
  BY <1>3
<1>6. QED
  BY <1>3, <1>4, <1>5 DEF First

LEMMA FromBytes ==
  ASSUME NEW S, NEW bytes \in Seq(S), NEW n \in 0..Len(bytes)
  PROVE  /\ From(bytes, n) \in Seq(S) /\ Len(From(bytes, n)) = Len(bytes) - n
         /\ \A i \in 1..(Len(bytes) - n) : From(bytes, n)[i] = bytes[n + i]
<1> PICK last \in Nat : last = Len(bytes)
  OBVIOUS
<1> DEFINE rest == SubSeq(bytes, n + 1, last)
<1>1. n \in 0..last /\ n + 1 \in Int /\ last - (n + 1) + 1 = last - n
  OBVIOUS
<1>2. \A i \in (n + 1)..last : bytes[i] \in S
  OBVIOUS
<1>3. /\ rest \in Seq(S)
      /\ Len(rest) = IF n + 1 <= last THEN last - (n + 1) + 1 ELSE 0
      /\ \A i \in 1..(last - (n + 1) + 1) : rest[i] = bytes[(n + 1) + i - 1]
  BY <1>1, <1>2, SubSeqProperties
<1> HIDE DEF rest
<1>4. Len(rest) = last - n
  BY <1>1, <1>3
<1>5. ASSUME NEW i \in 1..(last - n) PROVE rest[i] = bytes[n + i]
  <2>1. (n + 1) + i - 1 = n + i
    OBVIOUS
  <2>2. QED
    BY <1>1, <1>3, <2>1
<1>6. QED
  BY <1>3, <1>4, <1>5 DEF From, rest

LEMMA BytesMade ==
  ASSUME NEW n \in 1..MaxPackets, NEW first \in Nat \ {0}, NEW last \in Nat, first <= last + 1
  PROVE  /\ Bytes(n, first, last) \in Seq(Byte) /\ Len(Bytes(n, first, last)) = last - first + 1
         /\ \A k \in 1..(last - first + 1) :
              Bytes(n, first, last)[k] = [packet |-> n, place |-> first + k - 1]
<1> DEFINE size == last - first + 1
<1>1. size \in Nat
  OBVIOUS
<1>2. \A k \in 1..size : [packet |-> n, place |-> first + k - 1] \in Byte
  BY DEF Byte
<1>3. Bytes(n, first, last) = [k \in 1..size |-> [packet |-> n, place |-> first + k - 1]]
  BY DEF Bytes
<1>4. Bytes(n, first, last) \in [1..size -> Byte]
  BY <1>2, <1>3
<1>5. Bytes(n, first, last) \in Seq(Byte)
  <2>1. Seq(Byte) = UNION {[1..m -> Byte] : m \in Nat}
    OBVIOUS
  <2>2. QED
    BY <1>1, <1>4, <2>1
<1>6. Len(Bytes(n, first, last)) = size
  <2>1. 1..Len(Bytes(n, first, last)) = 1..size /\ Len(Bytes(n, first, last)) \in Nat
    BY <1>4, <1>5, LenProperties
  <2>2. QED
    BY <1>1, <2>1
<1>7. QED
  BY <1>3, <1>5, <1>6

\* Bytes that are those of a packet are the bytes encode_packet made.
LEMMA BytesAre ==
  ASSUME NEW n \in 1..MaxPackets, NEW first \in Nat \ {0}, NEW last \in Nat, first <= last + 1,
         NEW bytes \in Seq(Byte), Len(bytes) = last - first + 1,
         \A k \in 1..Len(bytes) : bytes[k] = [packet |-> n, place |-> first + k - 1]
  PROVE  bytes = Bytes(n, first, last)
<1>1. /\ Bytes(n, first, last) \in Seq(Byte) /\ Len(Bytes(n, first, last)) = Len(bytes)
      /\ \A k \in 1..Len(bytes) : Bytes(n, first, last)[k] = bytes[k]
  BY BytesMade
<1>2. QED
  BY <1>1, SeqEqual

-----------------------------------------------------------------------------
(* What becomes of the layout *)

LEMMA SizeNat ==
  ASSUME NEW stream \in Seq(Packets), NEW n \in 1..Len(stream)
  PROVE  stream[n].length \in Nat /\ Size(stream, n) \in Nat
<1>1. stream[n] \in Packets
  OBVIOUS
<1>2. stream[n].length \in Nat /\ HeaderSize \in Nat
  BY <1>1, StreamAssumption DEF Packet
<1>3. QED
  BY <1>2 DEF Size

\* Every byte of a packet that is not gone is in the buffer or on the wire.
LEMMA Inside ==
  ASSUME NEW front, NEW back, NEW stream, NEW pos, NEW gone, Laid(front, back, stream, pos, gone),
         NEW n \in 1..Len(stream), NEW p \in 1..Size(stream, n)
  PROVE  /\ pos[n] \in Int /\ p \in Int /\ n + 1 \in Nat /\ pos[n + 1] = pos[n] + Size(stream, n)
         /\ pos[n] + p - 1 <= gone + Len(front) + Len(back)
<1>0. /\ front \in Seq(Byte) /\ back \in Seq(Byte) /\ stream \in Seq(Packets)
      /\ pos \in [Nat -> Int] /\ gone \in Nat
  BY DEF Laid, LayoutType
<1> DEFINE first == pos[n]
           next == pos[n + 1]
<1>1. /\ n \in Nat /\ n + 1 \in Nat /\ p \in Int /\ gone \in Nat
      /\ Len(front) \in Nat /\ Len(back) \in Nat /\ Size(stream, n) \in Nat
  BY <1>0, SizeNat
<1>2. next = first + Size(stream, n) /\ next <= gone + Len(front) + Len(back) + 1
  BY DEF Laid
<1>3. first \in Int /\ next \in Int
  BY <1>0, <1>1
<1> HIDE DEF first, next
<1>4. first + p - 1 <= gone + Len(front) + Len(back)
  BY <1>1, <1>2, <1>3
<1>5. QED
  BY <1>1, <1>2, <1>3, <1>4 DEF first, next

\* Taking bytes from the front leaves the packets where they are.
LEMMA LaidCut ==
  ASSUME NEW front, NEW back, NEW stream, NEW pos, NEW gone, Laid(front, back, stream, pos, gone),
         NEW cut \in 0..Len(front)
  PROVE  gone + cut \in Nat /\ Laid(From(front, cut), back, stream, pos, gone + cut)
<1>0. /\ front \in Seq(Byte) /\ back \in Seq(Byte) /\ stream \in Seq(Packets)
      /\ pos \in [Nat -> Int] /\ gone \in Nat
  BY DEF Laid, LayoutType
<1> DEFINE rest == From(front, cut)
<1>1. rest \in Seq(Byte) /\ Len(rest) = Len(front) - cut /\ \A i \in 1..(Len(front) - cut) : rest[i] = front[cut + i]
  BY <1>0, FromBytes
<1>2. Len(front) \in Nat /\ Len(back) \in Nat /\ cut \in Nat /\ cut <= Len(front) /\ gone \in Nat /\ gone + cut \in Nat
  BY <1>0
<1> HIDE DEF rest
<1>3. (gone + cut) + Len(rest) + Len(back) + 1 = gone + Len(front) + Len(back) + 1
  BY <1>1, <1>2
<1>4. ASSUME NEW i \in 1..(Len(rest) + Len(back)) PROVE At(rest, back, i) = At(front, back, cut + i)
  <2>1. CASE i <= Len(rest)
    <3>1. cut + i <= Len(front) /\ i \in 1..(Len(front) - cut)
      BY <1>1, <1>2, <2>1
    <3>2. QED
      BY <1>1, <2>1, <3>1 DEF At
  <2>2. CASE i > Len(rest)
    <3>1. (cut + i) - Len(front) = i - Len(rest) /\ ~(cut + i <= Len(front)) /\ ~(i <= Len(rest))
      BY <1>1, <1>2, <2>2
    <3>2. QED
      BY <3>1 DEF At
  <2>3. QED
    BY <1>1, <1>2, <2>1, <2>2
<1>5. ASSUME NEW n \in 1..Len(stream), NEW p \in 1..Size(stream, n),
             pos[n] + p - 1 > gone + cut
      PROVE  At(rest, back, pos[n] + p - 1 - (gone + cut)) = [packet |-> n, place |-> p]
  <2> DEFINE first == pos[n]
             i == first + p - 1 - (gone + cut)
  <2>1. first \in Int /\ first + p - 1 <= gone + Len(front) + Len(back) /\ p \in Int
    BY Inside
  <2>2. first + p - 1 > gone + cut
    BY <1>5
  <2> HIDE DEF first
  <2>3. i \in 1..(Len(rest) + Len(back)) /\ cut + i = first + p - 1 - gone /\ first + p - 1 > gone
    BY <1>1, <1>2, <2>1, <2>2
  <2>4. At(front, back, first + p - 1 - gone) = [packet |-> n, place |-> p]
    BY <2>3 DEF Laid, first
  <2> HIDE DEF i
  <2>5. At(rest, back, i) = [packet |-> n, place |-> p]
    BY <1>4, <2>3, <2>4
  <2>6. QED
    BY <2>5 DEF i, first
<1>6. Laid(rest, back, stream, pos, gone + cut)
  <2>1. LayoutType(rest, back, stream, pos, gone + cut)
    BY <1>0, <1>1, <1>2 DEF LayoutType
  <2>2. QED
    BY <1>3, <1>5, <2>1 DEF Laid
<1>7. QED
  BY <1>2, <1>6 DEF rest

\* So does moving bytes from the wire to the buffer.
LEMMA LaidRead ==
  ASSUME NEW front, NEW back, NEW stream, NEW pos, NEW gone, Laid(front, back, stream, pos, gone),
         NEW n \in 0..Len(back)
  PROVE  Laid(front \o First(back, n), From(back, n), stream, pos, gone)
<1>0. /\ front \in Seq(Byte) /\ back \in Seq(Byte) /\ stream \in Seq(Packets)
      /\ pos \in [Nat -> Int] /\ gone \in Nat
  BY DEF Laid, LayoutType
<1> DEFINE head == First(back, n)
           longer == front \o head
           rest == From(back, n)
<1>1. head \in Seq(Byte) /\ Len(head) = n /\ \A i \in 1..n : head[i] = back[i]
  BY <1>0, FirstBytes
<1>2. rest \in Seq(Byte) /\ Len(rest) = Len(back) - n /\ \A i \in 1..(Len(back) - n) : rest[i] = back[n + i]
  BY <1>0, FromBytes
<1> HIDE DEF head, rest
<1>3. /\ longer \in Seq(Byte) /\ Len(longer) = Len(front) + n
      /\ \A i \in 1..(Len(front) + n) :
           longer[i] = IF i <= Len(front) THEN front[i] ELSE head[i - Len(front)]
  BY <1>0, <1>1, ConcatProperties
<1> HIDE DEF longer
<1>4. Len(front) \in Nat /\ Len(back) \in Nat /\ n \in Nat /\ n <= Len(back) /\ gone \in Nat
  BY <1>0
<1>5. gone + Len(longer) + Len(rest) + 1 = gone + Len(front) + Len(back) + 1
  BY <1>2, <1>3, <1>4
<1>6. ASSUME NEW i \in 1..(Len(front) + Len(back)) PROVE At(longer, rest, i) = At(front, back, i)
  <2> PICK f \in Nat, b \in Nat : f = Len(front) /\ b = Len(back) /\ n <= b
    BY <1>4
  <2>0. Len(longer) = f + n /\ Len(rest) = b - n
    BY <1>2, <1>3
  <2>1. CASE i <= f
    <3>1. i \in 1..(f + n) /\ i <= Len(longer)
      BY <1>4, <2>0, <2>1
    <3>2. QED
      BY <1>3, <2>1, <3>1 DEF At
  <2>2. CASE i > f /\ i <= f + n
    <3>1. i - f \in 1..n /\ ~(i <= f) /\ i \in 1..(f + n) /\ i <= Len(longer)
      BY <1>4, <2>0, <2>2
    <3>2. longer[i] = back[i - f]
      BY <1>1, <1>3, <3>1
    <3>3. QED
      BY <3>1, <3>2 DEF At
  <2>3. CASE i > f + n
    <3>1. /\ i - Len(longer) \in 1..(b - n) /\ ~(i <= f) /\ ~(i <= Len(longer))
          /\ n + (i - Len(longer)) = i - f
      BY <1>4, <2>0, <2>3
    <3>2. QED
      BY <1>2, <3>1 DEF At
  <2>4. QED
    BY <1>4, <2>1, <2>2, <2>3
<1>7. ASSUME NEW m \in 1..Len(stream), NEW p \in 1..Size(stream, m), pos[m] + p - 1 > gone
      PROVE  At(longer, rest, pos[m] + p - 1 - gone) = [packet |-> m, place |-> p]
  <2> DEFINE first == pos[m]
             i == first + p - 1 - gone
  <2>1. first \in Int /\ first + p - 1 <= gone + Len(front) + Len(back) /\ p \in Int
    BY Inside
  <2>2. first + p - 1 > gone
    BY <1>7
  <2>3. At(front, back, i) = [packet |-> m, place |-> p]
    BY <2>2 DEF Laid
  <2> HIDE DEF first
  <2>4. i \in 1..(Len(front) + Len(back))
    BY <1>4, <2>1, <2>2
  <2> HIDE DEF i
  <2>5. At(longer, rest, i) = [packet |-> m, place |-> p]
    BY <1>6, <2>3, <2>4
  <2>6. QED
    BY <2>5 DEF i, first
<1>8. Laid(longer, rest, stream, pos, gone)
  <2>1. LayoutType(longer, rest, stream, pos, gone)
    BY <1>0, <1>2, <1>3 DEF LayoutType
  <2>2. QED
    BY <1>5, <1>7, <2>1 DEF Laid
<1>9. QED
  BY <1>8 DEF longer, rest, head

\* A packet that is sent lies behind the others.
LEMMA LaidSent ==
  ASSUME NEW front, NEW back, NEW stream, NEW pos, NEW gone, Laid(front, back, stream, pos, gone),
         Len(stream) < MaxPackets, NEW packet \in Packets
  PROVE  \E further \in [Nat -> Int] :
           /\ \A n \in 1..(Len(stream) + 1) : further[n] = pos[n]
           /\ Laid(front, back \o Bytes(Len(stream) + 1, 1, HeaderSize + packet.length),
                   Append(stream, packet), further, gone)
<1>0. /\ front \in Seq(Byte) /\ back \in Seq(Byte) /\ stream \in Seq(Packets)
      /\ pos \in [Nat -> Int] /\ gone \in Nat
  BY DEF Laid, LayoutType
<1> DEFINE l == Len(stream)
           size == HeaderSize + packet.length
           new == Bytes(l + 1, 1, size)
           more == back \o new
           longer == Append(stream, packet)
           further == [pos EXCEPT ![l + 2] = pos[l + 1] + size]
<1>s. size \in Nat
  <2>1. HeaderSize \in Nat /\ packet.length \in Nat
    BY StreamAssumption DEF Packet
  <2>2. QED
    BY <2>1
<1>1. l \in Nat /\ l + 1 \in 1..MaxPackets /\ Len(front) \in Nat /\ Len(back) \in Nat /\ (l + 1) + 1 = l + 2 /\ gone \in Nat
  BY <1>0, StreamAssumption
<1>2. /\ new \in Seq(Byte) /\ Len(new) = size
      /\ \A k \in 1..size : new[k] = [packet |-> l + 1, place |-> k]
  <2>0. 1 \in Nat \ {0} /\ 1 <= size + 1
    BY <1>s
  <2>1. /\ new \in Seq(Byte) /\ Len(new) = size - 1 + 1
        /\ \A k \in 1..(size - 1 + 1) : new[k] = [packet |-> l + 1, place |-> 1 + k - 1]
    BY <1>s, <1>1, <2>0, BytesMade
  <2>2. size - 1 + 1 = size /\ \A k \in 1..size : 1 + k - 1 = k
    BY <1>s
  <2>3. QED
    BY <2>1, <2>2
<1> HIDE DEF new, size
<1>3. /\ more \in Seq(Byte) /\ Len(more) = Len(back) + size
      /\ \A i \in 1..(Len(back) + size) : more[i] = IF i <= Len(back) THEN back[i] ELSE new[i - Len(back)]
  <2>1. /\ more \in Seq(Byte) /\ Len(more) = Len(back) + Len(new)
        /\ \A i \in 1..(Len(back) + Len(new)) : more[i] = IF i <= Len(back) THEN back[i] ELSE new[i - Len(back)]
    BY <1>0, <1>2, ConcatProperties
  <2>2. QED
    BY <1>2, <2>1
<1> HIDE DEF more
<1>4. /\ longer \in Seq(Packets) /\ Len(longer) = l + 1 /\ Size(longer, l + 1) = size
      /\ \A n \in 1..l : Size(longer, n) = Size(stream, n)
  <2>1. /\ longer \in Seq(Packets) /\ Len(longer) = l + 1 /\ longer[l + 1] = packet
        /\ \A n \in 1..l : longer[n] = stream[n]
    BY <1>0, AppendProperties
  <2>2. QED
    BY <2>1 DEF Size, size
<1>5. /\ pos[l + 1] = gone + Len(front) + Len(back) + 1 /\ pos[l + 1] \in Int
      /\ \A n \in 1..(l + 1) : n \in Nat /\ pos[n] \in Int
  <2>1. \A n \in 1..(l + 1) : n \in Nat /\ pos[n] \in Int
    BY <1>0, <1>1
  <2>2. QED
    BY <1>1, <2>1 DEF Laid
<1>6. /\ further \in [Nat -> Int] /\ further[l + 2] = pos[l + 1] + size
      /\ \A n \in 1..(l + 1) : further[n] = pos[n]
  <2>1. pos[l + 1] + size \in Int /\ l + 2 \in Nat
    BY <1>0, <1>s, <1>1, <1>5
  <2>2. further \in [Nat -> Int] /\ further[l + 2] = pos[l + 1] + size
    BY <1>0, <2>1
  <2>3. ASSUME NEW n \in 1..(l + 1) PROVE further[n] = pos[n]
    <3>1. n # l + 2 /\ n \in Nat
      BY <1>1
    <3>2. QED
      BY <1>0, <3>1
  <2>4. QED
    BY <2>2, <2>3
<1> DEFINE end == gone + Len(front) + Len(back) + 1
<1> HIDE DEF further, longer, l
<1>7. further[Len(longer) + 1] = gone + Len(front) + Len(more) + 1
  <2>1. Len(longer) + 1 = l + 2 /\ further[l + 2] = pos[l + 1] + size
    BY <1>1, <1>4, <1>6
  <2>2. pos[l + 1] = end /\ end + size = gone + Len(front) + Len(more) + 1
    BY <1>s, <1>1, <1>3, <1>5
  <2> HIDE DEF end
  <2>3. QED
    BY <2>1, <2>2
<1>8. ASSUME NEW n \in 1..Len(longer)
      PROVE  /\ further[n + 1] = further[n] + Size(longer, n)
             /\ further[n + 1] <= gone + Len(front) + Len(more) + 1
  <2>0. gone + Len(front) + Len(more) + 1 = end + size /\ end \in Int
    BY <1>s, <1>1, <1>3
  <2>1. CASE n \in 1..l
    <3>1. pos[n + 1] = pos[n] + Size(stream, n) /\ pos[n + 1] <= end
      BY <2>1 DEF Laid, l
    <3>2. n + 1 \in 1..(l + 1) /\ n \in 1..(l + 1)
      BY <1>1, <2>1
    <3>3. further[n + 1] = pos[n + 1] /\ further[n] = pos[n] /\ Size(longer, n) = Size(stream, n) /\ pos[n + 1] \in Int
      BY <1>4, <1>5, <1>6, <2>1, <3>2
    <3> DEFINE next == pos[n + 1]
    <3> HIDE DEF next, end
    <3>4. next <= end /\ next \in Int
      BY <3>1, <3>3 DEF next
    <3>5. next <= end + size
      BY <1>s, <2>0, <3>4
    <3>6. QED
      BY <2>0, <3>1, <3>3, <3>5 DEF next
  <2>2. CASE n = l + 1
    <3>1. n + 1 = l + 2 /\ n \in 1..(l + 1)
      BY <1>1, <2>2
    <3>2. further[n] = end /\ further[n + 1] = end + size /\ Size(longer, n) = size
      BY <1>4, <1>5, <1>6, <2>2, <3>1
    <3> HIDE DEF end
    <3>3. end + size <= end + size
      BY <1>s, <2>0
    <3>4. QED
      BY <2>0, <3>2, <3>3
  <2>3. QED
    BY <1>1, <1>4, <2>1, <2>2
<1>9. ASSUME NEW i \in 1..(Len(front) + Len(back)) PROVE At(front, more, i) = At(front, back, i)
  <2>1. CASE i <= Len(front)
    BY <2>1 DEF At
  <2>2. CASE i > Len(front)
    <3>1. i - Len(front) \in 1..(Len(back) + size) /\ i - Len(front) <= Len(back) /\ ~(i <= Len(front))
      BY <1>s, <1>1, <2>2
    <3>2. QED
      BY <1>3, <3>1 DEF At
  <2>3. QED
    BY <1>1, <2>1, <2>2
<1>10. ASSUME NEW n \in 1..Len(longer), NEW p \in 1..Size(longer, n), further[n] + p - 1 > gone
       PROVE  At(front, more, further[n] + p - 1 - gone) = [packet |-> n, place |-> p]
  <2> DEFINE first == further[n]
             i == first + p - 1 - gone
  <2>1. CASE n \in 1..l
    <3>1. n \in 1..(l + 1) /\ n \in 1..Len(stream)
      BY <1>1, <2>1 DEF l
    <3>2. further[n] = pos[n] /\ p \in 1..Size(stream, n)
      BY <1>4, <1>6, <2>1, <3>1
    <3>3. first \in Int /\ p \in Int /\ first + p - 1 <= gone + Len(front) + Len(back) /\ first + p - 1 > gone
      <4>1. pos[n] \in Int /\ p \in Int /\ pos[n] + p - 1 <= gone + Len(front) + Len(back)
        BY <3>1, <3>2, Inside
      <4>2. QED
        BY <1>10, <3>2, <4>1
    <3>4. At(front, back, i) = [packet |-> n, place |-> p]
      BY <3>1, <3>2, <3>3 DEF Laid
    <3> HIDE DEF first
    <3>5. i \in 1..(Len(front) + Len(back))
      BY <1>1, <3>3
    <3> HIDE DEF i
    <3>6. At(front, more, i) = [packet |-> n, place |-> p]
      BY <1>9, <3>4, <3>5
    <3>7. QED
      BY <3>6 DEF i, first
  <2>2. CASE n = l + 1
    <3>1. n \in 1..(l + 1) /\ Size(longer, n) = size
      BY <1>1, <1>4, <2>2
    <3>0. p \in 1..size
      BY <3>1
    <3>2. first = end /\ p \in 1..size
      BY <1>5, <1>6, <2>2, <3>0, <3>1
    <3> HIDE DEF first
    <3>3. /\ i = Len(front) + Len(back) + p
          /\ ~(i <= Len(front)) /\ i - Len(front) = Len(back) + p
      BY <1>s, <1>1, <3>2
    <3> HIDE DEF i
    <3>4. At(front, more, i) = more[Len(back) + p]
      BY <3>3 DEF At
    <3> PICK b \in Nat : b = Len(back)
      BY <1>1
    <3>5. b + p \in 1..(b + size) /\ ~(b + p <= b) /\ (b + p) - b = p
      BY <1>s, <3>0
    <3>6. more[b + p] = new[p]
      BY <1>3, <3>5
    <3>7. new[p] = [packet |-> n, place |-> p]
      BY <1>2, <2>2, <3>0
    <3>8. QED
      BY <3>4, <3>6, <3>7 DEF i, first
  <2>3. QED
    BY <1>1, <1>4, <2>1, <2>2
<1>11. Laid(front, more, longer, further, gone)
  <2>1. LayoutType(front, more, longer, further, gone)
    BY <1>0, <1>3, <1>4, <1>6 DEF LayoutType
  <2>2. QED
    BY <1>7, <1>8, <1>10, <2>1 DEF Laid
<1>12. QED
  BY <1>6, <1>11 DEF l, size, more, longer, new

-----------------------------------------------------------------------------
(* What the parser finds *)

\* What StreamInv says there is.
Known(pos, gone, parsed) ==
    /\ pos \in [Nat -> Int] /\ gone \in Nat /\ parsed \in 0..Len(sent)
    /\ Laid(buffer, wire, sent, pos, gone) /\ Aligned(pos, gone, parsed)
    /\ Consecutive(parsed) /\ Numbered(parsed - Len(packets))

\* Where the bytes of a packet are next, as many as are wanted are taken as they were sent.
LEMMA Run ==
  ASSUME TypeOK, NEW pos, NEW gone, NEW parsed, Known(pos, gone, parsed),
         NEW n \in 1..Len(sent), NEW skip \in Nat, NEW size \in 0..Len(buffer),
         skip + size <= Size(sent, n), pos[n] + skip = gone + 1
  PROVE  First(buffer, size) = Bytes(n, skip + 1, skip + size)
<1> DEFINE start == pos[n]
           bytes == First(buffer, size)
<1>0. /\ buffer \in Seq(Byte) /\ sent \in Seq(Packets) /\ Len(sent) <= MaxPackets
      /\ pos \in [Nat -> Int] /\ gone \in Nat /\ Laid(buffer, wire, sent, pos, gone)
  BY DEF TypeOK, Known
<1>1. Len(buffer) \in Nat /\ size \in Nat /\ Size(sent, n) \in Nat /\ n \in 1..MaxPackets
  <2>1. Size(sent, n) \in Nat
    BY <1>0, SizeNat
  <2>2. n \in 1..MaxPackets /\ Len(buffer) \in Nat /\ size \in Nat
    BY <1>0, StreamAssumption
  <2>3. QED
    BY <2>1, <2>2
<1>2. start \in Int /\ start + skip = gone + 1
  BY <1>0
<1>3. bytes \in Seq(Byte) /\ Len(bytes) = size /\ \A k \in 1..size : bytes[k] = buffer[k]
  BY <1>0, <1>1, FirstBytes
<1> HIDE DEF start, bytes
<1>4. ASSUME NEW k \in 1..size PROVE bytes[k] = [packet |-> n, place |-> (skip + 1) + k - 1]
  <2> DEFINE p == skip + k
  <2>1. p \in 1..Size(sent, n) /\ p = (skip + 1) + k - 1
    BY <1>1
  <2>2. start + p - 1 > gone /\ start + p - 1 - gone = k /\ k <= Len(buffer)
    BY <1>0, <1>1, <1>2
  <2>3. bytes[k] = buffer[k]
    BY <1>3
  <2> HIDE DEF p
  <2>4. At(buffer, wire, start + p - 1 - gone) = [packet |-> n, place |-> p]
    BY <1>0, <2>1, <2>2 DEF Laid, start
  <2>5. QED
    BY <2>1, <2>2, <2>3, <2>4 DEF At
<1>5. /\ skip + 1 \in Nat \ {0} /\ skip + size \in Nat /\ skip + 1 <= (skip + size) + 1
      /\ size = (skip + size) - (skip + 1) + 1
  BY <1>1
<1>6. Len(bytes) = (skip + size) - (skip + 1) + 1
  BY <1>3, <1>5
<1>7. \A k \in 1..Len(bytes) : bytes[k] = [packet |-> n, place |-> (skip + 1) + k - 1]
  BY <1>3, <1>4
<1>8. bytes = Bytes(n, skip + 1, skip + size)
  BY <1>1, <1>3, <1>5, <1>6, <1>7, BytesAre
<1>9. QED
  BY <1>8 DEF bytes

\* A header that is complete is that of the packet after those that were parsed.
LEMMA HeaderFound ==
  ASSUME TypeOK, NEW pos, NEW gone, NEW parsed, Known(pos, gone, parsed),
         expected = 0, Len(buffer) >= HeaderSize
  PROVE  /\ parsed + 1 \in 1..Len(sent) /\ buffer[1].packet = parsed + 1
         /\ First(buffer, HeaderSize) = Bytes(parsed + 1, 1, HeaderSize)
         /\ First(buffer, HeaderSize)[1].packet = parsed + 1
<1> DEFINE n == parsed + 1
           l == Len(sent)
           start == pos[n]
<1>1. /\ buffer \in Seq(Byte) /\ wire \in Seq(Byte) /\ sent \in Seq(Packets) /\ l <= MaxPackets
      /\ pos \in [Nat -> Int] /\ gone \in Nat /\ parsed \in 0..l
      /\ Laid(buffer, wire, sent, pos, gone)
  BY DEF TypeOK, Known
<1>2. start = gone + 1
  BY DEF Aligned, Known
<1>3. HeaderSize \in Nat \ {0} /\ MaxPackets \in Nat /\ Len(buffer) \in Nat /\ Len(wire) \in Nat
  BY <1>1, StreamAssumption
<1>4. n \in 1..l
  <2> DEFINE end == pos[l + 1]
  <2>1. end = gone + Len(buffer) + Len(wire) + 1
    BY <1>1 DEF Laid
  <2> HIDE DEF end, start, l
  <2>2. end # start
    BY <1>1, <1>2, <1>3, <2>1
  <2>3. n # l + 1
    BY <2>2 DEF end, start
  <2>4. l \in Nat
    BY <1>1 DEF l
  <2>5. QED
    BY <1>1, <2>3, <2>4
<1>5. sent[n].length \in Nat /\ HeaderSize <= Size(sent, n)
  <2>1. sent[n].length \in Nat
    BY <1>1, <1>4, SizeNat
  <2>2. QED
    BY <1>3, <2>1 DEF Size
<1> HIDE DEF n, l
<1>6. start + 0 = gone + 1 /\ 0 + HeaderSize = HeaderSize /\ HeaderSize \in 0..Len(buffer)
  BY <1>1, <1>2, <1>3
<1>7. First(buffer, HeaderSize) = Bytes(n, 1, HeaderSize)
  <2>1. n \in 1..Len(sent) /\ Len(sent) <= MaxPackets
    BY <1>1, <1>4 DEF l
  <2>2. pos[n] + 0 = gone + 1 /\ 0 + HeaderSize <= Size(sent, n) /\ 0 \in Nat
    BY <1>5, <1>6
  <2>3. First(buffer, HeaderSize) = Bytes(n, 0 + 1, 0 + HeaderSize)
    BY <1>6, <2>1, <2>2, Run
  <2>4. 0 + 1 = 1
    OBVIOUS
  <2>5. QED
    BY <1>6, <2>3, <2>4
<1>8. /\ First(buffer, HeaderSize)[1] = buffer[1]
      /\ Bytes(n, 1, HeaderSize)[1] = [packet |-> n, place |-> 1]
  <2>1. HeaderSize \in 0..Len(buffer) /\ 1 \in 1..HeaderSize
    BY <1>3
  <2>2. First(buffer, HeaderSize)[1] = buffer[1]
    BY <1>1, <2>1, FirstBytes
  <2>3. 1 \in 1..(HeaderSize - 1 + 1)
    BY <1>3
  <2>4. Bytes(n, 1, HeaderSize)[1] = [packet |-> n, place |-> 1 + 1 - 1]
    BY <2>3 DEF Bytes
  <2>5. QED
    BY <2>2, <2>4
<1>9. QED
  BY <1>4, <1>7, <1>8 DEF n, l

\* A payload that is complete is that of the header that was accepted.
LEMMA PayloadFound ==
  ASSUME TypeOK, NEW pos, NEW gone, NEW parsed, Known(pos, gone, parsed),
         expected # 0, Len(buffer) >= ExpectedLength
  PROVE  /\ expected = parsed + 1 /\ ExpectedLength \in Nat
         /\ First(buffer, ExpectedLength) = Bytes(expected, HeaderSize + 1, HeaderSize + ExpectedLength)
<1> DEFINE long == ExpectedLength
<1>1. /\ buffer \in Seq(Byte) /\ wire \in Seq(Byte) /\ sent \in Seq(Packets) /\ Len(sent) <= MaxPackets
      /\ pos \in [Nat -> Int] /\ gone \in Nat /\ Laid(buffer, wire, sent, pos, gone)
      /\ expected \in 1..Len(sent)
  BY DEF TypeOK, Known
<1>2. expected = parsed + 1 /\ pos[expected] + HeaderSize = gone + 1
  BY DEF Aligned, Known
<1>3. HeaderSize \in Nat /\ long \in Nat /\ Len(buffer) \in Nat
  BY <1>1, SizeNat, StreamAssumption DEF ExpectedLength
<1>4. Size(sent, expected) = HeaderSize + long
  BY DEF Size, ExpectedLength
<1>5. HeaderSize + long <= Size(sent, expected) /\ long \in 0..Len(buffer)
  BY <1>3, <1>4
<1> HIDE DEF long
<1>6. /\ expected \in 1..Len(sent) /\ HeaderSize \in Nat /\ pos[expected] + HeaderSize = gone + 1
      /\ HeaderSize + long <= Size(sent, expected) /\ long \in 0..Len(buffer)
  BY <1>1, <1>2, <1>3, <1>5
<1>7. First(buffer, long) = Bytes(expected, HeaderSize + 1, HeaderSize + long)
  BY <1>6, Run
<1>8. QED
  BY <1>2, <1>3, <1>7 DEF long

-----------------------------------------------------------------------------
(* Types *)

LEMMA InitType == Init => TypeOK
<1> SUFFICES ASSUME Init PROVE TypeOK
  OBVIOUS
<1>1. Len(<< >>) = 0 /\ 0 <= MaxPackets /\ 0 <= MaxPayload + HeaderSize /\ 0 < HeaderSize /\ 0 \in 0..0
  BY StreamAssumption
<1>2. << >> \in Seq(Packets) /\ << >> \in Seq(Byte) /\ << >> \in Seq(1..0)
  BY EmptySeq
<1>3. QED
  BY <1>1, <1>2 DEF Init, TypeOK, Incomplete

\* A longer stream is still one of the packets that were sent.
LEMMA LongerStream ==
  ASSUME NEW s \in Seq(Packets), NEW packet \in Packets, NEW t \in Seq(1..Len(s))
  PROVE  /\ Append(s, packet) \in Seq(Packets) /\ Len(Append(s, packet)) = Len(s) + 1
         /\ \A n \in 1..Len(s) : Append(s, packet)[n] = s[n]
         /\ Append(s, packet)[Len(s) + 1] = packet
         /\ t \in Seq(1..(Len(s) + 1))
<1>1. 1..Len(s) \subseteq 1..(Len(s) + 1)
  OBVIOUS
<1>2. t \in Seq(1..(Len(s) + 1))
  BY <1>1
<1>3. QED
  BY <1>2, AppendProperties

LEMMA SendType == ASSUME TypeOK, NEW packet \in Packets, Send(packet) PROVE TypeOK'
<1>1. /\ sent \in Seq(Packets) /\ Len(sent) \in Nat /\ wire \in Seq(Byte) /\ expected \in 0..Len(sent)
      /\ packets \in Seq(1..Len(sent)) /\ dispatched \in Seq(1..Len(sent)) /\ Len(sent) < MaxPackets
  BY DEF TypeOK, Send
<1>2. sent' = Append(sent, packet) /\ wire' = wire \o Bytes(Len(sent) + 1, 1, HeaderSize + packet.length)
  BY DEF Send
<1>3. /\ sent' \in Seq(Packets) /\ Len(sent') = Len(sent) + 1 /\ \A n \in 1..Len(sent) : sent'[n] = sent[n]
      /\ packets \in Seq(1..Len(sent')) /\ dispatched \in Seq(1..Len(sent'))
  BY <1>1, <1>2, LongerStream
<1>4. wire' \in Seq(Byte)
  <2> DEFINE size == HeaderSize + packet.length
  <2>1. size \in Nat /\ Len(sent) + 1 \in 1..MaxPackets /\ 1 \in Nat \ {0} /\ 1 <= size + 1
    BY <1>1, StreamAssumption DEF Packet
  <2>2. Bytes(Len(sent) + 1, 1, size) \in Seq(Byte)
    BY <2>1, BytesMade
  <2>3. QED
    BY <1>1, <1>2, <2>2, ConcatProperties
<1>5. Len(sent') <= MaxPackets /\ expected' \in 0..Len(sent')
  BY <1>1, <1>3, StreamAssumption DEF Send, parserVars
<1>6. Incomplete' = Incomplete
  BY <1>1, <1>3 DEF Send, parserVars, Incomplete, ExpectedLength
<1>7. UNCHANGED <<ended, pc, buffer, packets, expected, last_sequence, dispatched, rejected>>
  BY DEF Send, parserVars, receiverVars
<1> HIDE DEF Incomplete
<1>8. QED
  BY <1>3, <1>4, <1>5, <1>6, <1>7 DEF TypeOK

LEMMA ReadType == ASSUME TypeOK, NEW n \in 1..ChunkSize, Read(n) PROVE TypeOK'
<1>1. wire \in Seq(Byte) /\ buffer \in Seq(Byte) /\ n \in 0..Len(wire) /\ n <= Len(wire)
  BY DEF TypeOK, Read
<1>2. wire' \in Seq(Byte)
  BY <1>1, FromBytes DEF Read
<1>3. UNCHANGED <<sent, ended, expected, last_sequence, dispatched>>
  BY DEF Read, receiverVars
<1>4. CASE Fits(n)
  <2> DEFINE chunk == First(wire, n)
  <2>1. chunk \in Seq(Byte) /\ Len(chunk) = n
    BY <1>1, FirstBytes
  <2>2. buffer' = buffer \o chunk /\ pc' = "parse" /\ UNCHANGED <<packets, rejected>>
    BY <1>4 DEF Read
  <2> HIDE DEF chunk
  <2>3. buffer' \in Seq(Byte) /\ Len(buffer') = Len(buffer) + n
    BY <1>1, <2>1, <2>2, ConcatProperties
  <2>4. Len(buffer') <= MaxPayload + HeaderSize
    BY <1>4, <2>3 DEF Fits
  <2>5. QED
    BY <1>2, <1>3, <2>2, <2>3, <2>4 DEF TypeOK
<1>5. CASE ~Fits(n)
  <2>1. UNCHANGED buffer /\ Reject
    BY <1>5 DEF Read
  <2>2. packets' \in Seq(1..Len(sent))
    BY <2>1, EmptySeq DEF Reject
  <2>3. QED
    BY <1>2, <1>3, <2>1, <2>2 DEF TypeOK, Reject
<1>6. QED
  BY <1>4, <1>5

LEMMA HeaderType ==
  ASSUME TypeOK, NEW pos, NEW gone, NEW parsed, Known(pos, gone, parsed), ParseHeader
  PROVE  TypeOK'
<1>1. /\ buffer \in Seq(Byte) /\ HeaderSize \in 0..Len(buffer) /\ expected = 0 /\ Len(buffer) >= HeaderSize
      /\ Len(buffer) \in Nat
  BY StreamAssumption DEF TypeOK, ParseHeader
<1>2. buffer' \in Seq(Byte) /\ Len(buffer') <= MaxPayload + HeaderSize
  <2>1. buffer' \in Seq(Byte) /\ Len(buffer') = Len(buffer) - HeaderSize
    BY <1>1, FromBytes DEF ParseHeader
  <2>2. Len(buffer) <= MaxPayload + HeaderSize
    BY DEF TypeOK
  <2>3. QED
    BY <1>1, <2>1, <2>2, StreamAssumption
<1>3. UNCHANGED <<sent, wire, ended, last_sequence, dispatched>> /\ pc = "parse"
  BY DEF ParseHeader, senderVars, receiverVars
<1>4. buffer[1].packet \in 0..Len(sent)
  <2>1. parsed + 1 \in 1..Len(sent) /\ buffer[1].packet = parsed + 1
    BY <1>1, HeaderFound
  <2>2. QED
    BY <2>1
<1>5. CASE expected' = buffer[1].packet /\ UNCHANGED <<pc, packets, rejected>>
  BY <1>2, <1>3, <1>4, <1>5 DEF TypeOK
<1>6. CASE Reject /\ UNCHANGED expected
  <2>1. packets' \in Seq(1..Len(sent))
    BY <1>6, EmptySeq DEF Reject
  <2>2. QED
    BY <1>2, <1>3, <1>6, <2>1 DEF TypeOK, Reject
<1>7. QED
  BY <1>5, <1>6 DEF ParseHeader

LEMMA PayloadType == ASSUME TypeOK, ParsePayload PROVE TypeOK'
<1>1. /\ buffer \in Seq(Byte) /\ sent \in Seq(Packets) /\ expected \in 1..Len(sent)
      /\ Len(buffer) >= ExpectedLength /\ Len(buffer) \in Nat
  BY DEF TypeOK, ParsePayload
<1>2. ExpectedLength \in 0..Len(buffer)
  BY <1>1, SizeNat DEF ExpectedLength
<1>3. buffer' \in Seq(Byte) /\ Len(buffer') <= MaxPayload + HeaderSize
  <2>1. buffer' \in Seq(Byte) /\ Len(buffer') = Len(buffer) - ExpectedLength
    BY <1>1, <1>2, FromBytes DEF ParsePayload
  <2>2. Len(buffer) <= MaxPayload + HeaderSize
    BY DEF TypeOK
  <2>3. QED
    BY <1>1, <1>2, <2>1, <2>2, StreamAssumption
<1>4. UNCHANGED <<sent, wire, ended, last_sequence, dispatched>> /\ pc = "parse" /\ expected' = 0
  BY DEF ParsePayload, senderVars, receiverVars
<1>5. 0 \in 0..Len(sent)
  BY <1>1
<1>6. CASE packets' = Append(packets, expected) /\ UNCHANGED <<pc, rejected>>
  <2>1. packets' \in Seq(1..Len(sent))
    BY <1>1, <1>6, AppendProperties DEF TypeOK
  <2>2. QED
    BY <1>3, <1>4, <1>5, <1>6, <2>1 DEF TypeOK
<1>7. CASE Reject
  <2>1. packets' \in Seq(1..Len(sent))
    BY <1>7, EmptySeq DEF Reject
  <2>2. QED
    BY <1>3, <1>4, <1>5, <1>7, <2>1 DEF TypeOK, Reject
<1>8. QED
  BY <1>6, <1>7 DEF ParsePayload

LEMMA HandleType == ASSUME TypeOK, Handle PROVE TypeOK'
<1>1. /\ sent \in Seq(Packets) /\ packets \in Seq(1..Len(sent)) /\ packets # << >>
      /\ dispatched \in Seq(1..Len(sent))
  BY DEF TypeOK, Handle
<1>2. Head(packets) \in 1..Len(sent) /\ Tail(packets) \in Seq(1..Len(sent))
  BY <1>1, HeadTailProperties
<1>3. sent[Head(packets)].sequence \in Nat
  <2>1. sent[Head(packets)] \in Packets
    BY <1>1, <1>2
  <2>2. QED
    BY <2>1, StreamAssumption DEF Packet
<1>4. /\ UNCHANGED <<sent, wire, ended, buffer, expected>> /\ pc = "dispatch"
      /\ Incomplete' = Incomplete
  BY DEF Handle, senderVars, Incomplete, ExpectedLength
<1> HIDE DEF Incomplete
<1>5. CASE packets' = Tail(packets) /\ UNCHANGED <<pc, receiverVars, rejected>>
  BY <1>2, <1>4, <1>5 DEF TypeOK, receiverVars
<1>6. CASE /\ last_sequence' = sent[Head(packets)].sequence
           /\ dispatched' = Append(dispatched, Head(packets))
           /\ packets' = Tail(packets) /\ UNCHANGED <<pc, rejected>>
  <2>1. dispatched' \in Seq(1..Len(sent))
    BY <1>1, <1>2, <1>6, AppendProperties
  <2>2. QED
    BY <1>2, <1>3, <1>4, <1>6, <2>1 DEF TypeOK
<1>7. CASE last_sequence' = sent[Head(packets)].sequence /\ Reject /\ UNCHANGED dispatched
  <2>1. packets' \in Seq(1..Len(sent))
    BY <1>7, EmptySeq DEF Reject
  <2>2. QED
    BY <1>3, <1>4, <1>7, <2>1 DEF TypeOK, Reject
<1>8. QED
  BY <1>5, <1>6, <1>7 DEF Handle

LEMMA OtherType ==
  ASSUME TypeOK, Finish \/ Fed \/ ReadAgain \/ EndOfFile \/ UNCHANGED vars
  PROVE  TypeOK'
<1>1. UNCHANGED <<sent, wire, buffer, expected, packets, last_sequence, dispatched, rejected>>
  BY DEF Finish, Fed, ReadAgain, EndOfFile, vars, senderVars, parserVars, receiverVars
<1>2. ended' \in BOOLEAN
  BY DEF TypeOK, Finish, Fed, ReadAgain, EndOfFile, vars, senderVars
<1>3. Incomplete' = Incomplete
  BY <1>1 DEF Incomplete, ExpectedLength
<1>4. pc' \in {"read", "parse", "dispatch", "closed"} /\ (pc' \in {"read", "dispatch"} => Incomplete)
  <2> HIDE DEF Incomplete
  <2>1. QED
    BY DEF TypeOK, Finish, Fed, ReadAgain, EndOfFile, vars
<1> HIDE DEF Incomplete
<1>5. QED
  BY <1>1, <1>2, <1>3, <1>4 DEF TypeOK

-----------------------------------------------------------------------------
(* The parser stays in step *)

LEMMA InitStream == Init => StreamInv
<1> SUFFICES ASSUME Init PROVE StreamInv
  OBVIOUS
<1> DEFINE pos == [n \in Nat |-> 1]
<1>1. /\ sent = << >> /\ Len(sent) = 0 /\ buffer = << >> /\ wire = << >> /\ expected = 0 /\ packets = << >>
      /\ Len(packets) = 0
  BY DEF Init
<1>2. pos \in [Nat -> Int] /\ pos[1] = 1 /\ 0 \in Nat /\ 0 \in 0..Len(sent)
  BY <1>1
<1> HIDE DEF pos
<1>3. Laid(buffer, wire, sent, pos, 0)
  <2>1. pos[Len(sent) + 1] = 0 + Len(buffer) + Len(wire) + 1 /\ 1..Len(sent) = {}
    BY <1>1, <1>2
  <2>2. LayoutType(buffer, wire, sent, pos, 0)
    BY <1>1, <1>2, EmptySeq DEF LayoutType
  <2>3. QED
    BY <2>1, <2>2 DEF Laid
<1>4. Aligned(pos, 0, 0)
  BY <1>1, <1>2 DEF Aligned
<1>5. Consecutive(0)
  BY <1>1 DEF Consecutive
<1>6. Numbered(0 - Len(packets))
  <2>1. Queue!Latest = 0 /\ Queue!LastSequence = -1 /\ last_sequence = -1 /\ dispatched = << >>
    BY DEF Init, Queue!Latest, Queue!LastSequence
  <2> DEFINE l == Len(packets)
  <2>2. l = 0
    BY <1>1
  <2> HIDE DEF l
  <2>3. (Queue!Latest + 1)..0 = {} /\ Queue!Latest <= 0
    BY <2>1
  <2>4. Numbered(0) /\ 0 - l = 0
    BY <2>1, <2>2, <2>3 DEF Numbered
  <2>5. QED
    BY <2>4 DEF l
<1>7. QED
  BY <1>2, <1>3, <1>4, <1>5, <1>6 DEF StreamInv

\* The packet that was dispatched last is one of those that were sent.
LEMMA LatestSent ==
  ASSUME TypeOK
  PROVE  /\ Queue!Latest \in 0..Len(sent)
         /\ dispatched # << >> => Queue!Latest \in 1..Len(sent)
         /\ Queue!LastSequence \in Nat \cup {-1}
<1>1. sent \in Seq(Packets) /\ dispatched \in Seq(1..Len(sent)) /\ Len(sent) \in Nat
  BY DEF TypeOK
<1>2. CASE dispatched = << >>
  BY <1>1, <1>2 DEF Queue!Latest, Queue!LastSequence
<1>3. CASE dispatched # << >>
  <2>1. Len(dispatched) \in 1..Len(dispatched)
    BY <1>1, <1>3, EmptySeq
  <2>2. Queue!Latest \in 1..Len(sent)
    BY <1>1, <1>3, <2>1 DEF Queue!Latest
  <2>3. sent[Queue!Latest] \in Packets
    BY <1>1, <2>2
  <2>4. QED
    BY <1>3, <2>2, <2>3, StreamAssumption DEF Packet, Queue!LastSequence
<1>4. QED
  BY <1>2, <1>3

LEMMA SendStream ==
  ASSUME TypeOK, NEW pos, NEW gone, NEW parsed, Known(pos, gone, parsed),
         NEW packet \in Packets, Send(packet)
  PROVE  \E further : Known(further, gone, parsed)'
<1>1. /\ sent \in Seq(Packets) /\ Len(sent) \in Nat /\ wire \in Seq(Byte) /\ buffer \in Seq(Byte)
      /\ expected \in 0..Len(sent) /\ packets \in Seq(1..Len(sent)) /\ Len(sent) < MaxPackets
      /\ pos \in [Nat -> Int] /\ gone \in Nat /\ parsed \in 0..Len(sent)
      /\ Laid(buffer, wire, sent, pos, gone)
  <2>1. sent \in Seq(Packets) /\ Len(sent) \in Nat /\ wire \in Seq(Byte) /\ buffer \in Seq(Byte)
    BY DEF TypeOK
  <2>2. expected \in 0..Len(sent) /\ packets \in Seq(1..Len(sent))
    BY DEF TypeOK
  <2>3. QED
    BY <2>1, <2>2 DEF Send, Known
<1>2. /\ sent' = Append(sent, packet) /\ wire' = wire \o Bytes(Len(sent) + 1, 1, HeaderSize + packet.length)
      /\ UNCHANGED <<buffer, expected, packets, last_sequence, dispatched>>
  BY DEF Send, parserVars, receiverVars
<1>3. PICK further \in [Nat -> Int] :
        /\ \A n \in 1..(Len(sent) + 1) : further[n] = pos[n]
        /\ Laid(buffer, wire', sent', further, gone)
  <2>1. \E further \in [Nat -> Int] :
          /\ \A n \in 1..(Len(sent) + 1) : further[n] = pos[n]
          /\ Laid(buffer, wire \o Bytes(Len(sent) + 1, 1, HeaderSize + packet.length),
                  Append(sent, packet), further, gone)
    <3>1. Laid(buffer, wire, sent, pos, gone) /\ Len(sent) < MaxPackets
      BY <1>1
    <3>2. QED
      BY <3>1, LaidSent
  <2>2. QED
    BY <1>2, <2>1
<1>4. Len(sent') = Len(sent) + 1 /\ \A n \in 1..Len(sent) : sent'[n] = sent[n]
  BY <1>1, <1>2, LongerStream
<1>5. Aligned(further, gone, parsed)'
  <2>1. parsed + 1 \in 1..(Len(sent) + 1)
    BY <1>1
  <2>2. further[parsed + 1] = pos[parsed + 1]
    BY <1>3, <2>1
  <2>3. CASE expected = 0
    BY <1>2, <2>2, <2>3 DEF Known, Aligned
  <2>4. CASE expected # 0
    <3>1. expected \in 1..Len(sent) /\ expected \in 1..(Len(sent) + 1)
      BY <1>1, <2>4
    <3>2. further[expected] = pos[expected] /\ sent'[expected] = sent[expected]
      BY <1>3, <1>4, <3>1
    <3>3. QED
      BY <1>2, <2>4, <3>2 DEF Known, Aligned
  <2>5. QED
    BY <2>3, <2>4
<1>6. Consecutive(parsed)'
  <2>1. \A k \in 1..Len(packets) : sent'[packets[k]] = sent[packets[k]]
    <3>1. packets \in [1..Len(packets) -> 1..Len(sent)]
      BY <1>1, LenProperties
    <3>2. QED
      BY <1>4, <3>1
  <2>2. QED
    BY <1>2, <2>1 DEF Known, Consecutive
<1>7. Numbered(parsed - Len(packets))'
  <2> DEFINE handled == parsed - Len(packets)
  <2>1. Numbered(handled) /\ Len(packets) \in Nat /\ handled <= Len(sent) /\ handled \in Int
    <3>1. Len(packets) \in Nat /\ Len(sent) \in Nat /\ parsed \in 0..Len(sent)
      BY <1>1
    <3>2. handled <= Len(sent) /\ handled \in Int
      BY <3>1
    <3>3. QED
      BY <3>1, <3>2 DEF Known
  <2>2. (Queue!Latest)' = Queue!Latest
    BY <1>2 DEF Queue!Latest
  <2>3. (Queue!LastSequence)' = Queue!LastSequence
    BY <1>2, <1>4, <2>2, LatestSent DEF Queue!LastSequence
  <2>4. \A m \in (Queue!Latest + 1)..handled : sent'[m] = sent[m]
    <3>1. \A m \in (Queue!Latest + 1)..handled : m \in 1..Len(sent)
      BY <2>1, LatestSent
    <3>2. QED
      BY <1>4, <3>1
  <2>5. handled' = handled
    BY <1>2
  <2> HIDE DEF handled
  <2>6. Numbered(handled)'
    BY <1>2, <2>1, <2>2, <2>3, <2>4, <2>5 DEF Numbered
  <2>7. QED
    BY <2>6 DEF handled
<1>8. further \in [Nat -> Int] /\ parsed \in 0..Len(sent')
  <2>1. Len(sent) \in Nat /\ parsed \in 0..Len(sent) /\ Len(sent') = Len(sent) + 1
    BY <1>1, <1>4
  <2>2. QED
    BY <2>1
<1>9. Known(further, gone, parsed)'
  BY <1>1, <1>2, <1>3, <1>5, <1>6, <1>7, <1>8 DEF Known
<1>10. QED
  BY <1>9

LEMMA ReadStream ==
  ASSUME TypeOK, NEW pos, NEW gone, NEW parsed, Known(pos, gone, parsed),
         NEW n \in 1..ChunkSize, Read(n), Fits(n)
  PROVE  Known(pos, gone, parsed)'
<1>1. /\ sent \in Seq(Packets) /\ wire \in Seq(Byte) /\ buffer \in Seq(Byte)
      /\ pos \in [Nat -> Int] /\ gone \in Nat /\ Laid(buffer, wire, sent, pos, gone)
  BY DEF TypeOK, Known
<1>2. n \in 0..Len(wire)
  BY <1>1 DEF Read
<1>3. Laid(buffer, wire, sent, pos, gone)'
  <2>1. Laid(buffer \o First(wire, n), From(wire, n), sent, pos, gone)
    BY <1>1, <1>2, LaidRead
  <2>2. buffer' = buffer \o First(wire, n) /\ wire' = From(wire, n) /\ sent' = sent
    BY DEF Read
  <2>3. QED
    BY <2>1, <2>2
<1>4. UNCHANGED <<sent, expected, packets, last_sequence, dispatched>>
  BY DEF Read, receiverVars
<1>5. QED
  BY <1>3, <1>4 DEF Known, Aligned, Consecutive, Numbered, Queue!Latest, Queue!LastSequence

LEMMA HeaderStream ==
  ASSUME TypeOK, NEW pos, NEW gone, NEW parsed, Known(pos, gone, parsed), ParseHeader,
         IsHeader(First(buffer, HeaderSize)) /\ sent[buffer[1].packet].length <= MaxPayload
  PROVE  Known(pos, gone + HeaderSize, parsed)'
<1>1. /\ sent \in Seq(Packets) /\ wire \in Seq(Byte) /\ buffer \in Seq(Byte)
      /\ pos \in [Nat -> Int] /\ gone \in Nat /\ parsed \in 0..Len(sent) /\ Laid(buffer, wire, sent, pos, gone)
      /\ expected = 0 /\ Len(buffer) >= HeaderSize
  BY DEF TypeOK, Known, ParseHeader
<1>2. HeaderSize \in 0..Len(buffer) /\ HeaderSize \in Nat
  BY <1>1, StreamAssumption
<1>3. /\ parsed + 1 \in 1..Len(sent) /\ buffer[1].packet = parsed + 1
      /\ First(buffer, HeaderSize)[1].packet = parsed + 1
  BY <1>1, HeaderFound
<1>4. gone + HeaderSize \in Nat /\ Laid(buffer, wire, sent, pos, gone + HeaderSize)'
  <2>1. gone + HeaderSize \in Nat /\ Laid(From(buffer, HeaderSize), wire, sent, pos, gone + HeaderSize)
    BY <1>1, <1>2, LaidCut
  <2>2. QED
    BY <2>1 DEF ParseHeader, senderVars
<1>5. Aligned(pos, gone + HeaderSize, parsed)'
  <2>1. expected' = parsed + 1 /\ expected' # 0 /\ sent' = sent
    BY <1>1, <1>3 DEF ParseHeader, senderVars
  <2>2. pos[parsed + 1] = gone + 1
    BY <1>1 DEF Known, Aligned
  <2>3. pos[parsed + 1] + HeaderSize = (gone + HeaderSize) + 1
    BY <1>1, <1>2, <2>2
  <2>4. sent[parsed + 1].damage # "header" /\ sent[parsed + 1].length <= MaxPayload
    BY <1>3 DEF IsHeader
  <2>5. QED
    BY <2>1, <2>3, <2>4 DEF Aligned
<1>6. UNCHANGED <<sent, packets, last_sequence, dispatched>>
  BY DEF ParseHeader, senderVars, receiverVars
<1>7. QED
  BY <1>4, <1>5, <1>6 DEF Known, Consecutive, Numbered, Queue!Latest, Queue!LastSequence

LEMMA PayloadStream ==
  ASSUME TypeOK, NEW pos, NEW gone, NEW parsed, Known(pos, gone, parsed), ParsePayload,
         IsPayload(First(buffer, ExpectedLength))
  PROVE  \E further \in Nat : Known(pos, further, parsed + 1)'
<1>1. /\ sent \in Seq(Packets) /\ wire \in Seq(Byte) /\ buffer \in Seq(Byte) /\ packets \in Seq(1..Len(sent))
      /\ expected \in 1..Len(sent) /\ Len(buffer) >= ExpectedLength
  BY DEF TypeOK, ParsePayload
<1> PICK l \in Nat : l = Len(packets)
  BY <1>1
<1>2. /\ pos \in [Nat -> Int] /\ gone \in Nat /\ Laid(buffer, wire, sent, pos, gone)
      /\ Consecutive(parsed) /\ Numbered(parsed - Len(packets)) /\ parsed \in Nat
  <2>1. parsed \in Nat
    BY <1>1 DEF Known
  <2>2. QED
    BY <2>1 DEF Known
<1>3. expected = parsed + 1 /\ ExpectedLength \in Nat
  BY <1>1, PayloadFound
<1> PICK long \in Nat : long = ExpectedLength
  BY <1>3
<1>4. /\ buffer' = From(buffer, long) /\ expected' = 0 /\ packets' = Append(packets, expected)
      /\ UNCHANGED <<sent, wire, last_sequence, dispatched>>
  BY DEF ParsePayload, senderVars, receiverVars
<1>5. gone + long \in Nat /\ Laid(buffer, wire, sent, pos, gone + long)'
  <2>1. long \in 0..Len(buffer)
    BY <1>1
  <2>2. gone + long \in Nat /\ Laid(From(buffer, long), wire, sent, pos, gone + long)
    BY <1>1, <1>2, <2>1, LaidCut
  <2>3. QED
    BY <1>4, <2>2
<1>6. Aligned(pos, gone + long, parsed + 1)'
  <2> DEFINE start == pos[expected]
  <2>1. start + HeaderSize = gone + 1 /\ start \in Int
    BY <1>1, <1>2 DEF Known, Aligned
  <2>2. pos[expected + 1] = start + Size(sent, expected)
    BY <1>1, <1>2 DEF Laid
  <2>3. Size(sent, expected) = HeaderSize + long
    BY DEF Size, ExpectedLength
  <2> DEFINE next == pos[expected + 1]
  <2> HIDE DEF start, next
  <2>4. next = start + HeaderSize + long
    BY <2>1, <2>2, <2>3, StreamAssumption DEF next
  <2>5. next = (gone + long) + 1
    BY <1>2, <2>1, <2>4, StreamAssumption
  <2>6. pos[(parsed + 1) + 1] = (gone + long) + 1
    BY <1>3, <2>5 DEF next
  <2>7. QED
    BY <1>4, <2>6 DEF Aligned
<1>7. sent[expected].damage = "none"
  <2>1. sent[expected].damage # "header"
    <3>1. expected # 0 /\ Aligned(pos, gone, parsed)
      BY <1>1 DEF Known
    <3>2. QED
      BY <3>1 DEF Aligned
  <2>2. sent[expected].damage # "payload"
    BY DEF IsPayload
  <2>3. sent[expected] \in Packet
    BY <1>1, StreamAssumption
  <2>4. QED
    BY <2>1, <2>2, <2>3 DEF Packet
<1>8. Consecutive(parsed + 1)' /\ (parsed + 1) - Len(packets') = parsed - l
  <2>0. parsed \in Nat
    BY <1>2
  <2>1. l \in Nat /\ l <= parsed /\ \A k \in 1..l : packets[k] = parsed - l + k /\ sent[packets[k]].damage = "none"
    BY <1>1, <1>2 DEF Consecutive
  <2>2. Len(packets') = l + 1 /\ packets'[l + 1] = expected /\ \A k \in 1..l : packets'[k] = packets[k]
    BY <1>1, <1>4, AppendProperties
  <2>3. Len(packets') <= parsed + 1 /\ (parsed + 1) - Len(packets') = parsed - l
    BY <1>2, <2>1, <2>2
  <2>4. ASSUME NEW k \in 1..Len(packets')
        PROVE  packets'[k] = parsed - l + k /\ sent[packets'[k]].damage = "none"
    <3>1. CASE k \in 1..l
      BY <2>1, <2>2, <3>1
    <3>2. CASE k = l + 1
      <4>1. parsed - l + (l + 1) = parsed + 1
        BY <2>0
      <4>2. QED
        BY <1>3, <1>7, <2>2, <3>2, <4>1
    <3>3. k \in 1..l \/ k = l + 1
      BY <2>1, <2>2
    <3>4. QED
      BY <3>1, <3>2, <3>3
  <2>5. QED
    BY <1>4, <2>3, <2>4 DEF Consecutive
<1>9. Numbered((parsed + 1) - Len(packets))'
  <2> DEFINE left == (parsed + 1) - Len(packets)
  <2>0. parsed \in Nat /\ parsed - l \in Int
    BY <1>2
  <2> PICK handled \in Int : handled = parsed - l
    BY <2>0
  <2>1. Numbered(handled)
    BY <1>2
  <2>2. left' = handled
    BY <1>8
  <2> HIDE DEF left
  <2>3. Numbered(left)'
    BY <1>4, <2>1, <2>2 DEF Numbered, Queue!Latest, Queue!LastSequence
  <2>4. QED
    BY <2>3 DEF left
<1>10. parsed + 1 \in 0..Len(sent')
  BY <1>1, <1>2, <1>3, <1>4
<1>11. Known(pos, gone + long, parsed + 1)'
  BY <1>2, <1>5, <1>6, <1>8, <1>9, <1>10 DEF Known
<1>12. QED
  BY <1>5, <1>11

\* The next packet to handle is the one after those that were handled.
LEMMA NextHandled ==
  ASSUME TypeOK, NEW pos, NEW gone, NEW parsed, Known(pos, gone, parsed), packets # << >>
  PROVE  /\ parsed - Len(packets) \in Nat /\ Head(packets) = (parsed - Len(packets)) + 1
         /\ Head(packets) \in 1..Len(sent) /\ sent[Head(packets)].damage = "none"
         /\ sent[Head(packets)].sequence \in Nat
         /\ Len(Tail(packets)) = Len(packets) - 1
         /\ \A k \in 1..(Len(packets) - 1) : Tail(packets)[k] = packets[k + 1]
<1>1. sent \in Seq(Packets) /\ packets \in Seq(1..Len(sent)) /\ Consecutive(parsed)
  BY DEF TypeOK, Known
<1> PICK l \in Nat : l = Len(packets)
  BY <1>1
<1>2. /\ Head(packets) \in 1..Len(sent) /\ Head(packets) = packets[1] /\ l # 0
      /\ Len(Tail(packets)) = l - 1 /\ \A k \in 1..(l - 1) : Tail(packets)[k] = packets[k + 1]
  BY <1>1, EmptySeq, HeadTailProperties
<1>3. parsed \in Nat
  <2>1. Len(sent) \in Nat /\ parsed \in 0..Len(sent)
    BY <1>1 DEF Known
  <2>2. QED
    BY <2>1
<1>4. l <= parsed /\ 1 \in 1..l
  BY <1>1, <1>2 DEF Consecutive
<1>5. packets[1] = parsed - l + 1 /\ sent[packets[1]].damage = "none"
  BY <1>1, <1>4 DEF Consecutive
<1>6. parsed - l \in Nat
  BY <1>3, <1>4
<1>7. sent[Head(packets)].sequence \in Nat
  <2>1. sent[Head(packets)] \in Packets
    BY <1>1, <1>2
  <2>2. QED
    BY <2>1, StreamAssumption DEF Packet
<1>8. QED
  BY <1>2, <1>5, <1>6, <1>7

\* Before anything was dispatched every number is a new one.
LEMMA FirstIsNew ==
  ASSUME TypeOK, NEW pos, NEW gone, NEW parsed, Known(pos, gone, parsed), packets # << >>,
         dispatched = << >>
  PROVE  ~Stale(sent[Head(packets)])
<1>1. last_sequence = -1
  BY DEF Known, Numbered, Queue!LastSequence
<1>2. sent[Head(packets)].sequence \in Nat
  BY NextHandled
<1>3. QED
  BY <1>1, <1>2 DEF Stale

LEMMA HandleStream ==
  ASSUME TypeOK, NEW pos, NEW gone, NEW parsed, Known(pos, gone, parsed), Handle, pc' # "closed"
  PROVE  Known(pos, gone, parsed)'
<1> DEFINE m == Head(packets)
           left == parsed - Len(packets)
<1>1. UNCHANGED <<sent, wire, buffer, expected>> /\ packets # << >>
  BY DEF Handle, senderVars
<1>2. packets' = Tail(packets)
  BY DEF Handle, Reject
<1>3. packets \in Seq(1..Len(sent)) /\ dispatched \in Seq(1..Len(sent)) /\ sent \in Seq(Packets) /\ parsed \in 0..Len(sent)
  BY DEF TypeOK, Known
<1> PICK l \in Nat : l = Len(packets)
  BY <1>3
<1>4. /\ parsed - l \in Nat /\ m = (parsed - l) + 1 /\ m \in 1..Len(sent) /\ sent[m].sequence \in Nat
      /\ Len(packets') = l - 1 /\ \A k \in 1..(l - 1) : packets'[k] = packets[k + 1]
  BY <1>1, <1>2, NextHandled
<1>5. parsed \in Nat
  <2>1. Len(sent) \in Nat
    BY <1>3
  <2>2. QED
    BY <1>3, <2>1
<1>6. Consecutive(parsed)'
  <2>1. l <= parsed /\ \A k \in 1..l : packets[k] = parsed - l + k /\ sent[packets[k]].damage = "none"
    BY DEF Known, Consecutive
  <2>2. Len(packets') <= parsed
    BY <1>4, <1>5, <2>1
  <2>3. ASSUME NEW k \in 1..(l - 1)
        PROVE  packets'[k] = parsed - (l - 1) + k /\ sent'[packets'[k]].damage = "none"
    <3>1. k + 1 \in 1..l /\ parsed - l + (k + 1) = parsed - (l - 1) + k
      BY <1>5
    <3>2. packets'[k] = packets[k + 1] /\ packets[k + 1] = parsed - l + (k + 1) /\ sent[packets[k + 1]].damage = "none"
      BY <1>4, <2>1, <3>1
    <3>3. QED
      BY <1>1, <3>1, <3>2
  <2>4. QED
    BY <1>4, <2>2, <2>3 DEF Consecutive
<1> PICK handled \in Nat : handled = parsed - l
  BY <1>4
<1>7. Numbered(handled) /\ m = handled + 1
  BY <1>4 DEF Known
<1>8. left' = handled + 1
  BY <1>4, <1>5
<1> HIDE DEF m, left
<1>9. Numbered(handled + 1)'
  <2>1. CASE Stale(sent[m])
    <3>1. UNCHANGED <<dispatched, last_sequence>> /\ dispatched # << >>
      BY <1>1, <2>1, FirstIsNew DEF Handle, receiverVars, m
    <3>2. (Queue!Latest)' = Queue!Latest /\ (Queue!LastSequence)' = Queue!LastSequence
      BY <1>1, <3>1 DEF Queue!Latest, Queue!LastSequence
    <3>3. Queue!Latest \in Nat /\ last_sequence = Queue!LastSequence /\ Queue!Latest <= handled
      <4>1. Queue!Latest \in Nat
        BY LatestSent
      <4>2. QED
        BY <1>7, <4>1 DEF Numbered
    <3>4. Queue!Latest <= handled + 1 /\ handled + 1 # 0
      BY <3>3
    <3>5. ASSUME NEW n \in (Queue!Latest + 1)..(handled + 1) PROVE sent[n].sequence <= last_sequence
      <4>1. CASE n \in (Queue!Latest + 1)..handled
        BY <1>7, <4>1 DEF Numbered
      <4>2. CASE n = handled + 1
        BY <1>7, <2>1, <4>2 DEF Stale
      <4>3. QED
        BY <3>3, <4>1, <4>2
    <3>6. QED
      BY <1>1, <3>1, <3>2, <3>3, <3>4, <3>5 DEF Numbered
  <2>2. CASE ~Stale(sent[m])
    <3>1. dispatched' = Append(dispatched, m) /\ last_sequence' = sent[m].sequence
      BY <2>2 DEF Handle, Reject, m
    <3>2. /\ dispatched' # << >> /\ dispatched'[Len(dispatched')] = m
      <4>1. Len(dispatched') = Len(dispatched) + 1 /\ dispatched'[Len(dispatched) + 1] = m /\ Len(dispatched) \in Nat
        BY <1>3, <1>4, <3>1, AppendProperties
      <4>2. Len(dispatched') # 0
        BY <4>1
      <4>3. QED
        BY <4>1, <4>2, EmptySeq
    <3>3. (Queue!Latest)' = handled + 1 /\ (Queue!LastSequence)' = last_sequence'
      BY <1>1, <1>7, <3>1, <3>2 DEF Queue!Latest, Queue!LastSequence
    <3>4. ((handled + 1) + 1)..(handled + 1) = {} /\ handled + 1 <= handled + 1 /\ handled + 1 # 0
      OBVIOUS
    <3>5. QED
      BY <3>2, <3>3, <3>4 DEF Numbered
  <2>3. QED
    BY <2>1, <2>2
<1>10. Numbered(left)'
  BY <1>8, <1>9 DEF Numbered
<1>11. QED
  BY <1>1, <1>6, <1>10 DEF Known, Aligned, left

LEMMA StreamInductive ==
  ASSUME TypeOK, StreamInv, [Next]_vars
  PROVE  StreamInv'
<1> SUFFICES ASSUME pc' # "closed" PROVE StreamInv'
  BY DEF StreamInv
<1>1. ASSUME NEW pos, NEW gone, NEW parsed, Known(pos, gone, parsed)' PROVE StreamInv'
  BY <1>1 DEF StreamInv, Known
<1>2. pc # "closed"
  BY DEF Next, vars, Send, Finish, Receiver, Read, ParseHeader, ParsePayload, Fed, Handle, ReadAgain, EndOfFile
<1>3. PICK pos, gone, parsed : Known(pos, gone, parsed)
  BY <1>2 DEF StreamInv, Known
<1>4. ASSUME NEW packet \in Packets, Send(packet) PROVE StreamInv'
  BY <1>1, <1>3, <1>4, SendStream
<1>5. ASSUME NEW n \in 1..ChunkSize, Read(n) PROVE StreamInv'
  <2>1. Fits(n)
    BY <1>5 DEF Read, Reject
  <2>2. QED
    BY <1>1, <1>3, <1>5, <2>1, ReadStream
<1>6. CASE ParseHeader
  <2>1. IsHeader(First(buffer, HeaderSize)) /\ sent[buffer[1].packet].length <= MaxPayload
    BY <1>6 DEF ParseHeader, Reject
  <2>2. QED
    BY <1>1, <1>3, <1>6, <2>1, HeaderStream
<1>7. CASE ParsePayload
  <2>1. IsPayload(First(buffer, ExpectedLength))
    BY <1>7 DEF ParsePayload, Reject
  <2>2. QED
    BY <1>1, <1>3, <1>7, <2>1, PayloadStream
<1>8. CASE Handle
  BY <1>1, <1>3, <1>8, HandleStream
<1>9. CASE Finish \/ Fed \/ ReadAgain \/ UNCHANGED vars
  <2>1. UNCHANGED <<sent, wire, buffer, expected, packets, last_sequence, dispatched>>
    BY <1>9 DEF Finish, Fed, ReadAgain, vars, senderVars, parserVars, receiverVars
  <2>2. Known(pos, gone, parsed)'
    BY <1>3, <2>1 DEF Known, Aligned, Consecutive, Numbered, Queue!Latest, Queue!LastSequence
  <2>3. QED
    BY <1>1, <2>2
<1>10. CASE EndOfFile
  BY <1>10 DEF EndOfFile
<1>11. QED
  BY <1>4, <1>5, <1>6, <1>7, <1>8, <1>9, <1>10 DEF Next, Receiver

LEMMA TypeInductive ==
  ASSUME TypeOK, StreamInv, [Next]_vars
  PROVE  TypeOK'
<1>1. ASSUME NEW packet \in Packets, Send(packet) PROVE TypeOK'
  BY <1>1, SendType
<1>2. ASSUME NEW n \in 1..ChunkSize, Read(n) PROVE TypeOK'
  BY <1>2, ReadType
<1>3. CASE ParseHeader
  <2>1. \E pos, gone, parsed : Known(pos, gone, parsed)
    BY <1>3 DEF ParseHeader, StreamInv, Known
  <2>2. QED
    BY <1>3, <2>1, HeaderType
<1>4. CASE ParsePayload
  BY <1>4, PayloadType
<1>5. CASE Handle
  BY <1>5, HandleType
<1>6. CASE Finish \/ Fed \/ ReadAgain \/ EndOfFile \/ UNCHANGED vars
  BY <1>6, OtherType
<1>7. QED
  BY <1>1, <1>2, <1>3, <1>4, <1>5, <1>6 DEF Next, Receiver

LEMMA StreamInvariant == Spec => [](TypeOK /\ StreamInv)
<1>1. Init => TypeOK /\ StreamInv
  BY InitType, InitStream
<1>2. TypeOK /\ StreamInv /\ [Next]_vars => TypeOK' /\ StreamInv'
  BY TypeInductive, StreamInductive
<1>3. QED
  BY <1>1, <1>2, PTL DEF Spec

\* However much is sent and however it is cut: every variable has its type, and the buffer
\* never holds more than one packet of the maximal size (PacketParser.feed).
THEOREM StreamType == Spec => []TypeOK
<1>1. QED
  BY StreamInvariant, PTL

-----------------------------------------------------------------------------
(* What is rejected *)

\* A chunk finds no room only behind the beginning of a packet that is too long for it.
LEMMA ReadRejects ==
  ASSUME TypeOK, NEW n \in 1..ChunkSize, Read(n), ~Fits(n)
  PROVE  \E k \in DOMAIN sent : ~Acceptable(k)
<1>1. sent \in Seq(Packets) /\ buffer \in Seq(Byte) /\ expected \in 0..Len(sent) /\ Incomplete
  BY DEF TypeOK, Read
<1> PICK l \in Nat : l = Len(buffer)
  BY <1>1
<1>2. ChunkSize \in 1..(MaxPayload + 1) /\ HeaderSize \in Nat /\ MaxPayload \in Nat
  BY StreamAssumption
<1>3. l + n > MaxPayload + HeaderSize
  <2>1. ~(l + n <= MaxPayload + HeaderSize)
    BY DEF Fits
  <2>2. QED
    BY <1>2, <2>1
<1>4. expected # 0
  <2>1. ASSUME expected = 0 PROVE FALSE
    <3>1. l < HeaderSize
      BY <1>1, <2>1 DEF Incomplete
    <3>2. QED
      BY <1>2, <1>3, <3>1
  <2>2. QED
    BY <2>1
<1>5. expected \in 1..Len(sent) /\ expected \in DOMAIN sent
  BY <1>1, <1>4
<1> PICK long \in Nat : long = sent[expected].length
  BY <1>1, <1>5, SizeNat
<1>6. l < long
  BY <1>1, <1>4 DEF Incomplete, ExpectedLength
<1>7. ~(long + ChunkSize <= MaxPayload + HeaderSize + 1)
  BY <1>2, <1>3, <1>6
<1>8. ~Acceptable(expected)
  BY <1>7 DEF Acceptable
<1>9. QED
  BY <1>5, <1>8

LEMMA HeaderRejects ==
  ASSUME TypeOK, NEW pos, NEW gone, NEW parsed, Known(pos, gone, parsed), ParseHeader,
         ~(IsHeader(First(buffer, HeaderSize)) /\ sent[buffer[1].packet].length <= MaxPayload)
  PROVE  \E k \in DOMAIN sent : ~Acceptable(k)
<1>1. sent \in Seq(Packets) /\ expected = 0 /\ Len(buffer) >= HeaderSize
  BY DEF TypeOK, ParseHeader
<1>2. /\ parsed + 1 \in 1..Len(sent) /\ buffer[1].packet = parsed + 1
      /\ First(buffer, HeaderSize) = Bytes(parsed + 1, 1, HeaderSize)
      /\ First(buffer, HeaderSize)[1].packet = parsed + 1
  BY <1>1, HeaderFound
<1>3. parsed + 1 \in DOMAIN sent
  BY <1>1, <1>2
<1>4. sent[parsed + 1].damage = "header" \/ ~(sent[parsed + 1].length <= MaxPayload)
  BY <1>2 DEF IsHeader
<1>5. ~Acceptable(parsed + 1)
  BY <1>4 DEF Acceptable
<1>6. QED
  BY <1>3, <1>5

LEMMA PayloadRejects ==
  ASSUME TypeOK, NEW pos, NEW gone, NEW parsed, Known(pos, gone, parsed), ParsePayload,
         ~IsPayload(First(buffer, ExpectedLength))
  PROVE  \E k \in DOMAIN sent : ~Acceptable(k)
<1>1. sent \in Seq(Packets) /\ expected \in 1..Len(sent) /\ Len(buffer) >= ExpectedLength /\ expected # 0
  BY DEF TypeOK, ParsePayload
<1>2. First(buffer, ExpectedLength) = Bytes(expected, HeaderSize + 1, HeaderSize + ExpectedLength)
  BY <1>1, PayloadFound
<1>3. sent[expected].damage = "payload"
  BY <1>2 DEF IsPayload
<1>4. ~Acceptable(expected) /\ expected \in DOMAIN sent
  BY <1>1, <1>3 DEF Acceptable
<1>5. QED
  BY <1>4

LEMMA HandleRejects ==
  ASSUME TypeOK, NEW pos, NEW gone, NEW parsed, Known(pos, gone, parsed), Handle, pc' = "closed"
  PROVE  \E k \in DOMAIN sent : ~Acceptable(k)
<1> DEFINE m == Head(packets)
<1>1. sent \in Seq(Packets) /\ packets # << >> /\ pc = "dispatch"
  BY DEF TypeOK, Handle
<1>2. m \in 1..Len(sent) /\ m \in DOMAIN sent
  BY <1>1, NextHandled
<1>3. m = 1 <=> dispatched = << >>
  <2> PICK handled \in Nat : handled = parsed - Len(packets) /\ m = handled + 1
    BY <1>1, NextHandled
  <2>1. dispatched = << >> <=> handled = 0
    BY DEF Known, Numbered
  <2>2. handled = 0 <=> handled + 1 = 1
    OBVIOUS
  <2>3. QED
    BY <2>1, <2>2
<1>4. ~(dispatched = << >> <=> sent[m].type = "HELLO")
  BY <1>1 DEF Handle
<1>5. ~Acceptable(m)
  BY <1>3, <1>4 DEF Acceptable
<1>6. QED
  BY <1>2, <1>5

LEMMA RejectedInductive ==
  ASSUME TypeOK, StreamInv, RejectedInv, [Next]_vars
  PROVE  RejectedInv'
<1>1. CASE rejected
  <2>1. pc = "closed" /\ \E n \in DOMAIN sent : ~Acceptable(n)
    BY <1>1 DEF RejectedInv
  <2>2. ASSUME NEW packet \in Packets, Send(packet) PROVE RejectedInv'
    <3>1. sent \in Seq(Packets) /\ sent' = Append(sent, packet) /\ UNCHANGED <<pc, rejected>>
      BY <2>2 DEF TypeOK, Send
    <3>2. PICK n \in 1..Len(sent) : ~Acceptable(n)
      BY <2>1, <3>1
    <3>3. sent'[n] = sent[n] /\ n \in DOMAIN sent'
      BY <3>1, AppendProperties
    <3>4. ~Acceptable(n)'
      BY <3>2, <3>3 DEF Acceptable
    <3>5. QED
      BY <2>1, <3>1, <3>3, <3>4 DEF RejectedInv
  <2>3. CASE Finish \/ UNCHANGED vars
    <3>1. UNCHANGED <<sent, pc, rejected>>
      BY <2>3 DEF Finish, vars, senderVars
    <3>2. QED
      BY <3>1 DEF RejectedInv, Acceptable
  <2>4. ~Receiver
    BY <2>1 DEF Receiver, Read, ParseHeader, ParsePayload, Fed, Handle, ReadAgain, EndOfFile
  <2>5. QED
    BY <2>2, <2>3, <2>4 DEF Next
<1>2. CASE ~rejected
  <2>0. CASE rejected' = rejected
    BY <1>2, <2>0 DEF RejectedInv
  <2> SUFFICES ASSUME rejected' # rejected PROVE RejectedInv'
    BY <2>0
  <2>1. /\ \/ \E n \in 1..ChunkSize : Read(n)
           \/ ParseHeader \/ ParsePayload \/ Handle
        /\ sent' = sent /\ pc # "closed" /\ Reject
    BY DEF Next, vars, Receiver, Send, Finish, Read, ParseHeader, ParsePayload, Fed, Handle, ReadAgain, EndOfFile, senderVars
  <2>2. PICK pos, gone, parsed : Known(pos, gone, parsed)
    BY <2>1 DEF StreamInv, Known
  <2>3. \E k \in DOMAIN sent : ~Acceptable(k)
    <3>1. ASSUME NEW n \in 1..ChunkSize, Read(n) PROVE \E k \in DOMAIN sent : ~Acceptable(k)
      <4>1. ~Fits(n)
        BY <3>1 DEF Read
      <4>2. QED
        BY <3>1, <4>1, ReadRejects
    <3>2. CASE ParseHeader
      <4>1. ~(IsHeader(First(buffer, HeaderSize)) /\ sent[buffer[1].packet].length <= MaxPayload)
        BY <3>2 DEF ParseHeader
      <4>2. QED
        BY <2>2, <3>2, <4>1, HeaderRejects
    <3>3. CASE ParsePayload
      <4>1. ~IsPayload(First(buffer, ExpectedLength))
        BY <3>3 DEF ParsePayload
      <4>2. QED
        BY <2>2, <3>3, <4>1, PayloadRejects
    <3>4. CASE Handle
      <4>1. pc' = "closed"
        BY <2>1 DEF Reject
      <4>2. QED
        BY <2>2, <3>4, <4>1, HandleRejects
    <3>5. QED
      BY <2>1, <3>1, <3>2, <3>3, <3>4
  <2>4. QED
    BY <2>1, <2>3 DEF RejectedInv, Reject, Acceptable
<1>3. QED
  BY <1>1, <1>2

\* Only damage, a packet out of protocol or one that leaves too little room for a chunk ends a
\* connection with a ProtocolError, for every way the stream is cut (feed, _handle_connection).
THEOREM LegalStreamStands == Spec => []LegalStreamAccepted
<1>1. Init => RejectedInv
  BY DEF Init, RejectedInv
<1>2. TypeOK /\ StreamInv /\ RejectedInv /\ [Next]_vars => RejectedInv'
  BY RejectedInductive
<1>3. RejectedInv => LegalStreamAccepted
  BY DEF RejectedInv, LegalStreamAccepted
<1>4. QED
  BY <1>1, <1>2, <1>3, StreamInvariant, PTL DEF Spec

-----------------------------------------------------------------------------
(* What is dispatched *)

LEMMA QueueInit == Init => Queue!Init
BY DEF Init, Queue!Init

\* A packet is dispatched after the one before it, and only numbers that do not grow lie between.
LEMMA QueueDispatch ==
  ASSUME TypeOK, NEW pos, NEW gone, NEW parsed, Known(pos, gone, parsed), Handle, pc' # "closed",
         ~Stale(sent[Head(packets)])
  PROVE  Queue!Dispatch(Head(packets)) /\ Head(packets) \in 1..Len(sent)
<1> DEFINE m == Head(packets)
<1>1. sent \in Seq(Packets) /\ packets # << >> /\ pc = "dispatch" /\ UNCHANGED <<sent, pc>>
  BY DEF TypeOK, Handle, Reject, senderVars
<1> PICK handled \in Nat : handled = parsed - Len(packets) /\ m = handled + 1
  BY <1>1, NextHandled
<1>2. m \in 1..Len(sent) /\ sent[m].damage = "none" /\ sent[m].sequence \in Nat
  BY <1>1, NextHandled
<1>3. /\ last_sequence = Queue!LastSequence /\ Queue!Latest <= handled
      /\ \A k \in (Queue!Latest + 1)..handled : sent[k].sequence <= last_sequence
  BY DEF Known, Numbered
<1>4. dispatched' = Append(dispatched, m) /\ (dispatched = << >> <=> sent[m].type = "HELLO")
  BY <1>1 DEF Handle, Reject
<1>5. sent[m].sequence > Queue!LastSequence
  <2>1. ~(sent[m].sequence <= Queue!LastSequence)
    BY <1>3 DEF Stale
  <2>2. QED
    BY <1>2, <2>1, LatestSent
<1>6. m \in (Queue!Latest + 1)..Len(sent)
  <2>1. Queue!Latest \in Nat /\ Len(sent) \in Nat
    BY <1>1, LatestSent
  <2>2. QED
    BY <1>2, <1>3, <2>1
<1>7. \A k \in (Queue!Latest + 1)..(m - 1) : sent[k].sequence <= Queue!LastSequence
  <2>1. m - 1 = handled
    OBVIOUS
  <2>2. QED
    BY <1>3, <2>1
<1>8. (pc # "closed") /\ (pc # "closed")' = (pc # "closed")
  BY <1>1
<1> HIDE DEF m
<1>9. Queue!Dispatch(m)
  BY <1>1, <1>2, <1>4, <1>5, <1>6, <1>7, <1>8 DEF Queue!Dispatch
<1>10. QED
  BY <1>2, <1>9 DEF m

LEMMA QueueStep ==
  ASSUME TypeOK, StreamInv, [Next]_vars
  PROVE  [Queue!Next]_(Queue!queueVars)
<1>1. ASSUME UNCHANGED <<sent, dispatched>>, pc' = "closed" <=> pc = "closed" PROVE UNCHANGED Queue!queueVars
  BY <1>1 DEF Queue!queueVars
<1>2. ASSUME UNCHANGED <<sent, dispatched>>, pc # "closed", pc' = "closed" PROVE Queue!Next
  BY <1>2 DEF Queue!Next, Queue!End
<1>3. ASSUME NEW packet \in Packets, Send(packet) PROVE Queue!Next
  <2>1. sent \in Seq(Packets) /\ sent' = Append(sent, packet) /\ UNCHANGED <<dispatched, pc>>
    BY <1>3 DEF TypeOK, Send, receiverVars
  <2>2. Len(sent') = Len(sent) + 1 /\ \A n \in 1..Len(sent) : sent'[n] = sent[n]
    BY <2>1, AppendProperties
  <2>3. QED
    BY <2>1, <2>2 DEF Queue!Next, Queue!Put
<1>4. CASE Handle /\ pc' # "closed"
  <2>1. pc = "dispatch" /\ UNCHANGED sent
    BY <1>4 DEF Handle, senderVars
  <2>2. PICK pos, gone, parsed : Known(pos, gone, parsed)
    BY <2>1 DEF StreamInv, Known
  <2>3. CASE Stale(sent[Head(packets)])
    <3>1. UNCHANGED <<sent, dispatched, pc>>
      BY <1>4, <2>1, <2>3 DEF Handle, receiverVars
    <3>2. QED
      BY <1>1, <3>1
  <2>4. CASE ~Stale(sent[Head(packets)])
    <3>1. Queue!Dispatch(Head(packets)) /\ Head(packets) \in 1..Len(sent)
      BY <1>4, <2>2, <2>4, QueueDispatch
    <3>2. QED
      BY <3>1 DEF Queue!Next
  <2>5. QED
    BY <2>3, <2>4
<1>5. CASE Handle /\ pc' = "closed"
  <2>1. UNCHANGED <<sent, dispatched>> /\ pc # "closed"
    BY <1>5 DEF Handle, senderVars, receiverVars
  <2>2. QED
    BY <1>2, <1>5, <2>1
<1>6. CASE (\E n \in 1..ChunkSize : Read(n)) \/ ParseHeader \/ ParsePayload \/ Fed \/ ReadAgain \/ EndOfFile
  <2>1. UNCHANGED <<sent, dispatched>> /\ pc # "closed"
    BY <1>6 DEF Read, ParseHeader, ParsePayload, Fed, ReadAgain, EndOfFile, senderVars, receiverVars
  <2>2. QED
    BY <1>1, <1>2, <2>1
<1>7. CASE Finish \/ UNCHANGED vars
  <2>1. UNCHANGED <<sent, dispatched, pc>>
    BY <1>7 DEF Finish, vars, senderVars, receiverVars
  <2>2. QED
    BY <1>1, <2>1
<1>8. QED
  BY <1>3, <1>4, <1>5, <1>6, <1>7 DEF Next, Receiver

\* The safety of ImplementsQueue: the receiver dispatches what was sent, in order, undamaged and
\* without gaps, for every way the stream is cut (PacketParser and _handle_connection).
THEOREM StreamIsQueue == Spec => Queue!Init /\ [][Queue!Next]_(Queue!queueVars)
<1>1. TypeOK /\ StreamInv /\ [Next]_vars => [Queue!Next]_(Queue!queueVars)
  BY QueueStep
<1>2. QED
  BY <1>1, QueueInit, StreamInvariant, PTL DEF Spec
=============================================================================
