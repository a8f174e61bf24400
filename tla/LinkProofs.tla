----------------------------- MODULE LinkProofs -----------------------------
(***************************************************************************)
(* Theorems about Link, for any message and any damage:                    *)
(*                                                                         *)
(*   OnlyDestinationPortLostAlways  of a compressed UDP datagram: the ids, *)
(*       the body behind the header, the two headers                       *)
(*   UndamagedArrivesAlways  datagrams through their checksum, and control *)
(*       datagrams                                                         *)
(*   PacketReadBack          the rows of a layout, and the PDUs            *)
(*   GolayDecodes            the division by the generator, and the        *)
(*       distance of the code                                              *)
(*   ChecksumPasses          octets bit by bit, the field's multiplication,*)
(*       the register of the encoder                                       *)
(*   BPTCSurvives            the Hamming codes, one pass, one sweep, all   *)
(*       of them; the interleaving                                         *)
(*   DataSurvivesAlways      slot type, block and burst in their frame     *)
(*   QRDecodes               the same for the code of the signalling       *)
(*   VoiceSurvivesAlways     the words of a vocoder frame, their places    *)
(*       and their scrambling; the parts of a voice burst                  *)
(*   Rate34SurvivesAlways    the paths of the trellis, the first try, the  *)
(*       bits of a point                                                   *)
(***************************************************************************)
EXTENDS Link, FiniteSetTheorems, SequenceTheorems, WellFoundedInduction, TLAPS

-----------------------------------------------------------------------------
(* A pair of octets is a sequence of two. *)
LEMMA PairIsSeq ==
  ASSUME NEW x \in Octet \X Octet
  PROVE  x \in Seq(Octet) /\ Len(x) = 2
<1>1. PICK a \in Octet, b \in Octet : x = <<a, b>>
  OBVIOUS
<1>2. <<a, b>> \in Seq(Octet) /\ Len(<<a, b>>) = 2
  OBVIOUS
<1>3. QED
  BY <1>1, <1>2

(* What follows s in s \o t is t, and what is within s is as in s. *)
LEMMA Behind ==
  ASSUME NEW s \in Seq(Octet), NEW t \in Seq(Octet)
  PROVE  /\ s \o t \in Seq(Octet)
         /\ Len(s \o t) = Len(s) + Len(t)
         /\ SubSeq(s \o t, Len(s) + 1, Len(s \o t)) = t
         /\ \A i \in 1..Len(s) : (s \o t)[i] = s[i]
         /\ \A i, j \in 1..Len(s) : SubSeq(s \o t, i, j) = SubSeq(s, i, j)
<1>1. /\ s \o t \in Seq(Octet)
      /\ Len(s \o t) = Len(s) + Len(t)
      /\ \A i \in 1..Len(s) + Len(t) : (s \o t)[i] =
           IF i <= Len(s) THEN s[i] ELSE t[i - Len(s)]
  BY ConcatProperties
<1>2. Len(s) \in Nat /\ Len(t) \in Nat
  BY LenProperties
<1>3. \A i, j \in 1..Len(s) : SubSeq(s \o t, i, j) = SubSeq(s, i, j)
  BY SubSeqOfConcat1
<1>4. SubSeq(s \o t, Len(s) + 1, Len(s \o t)) = t
  <2> DEFINE u == SubSeq(s \o t, Len(s) + 1, Len(s \o t))
  <2>1. \A i \in Len(s) + 1 .. Len(s \o t) : (s \o t)[i] \in Octet
    BY <1>1, <1>2, ElementOfSeq
  <2>2. /\ u \in Seq(Octet)
        /\ Len(u) = IF Len(s) + 1 <= Len(s \o t) THEN Len(s \o t) - (Len(s) + 1) + 1 ELSE 0
        /\ \A i \in 1 .. Len(s \o t) - (Len(s) + 1) + 1 : u[i] = (s \o t)[Len(s) + 1 + i - 1]
    BY <2>1, <1>1, <1>2, SubSeqProperties
  <2>3. Len(u) = Len(t)
    BY <2>2, <1>1, <1>2
  <2>4. \A i \in 1 .. Len(u) : u[i] = t[i]
    BY <2>2, <2>3, <1>1, <1>2
  <2>5. QED
    BY <2>2, <2>3, <2>4, SeqEqual
<1>5. QED
  BY <1>1, <1>2, <1>3, <1>4

(* The ids of ports: one octet, 0 for the ports that have none, and read back. *)
LEMMA PortIDs ==
  ASSUME NEW p \in Octet \X Octet, NEW isNew
  PROVE  /\ Port2PortID(p, isNew) \in 0..127
         /\ ~isNew => Port2PortID(p, isNew) \in 0..15
         /\ Port2PortID(p, isNew) = 0 <=> p \notin DOMAIN PortID
         /\ p \in DOMAIN PortID => PortID2Port(Port2PortID(p, isNew), isNew) = p
<1>1. DOMAIN PortID = {<<15, 161>>, <<15, 165>>, <<15, 167>>, <<15, 168>>}
  BY DEF PortID
<1>2. \A q \in DOMAIN PortID : PortID[q] \in 1..5
  BY DEF PortID
<1>3. \A q, r \in DOMAIN PortID : PortID[q] = PortID[r] => q = r
  BY DEF PortID
<1>4. Shift(isNew) \in {0, 94} /\ (~isNew => Shift(isNew) = 0)
  BY DEF Shift, NewConstant
<1>5. CASE p \notin DOMAIN PortID
  BY <1>5 DEF Port2PortID
<1>6. CASE p \in DOMAIN PortID
  <2>1. PICK id : id = Port2PortID(p, isNew)
    OBVIOUS
  <2>2. id = PortID[p] + Shift(isNew)
    BY <1>6, <2>1 DEF Port2PortID
  <2>3. id - Shift(isNew) = PortID[p]
    BY <1>2, <1>4, <1>6, <2>2
  <2>4. \A q \in DOMAIN PortID : PortID[q] = id - Shift(isNew) <=> q = p
    BY <1>3, <1>6, <2>3
  <2>5. (CHOOSE q \in DOMAIN PortID : PortID[q] = id - Shift(isNew)) = p
    BY <1>6, <2>4
  <2>6. PortID2Port(id, isNew) = p
    BY <1>6, <2>4, <2>5 DEF PortID2Port
  <2>7. QED
    BY <1>2, <1>4, <1>6, <2>1, <2>2, <2>6
<1>7. QED
  BY <1>5, <1>6

(* The addresses of known networks in one octet, and read back. *)
LEMMA NetworkIDs ==
  ASSUME NEW p \in Datagrams, {p.src_net, p.dst_net} \subseteq DOMAIN AddressID
  PROVE  /\ Addresses(p) \in Octet
         /\ AddressID2Network(Addresses(p) \div 16) = p.src_net
         /\ AddressID2Network(Addresses(p) % 16) = p.dst_net
<1>1. DOMAIN AddressID = {12, 13, 225}
  BY DEF AddressID
<1>2. \A n \in DOMAIN AddressID : AddressID[n] \in 0..2
  BY DEF AddressID
<1>3. \A n, o \in DOMAIN AddressID : AddressID[n] = AddressID[o] => n = o
  BY DEF AddressID
<1>4. \A n \in DOMAIN AddressID : AddressID2Network(AddressID[n]) = n
  <2> SUFFICES ASSUME NEW n \in DOMAIN AddressID
               PROVE  AddressID2Network(AddressID[n]) = n
    OBVIOUS
  <2>1. (CHOOSE o \in DOMAIN AddressID : AddressID[o] = AddressID[n]) = n
    BY <1>3
  <2>2. QED
    BY <2>1 DEF AddressID2Network
<1>5. PICK high \in 0..2, low \in 0..2 :
        high = AddressID[p.src_net] /\ low = AddressID[p.dst_net]
  BY <1>2
<1>6. Addresses(p) = 16 * high + low
  BY <1>5 DEF Addresses, Nibbles, Network2AddressID
<1>7. /\ 16 * high + low \in Octet
      /\ (16 * high + low) \div 16 = high
      /\ (16 * high + low) % 16 = low
  BY DEF Octet
<1>8. AddressID2Network(high) = p.src_net /\ AddressID2Network(low) = p.dst_net
  BY <1>4, <1>5
<1>9. QED
  BY <1>6, <1>7, <1>8

(* Two octets in a row are a 16-bit field. *)
LEMMA ReadPair ==
  ASSUME NEW s \in Seq(Octet), Len(s) = 2
  PROVE  s \in Octet \X Octet
<1>1. s[1] \in Octet /\ s[2] \in Octet
  <2>1. s \in [1..Len(s) -> Octet]
    BY LenProperties
  <2>2. 1 \in 1..Len(s) /\ 2 \in 1..Len(s)
    OBVIOUS
  <2>3. QED
    BY <2>1, <2>2
<1>2. s = <<s[1], s[2]>>
  <2>1. <<s[1], s[2]>> \in Seq(Octet)
    BY <1>1
  <2>2. QED
    BY <2>1, SeqEqual
<1>3. QED
  BY <1>1, <1>2

(* readUInt16BE throws or reads a field. *)
LEMMA UInt16Read ==
  ASSUME NEW body \in Seq(Octet), NEW offset \in Nat, offset + 2 <= Len(body)
  PROVE  ReadUInt16(body, offset) \in Octet \X Octet
<1>1. Len(body) \in Nat
  BY LenProperties
<1>2. \A i \in offset + 1 .. offset + 2 : body[i] \in Octet
  BY <1>1, ElementOfSeq
<1>3. /\ SubSeq(body, offset + 1, offset + 2) \in Seq(Octet)
      /\ Len(SubSeq(body, offset + 1, offset + 2)) =
           IF offset + 1 <= offset + 2 THEN (offset + 2) - (offset + 1) + 1 ELSE 0
  BY <1>2, SubSeqProperties
<1>4. Len(SubSeq(body, offset + 1, offset + 2)) = 2
  BY <1>3
<1>5. QED
  BY <1>3, <1>4, ReadPair DEF ReadUInt16

LEMMA InlinePort ==
  ASSUME NEW x \in Octet \X Octet, NEW id \in Nat
  PROVE  /\ Inline(id, x) \in Seq(Octet)
         /\ Len(Inline(id, x)) = (IF id = 0 THEN 2 ELSE 0)
<1>1. CASE id = 0
  BY <1>1, PairIsSeq DEF Inline
<1>2. CASE id # 0
  BY <1>2, EmptySeq DEF Inline
<1>3. QED
  BY <1>1, <1>2

-----------------------------------------------------------------------------
(* What throws: an inline destination port alone before less than two octets. *)
Short(p) == /\ p.src_port \in DOMAIN PortID
            /\ p.dst_port \notin DOMAIN PortID
            /\ Len(p.payload) < 2

LEMMA BodyLength ==
  ASSUME NEW p \in Datagrams, NEW spid \in 0..127, NEW dpid \in 0..127
  PROVE  /\ Body(p, spid, dpid) \in Seq(Octet)
         /\ Len(Body(p, spid, dpid)) = DataOffset(spid, dpid) + Len(p.payload)
<1>1. /\ p.src_port \in Octet \X Octet
      /\ p.dst_port \in Octet \X Octet
      /\ p.payload \in Seq(Octet)
  BY DEF Datagrams
<1>2. spid \in Nat /\ dpid \in Nat
  OBVIOUS
<1>3. PICK s \in Seq(Octet) : /\ s = Inline(spid, p.src_port)
                             /\ Len(s) = (IF spid = 0 THEN 2 ELSE 0)
  BY <1>1, <1>2, InlinePort
<1>4. PICK d \in Seq(Octet) : /\ d = Inline(dpid, p.dst_port)
                             /\ Len(d) = (IF dpid = 0 THEN 2 ELSE 0)
  BY <1>1, <1>2, InlinePort
<1>5. PICK payload \in Seq(Octet) : payload = p.payload
  BY <1>1
<1>6. s \o d \in Seq(Octet) /\ Len(s \o d) = Len(s) + Len(d)
  BY Behind
<1>7. /\ (s \o d) \o payload \in Seq(Octet)
      /\ Len((s \o d) \o payload) = Len(s \o d) + Len(payload)
  BY <1>6, Behind
<1>8. Body(p, spid, dpid) = (s \o d) \o payload
  BY <1>3, <1>4, <1>5 DEF Body
<1>9. Len(s) + Len(d) = DataOffset(spid, dpid)
  BY <1>3, <1>4 DEF DataOffset
<1>10. QED
  BY <1>5, <1>6, <1>7, <1>8, <1>9

(***************************************************************************)
(* What is read behind the header: the source port, some destination port  *)
(* (the right one unless it is inline), and the payload.                   *)
(***************************************************************************)
BodyReads(p, isNew, spid, dpid, body) ==
  /\ body \in Seq(Octet)
  /\ SourcePort(body, spid, isNew) = p.src_port
  /\ DestinationPort(body, spid, dpid, isNew) \in Octet \X Octet
  /\ p.dst_port \in DOMAIN PortID =>
       DestinationPort(body, spid, dpid, isNew) = p.dst_port
  /\ SubSeq(body, DataOffset(spid, dpid) + 1, Len(body)) = p.payload

LEMMA BodyRead ==
  ASSUME NEW p \in Datagrams, NEW isNew, ~Short(p),
         NEW spid, spid = Port2PortID(p.src_port, isNew),
         NEW dpid, dpid = Port2PortID(p.dst_port, isNew),
         NEW body, body = Body(p, spid, dpid)
  PROVE  BodyReads(p, isNew, spid, dpid, body)
<1> DEFINE s == Inline(spid, p.src_port)
           d == Inline(dpid, p.dst_port)
<1>1. /\ p.src_port \in Octet \X Octet
      /\ p.dst_port \in Octet \X Octet
      /\ p.payload \in Seq(Octet)
  BY DEF Datagrams
<1>2. spid \in 0..127 /\ dpid \in 0..127
  BY <1>1, PortIDs, ZenonT(60)
<1>3. spid \in Nat /\ dpid \in Nat
  BY <1>2
<1>4. spid # 0 => p.src_port \in DOMAIN PortID /\ PortID2Port(spid, isNew) = p.src_port
  BY <1>1, PortIDs, Zenon
<1>5. dpid # 0 => PortID2Port(dpid, isNew) = p.dst_port
  BY <1>1, PortIDs, Zenon
<1>6. p.dst_port \in DOMAIN PortID <=> dpid # 0
  BY <1>1, PortIDs, Zenon
<1>7. /\ s \in Seq(Octet) /\ Len(s) = (IF spid = 0 THEN 2 ELSE 0)
      /\ d \in Seq(Octet) /\ Len(d) = (IF dpid = 0 THEN 2 ELSE 0)
  BY <1>1, <1>3, InlinePort
<1>8. body = (s \o d) \o p.payload
  BY DEF Body
<1>9. spid = 0 => s = p.src_port
  BY DEF Inline
<1> HIDE DEF s, d
<1>10. Len(p.payload) \in Nat
  BY <1>1, LenProperties
<1>11. /\ s \o d \in Seq(Octet) /\ Len(s \o d) = Len(s) + Len(d)
       /\ \A i, j \in 1..Len(s) : SubSeq(s \o d, i, j) = SubSeq(s, i, j)
  BY <1>7, Behind
<1>12. PICK ports : ports = s \o d
  OBVIOUS
<1>13. /\ body \in Seq(Octet)
       /\ Len(body) = Len(ports) + Len(p.payload)
       /\ SubSeq(body, Len(ports) + 1, Len(body)) = p.payload
       /\ \A i, j \in 1..Len(ports) : SubSeq(body, i, j) = SubSeq(ports, i, j)
  <2>1. body = ports \o p.payload /\ ports \in Seq(Octet)
    BY <1>11, <1>12, <1>8
  <2>2. QED
    BY <1>1, <2>1, Behind
<1>14. /\ Len(ports) = DataOffset(spid, dpid)
       /\ Len(ports) = Len(s) + Len(d)
  BY <1>7, <1>11, <1>12 DEF DataOffset
<1>15. PICK n \in Nat : n = Len(p.payload)
  BY <1>10
<1>16. Len(body) = Len(ports) + n
  BY <1>13, <1>15
<1>17. Len(ports) = Len(s) + Len(d)
  BY <1>14
<1>18. Len(body) = Len(s) + Len(d) + n
  BY <1>16, <1>17
<1>19. Len(d) = (IF dpid = 0 THEN 2 ELSE 0)
  BY <1>7
<1>20. Len(s) = (IF spid = 0 THEN 2 ELSE 0)
  BY <1>7
<1>21. SourcePort(body, spid, isNew) = p.src_port
  <2>1. CASE spid # 0
    BY <1>4, <2>1 DEF SourcePort
  <2>2. CASE spid = 0
    <3>1. Len(s) = 2 /\ s = p.src_port
      BY <1>7, <1>9, <2>2
    <3>2. Len(d) \in Nat /\ Len(body) >= 2
      <4>1. QED
        BY <1>18, <1>19, <1>20, <2>2
    <3>3. SubSeq(body, 1, 2) = SubSeq(ports, 1, 2)
      BY <1>13, <1>14, <3>1, <3>2
    <3>4. SubSeq(body, 1, 2) = SubSeq(s, 1, 2)
      BY <1>11, <1>12, <3>1, <3>3
    <3>5. SubSeq(s, 1, 2) = s
      BY <1>7, <3>1, SubSeqFull
    <3>6. QED
      BY <2>2, <3>1, <3>2, <3>4, <3>5 DEF SourcePort, ReadUInt16
  <2>3. QED
    BY <2>1, <2>2
<1>22. DestinationPort(body, spid, dpid, isNew) \in Octet \X Octet
  <2>1. CASE dpid # 0
    BY <1>1, <1>5, <2>1 DEF DestinationPort
  <2>2. CASE dpid = 0
    <3>1. DestinationOffset(spid) \in Nat /\ DestinationOffset(spid) + 2 <= Len(body)
      <4>1. spid # 0 => ~(Len(p.payload) < 2)
        BY <1>4, <1>6, <2>2, Zenon DEF Short
      <4>2. spid # 0 => ~(n < 2)
        BY <1>15, <4>1
      <4>3. QED
        BY <1>3, <1>18, <1>19, <1>20, <2>2, <4>2 DEF DestinationOffset
    <3>2. QED
      BY <1>13, <2>2, <3>1, UInt16Read DEF DestinationPort
  <2>3. QED
    BY <2>1, <2>2
<1>23. p.dst_port \in DOMAIN PortID =>
         DestinationPort(body, spid, dpid, isNew) = p.dst_port
  BY <1>5, <1>6, Zenon DEF DestinationPort
<1>24. QED
  BY <1>13, <1>14, <1>21, <1>22, <1>23, Zenon DEF BodyReads

(***************************************************************************)
(* The datagram that is read when its header is: the one sent, with some   *)
(* destination port if that is inline.                                     *)
(***************************************************************************)
WithPort(p, port) == [p EXCEPT !.dst_port = port]

Read(p, port) ==
  /\ port \in Octet \X Octet
  /\ p.dst_port \in DOMAIN PortID => port = p.dst_port

LEMMA HeaderRead ==
  ASSUME NEW p \in Datagrams, NEW isNew, ~Short(p),
         {p.src_net, p.dst_net} \subseteq DOMAIN AddressID,
         NEW spid, spid = Port2PortID(p.src_port, isNew),
         NEW dpid, dpid = Port2PortID(p.dst_port, isNew)
  PROVE  \E port : /\ Read(p, port)
                   /\ FromCompressed(p.ident, Addresses(p), spid, dpid,
                                     Body(p, spid, dpid), isNew) = WithPort(p, port)
<1>1. PICK body : body = Body(p, spid, dpid)
  OBVIOUS
<1>2. PICK port : port = DestinationPort(body, spid, dpid, isNew)
  OBVIOUS
<1>3. BodyReads(p, isNew, spid, dpid, body)
  BY <1>1, BodyRead
<1>4. Read(p, port)
  BY <1>2, <1>3, Zenon DEF Read, BodyReads
<1>5. /\ SourcePort(body, spid, isNew) = p.src_port
      /\ SubSeq(body, DataOffset(spid, dpid) + 1, Len(body)) = p.payload
  BY <1>3, Zenon DEF BodyReads
<1>6. /\ AddressID2Network(Addresses(p) \div 16) = p.src_net
      /\ AddressID2Network(Addresses(p) % 16) = p.dst_net
  BY NetworkIDs, Zenon
<1>7. Null # p.src_net /\ Null # p.dst_net
  BY OutcomesAssumption DEF Datagrams
<1>8. Throws # p.src_port /\ Throws # port
  BY <1>4, OutcomesAssumption DEF Datagrams, Read
<1>9. FromCompressed(p.ident, Addresses(p), spid, dpid, body, isNew) =
        [ident |-> p.ident, src_net |-> p.src_net, dst_net |-> p.dst_net,
         src_port |-> p.src_port, dst_port |-> port, payload |-> p.payload]
  BY <1>2, <1>6, <1>7, <1>8, <1>5, Zenon DEF FromCompressed
<1>10. WithPort(p, port) =
        [ident |-> p.ident, src_net |-> p.src_net, dst_net |-> p.dst_net,
         src_port |-> p.src_port, dst_port |-> port, payload |-> p.payload]
  BY SMTT(30) DEF WithPort, Datagrams
<1>11. QED
  BY <1>1, <1>4, <1>9, <1>10, Zenon

(* The header of the advantage form. *)
AdvantageForm(p, a, ids, body) == <<a, ids>> \o p.ident \o body

AdvantageFields(w, p, a, ids, body) ==
  /\ w[1] = a /\ w[2] = ids
  /\ SubSeq(w, 3, 4) = p.ident
  /\ SubSeq(w, 5, Len(w)) = body

LEMMA AdvantageHeader ==
  ASSUME NEW p \in Datagrams, NEW a \in Octet, NEW ids \in Octet,
         NEW body \in Seq(Octet)
  PROVE  AdvantageFields(AdvantageForm(p, a, ids, body), p, a, ids, body)
<1>1. PICK w : w = <<a, ids>> \o p.ident \o body
  OBVIOUS
<1>2. p.ident \in Seq(Octet) /\ Len(p.ident) = 2
  BY PairIsSeq DEF Datagrams
<1>3. PICK i \in Seq(Octet) : i = p.ident
  BY <1>2
<1>4. PICK first : first = <<a, ids>>
  OBVIOUS
<1>5. first \in Seq(Octet) /\ Len(first) = 2 /\ first[1] = a /\ first[2] = ids
  BY <1>4
<1>6. PICK h : h = first \o i
  OBVIOUS
<1>7. /\ h \in Seq(Octet) /\ Len(h) = Len(first) + Len(i)
      /\ SubSeq(h, Len(first) + 1, Len(h)) = i
      /\ \A n \in 1..Len(first) : h[n] = first[n]
  BY <1>3, <1>5, <1>6, Behind, Zenon
<1>8. Len(h) = 4
  BY <1>2, <1>3, <1>5, <1>7
<1>9. w = h \o body
  BY <1>3, <1>4, <1>6, <1>1
<1>10. /\ SubSeq(w, Len(h) + 1, Len(w)) = body
       /\ \A n \in 1..Len(h) : w[n] = h[n]
       /\ \A n, k \in 1..Len(h) : SubSeq(w, n, k) = SubSeq(h, n, k)
  <2>1. /\ SubSeq(h \o body, Len(h) + 1, Len(h \o body)) = body
        /\ \A n \in 1..Len(h) : (h \o body)[n] = h[n]
        /\ \A i1, j1 \in 1..Len(h) : SubSeq(h \o body, i1, j1) = SubSeq(h, i1, j1)
    BY <1>7, Behind
  <2>2. QED
    BY <1>9, <2>1
<1>11. SubSeq(w, 5, Len(w)) = body
  BY <1>8, <1>10
<1>12. SubSeq(w, 3, 4) = i
  <2>1. 3 \in 1..Len(h) /\ 4 \in 1..Len(h)
    BY <1>8
  <2>2. SubSeq(w, 3, 4) = SubSeq(h, 3, 4)
    BY <1>10, <2>1
  <2>3. SubSeq(h, Len(first) + 1, Len(h)) = i
    BY <1>7
  <2>4. Len(first) + 1 = 3
    BY <1>5
  <2>5. SubSeq(h, 3, 4) = i
    BY <1>8, <2>3, <2>4, Zenon
  <2>6. QED
    BY <2>2, <2>5
<1>13. w[1] = a /\ w[2] = ids
  BY <1>5, <1>7, <1>8, <1>10
<1>14. SubSeq(w, 3, 4) = p.ident
  BY <1>3, <1>12
<1>15. QED
  BY <1>1, <1>11, <1>13, <1>14, Zenon DEF AdvantageFields, AdvantageForm

(* The header of the standard form. *)
StandardForm(p, a, s, d, body) == p.ident \o <<a, s, d>> \o body

StandardFields(w, p, a, s, d, body) ==
  /\ w[3] = a /\ w[4] = s /\ w[5] = d
  /\ SubSeq(w, 1, 2) = p.ident
  /\ SubSeq(w, 6, Len(w)) = body

LEMMA StandardHeader ==
  ASSUME NEW p \in Datagrams, NEW a \in Octet, NEW s \in Octet, NEW d \in Octet,
         NEW body \in Seq(Octet)
  PROVE  StandardFields(StandardForm(p, a, s, d, body), p, a, s, d, body)
<1>1. PICK w : w = p.ident \o <<a, s, d>> \o body
  OBVIOUS
<1>2. p.ident \in Seq(Octet) /\ Len(p.ident) = 2
  BY PairIsSeq DEF Datagrams
<1>3. PICK i \in Seq(Octet) : i = p.ident
  BY <1>2
<1>4. PICK rest : rest = <<a, s, d>>
  OBVIOUS
<1>5. rest \in Seq(Octet) /\ Len(rest) = 3 /\ rest[1] = a /\ rest[2] = s /\ rest[3] = d
  BY <1>4
<1>6. PICK h : h = i \o rest
  OBVIOUS
<1>7. /\ h \in Seq(Octet) /\ Len(h) = Len(i) + Len(rest)
      /\ \A n, k \in 1..Len(i) : SubSeq(h, n, k) = SubSeq(i, n, k)
  <2>1. /\ i \o rest \in Seq(Octet) /\ Len(i \o rest) = Len(i) + Len(rest)
        /\ \A n, k \in 1..Len(i) : SubSeq(i \o rest, n, k) = SubSeq(i, n, k)
    BY <1>3, <1>5, Behind, Zenon
  <2>2. QED
    BY <1>6, <2>1
<1>8. Len(i) = 2 /\ Len(h) = 5
  BY <1>2, <1>3, <1>5, <1>7
<1>9. h[3] = a /\ h[4] = s /\ h[5] = d
  <2>1. \A n \in 1..Len(i) + Len(rest) : h[n] =
          IF n <= Len(i) THEN i[n] ELSE rest[n - Len(i)]
    BY <1>5, <1>6, ConcatProperties
  <2>2. QED
    BY <1>5, <1>8, <2>1
<1>10. w = h \o body
  BY <1>3, <1>4, <1>6, <1>1
<1>11. /\ SubSeq(w, Len(h) + 1, Len(w)) = body
       /\ \A n \in 1..Len(h) : w[n] = h[n]
       /\ \A n, k \in 1..Len(h) : SubSeq(w, n, k) = SubSeq(h, n, k)
  <2>1. /\ SubSeq(h \o body, Len(h) + 1, Len(h \o body)) = body
        /\ \A n \in 1..Len(h) : (h \o body)[n] = h[n]
        /\ \A i1, j1 \in 1..Len(h) : SubSeq(h \o body, i1, j1) = SubSeq(h, i1, j1)
    BY <1>7, Behind
  <2>2. QED
    BY <1>10, <2>1
<1>12. SubSeq(w, 6, Len(w)) = body
  BY <1>8, <1>11
<1>13. SubSeq(w, 1, 2) = i
  <2>1. 1 \in 1..Len(h) /\ 2 \in 1..Len(h) /\ 1 \in 1..Len(i) /\ 2 \in 1..Len(i)
    BY <1>8
  <2>2. SubSeq(w, 1, 2) = SubSeq(h, 1, 2)
    BY <1>11, <2>1, Zenon
  <2>3. SubSeq(h, 1, 2) = SubSeq(i, 1, 2)
    BY <1>7, <2>1, Zenon
  <2>4. QED
    BY <1>3, <1>8, <2>2, <2>3, SubSeqFull
<1>14. w[3] = a /\ w[4] = s /\ w[5] = d
  <2>1. 3 \in 1..Len(h) /\ 4 \in 1..Len(h) /\ 5 \in 1..Len(h)
    BY <1>8
  <2>2. QED
    BY <1>9, <1>11, <2>1, Zenon
<1>15. SubSeq(w, 1, 2) = p.ident
  BY <1>3, <1>13
<1>16. QED
  BY <1>1, <1>12, <1>14, <1>15, Zenon DEF StandardFields, StandardForm

(***************************************************************************)
(* An inline destination port alone is looked for behind its place: before *)
(* a payload of less than two octets the read throws.                      *)
(***************************************************************************)
LEMMA ShortThrows ==
  ASSUME NEW p \in Datagrams, NEW isNew, Short(p),
         {p.src_net, p.dst_net} \subseteq DOMAIN AddressID,
         NEW spid, spid = Port2PortID(p.src_port, isNew),
         NEW dpid, dpid = Port2PortID(p.dst_port, isNew)
  PROVE  FromCompressed(p.ident, Addresses(p), spid, dpid,
                        Body(p, spid, dpid), isNew) = Throws
<1>1. PICK body : body = Body(p, spid, dpid)
  OBVIOUS
<1>2. p.src_port \in Octet \X Octet /\ p.dst_port \in Octet \X Octet
  BY DEF Datagrams
<1>3. spid \in 0..127 /\ dpid \in 0..127
  BY <1>2, PortIDs, ZenonT(60)
<1>4. spid # 0 /\ dpid = 0
  BY <1>2, PortIDs, Zenon DEF Short
<1>5. Len(body) = DataOffset(spid, dpid) + Len(p.payload)
  BY <1>1, <1>3, BodyLength, Zenon
<1>6. DataOffset(spid, dpid) = 2 /\ DestinationOffset(spid) = 2
  BY <1>4 DEF DataOffset, DestinationOffset
<1>7. Len(p.payload) \in Nat /\ Len(p.payload) < 2
  BY LenProperties DEF Short, Datagrams
<1>8. ~(2 + 2 <= Len(body))
  BY <1>5, <1>6, <1>7
<1>9. DestinationPort(body, spid, dpid, isNew) = Throws
  BY <1>4, <1>6, <1>8, Zenon DEF DestinationPort, ReadUInt16
<1>10. /\ AddressID2Network(Addresses(p) \div 16) = p.src_net
       /\ AddressID2Network(Addresses(p) % 16) = p.dst_net
  BY NetworkIDs, Zenon
<1>11. Null # p.src_net /\ Null # p.dst_net
  BY OutcomesAssumption DEF Datagrams
<1>12. FromCompressed(p.ident, Addresses(p), spid, dpid, body, isNew) = Throws
  BY <1>9, <1>10, <1>11, Zenon DEF FromCompressed
<1>13. QED
  BY <1>1, <1>12

(***************************************************************************)
(* Compression and decompression, whatever the ports and the payload.      *)
(***************************************************************************)
LEMMA Decompressed ==
  ASSUME NEW p \in Datagrams,
         {p.src_net, p.dst_net} \subseteq DOMAIN AddressID,
         NEW format \in {"advantage", "standard"}
  PROVE  IF Short(p)
         THEN Decompress(format, Compress(format, p)) = Throws
         ELSE \E port : /\ Read(p, port)
                        /\ Decompress(format, Compress(format, p)) = WithPort(p, port)
<1> DEFINE isNew == format = "standard"
<1>1. PICK spid : spid = Port2PortID(p.src_port, isNew)
  OBVIOUS
<1>2. PICK dpid : dpid = Port2PortID(p.dst_port, isNew)
  OBVIOUS
<1>3. PICK body : body = Body(p, spid, dpid)
  OBVIOUS
<1>4. p.src_port \in Octet \X Octet /\ p.dst_port \in Octet \X Octet
  BY DEF Datagrams
<1>5. spid \in 0..127 /\ dpid \in 0..127
  BY <1>1, <1>2, <1>4, PortIDs, ZenonT(60)
<1>6. ~isNew => spid \in 0..15 /\ dpid \in 0..15
  BY <1>1, <1>2, <1>4, PortIDs, Zenon
<1>7. Addresses(p) \in Octet
  BY NetworkIDs
<1>8. body \in Seq(Octet)
  BY <1>3, <1>5, BodyLength, Zenon
<1>9. PICK read : read = FromCompressed(p.ident, Addresses(p), spid, dpid, body, isNew)
  OBVIOUS
<1>10. IF Short(p) THEN read = Throws
      ELSE \E port : Read(p, port) /\ read = WithPort(p, port)
  <2>1. Short(p) => read = Throws
    BY <1>1, <1>2, <1>3, <1>9, ShortThrows
  <2>2. ~Short(p) => \E port : Read(p, port) /\ read = WithPort(p, port)
    BY <1>1, <1>2, <1>3, <1>9, HeaderRead
  <2>3. QED
    BY <2>1, <2>2, Zenon
<1> HIDE DEF isNew
<1>11. CASE format = "advantage"
  <2>1. isNew = FALSE
    BY <1>11 DEF isNew
  <2>2. /\ Nibbles(spid, dpid) \in Octet
        /\ Nibbles(spid, dpid) \div 16 = spid
        /\ Nibbles(spid, dpid) % 16 = dpid
    BY <1>6, <2>1 DEF Nibbles, Octet
  <2>3. PICK w : w = AdvantageForm(p, Addresses(p), Nibbles(spid, dpid), body)
    OBVIOUS
  <2>4. /\ w[1] = Addresses(p) /\ w[2] = Nibbles(spid, dpid)
        /\ SubSeq(w, 3, 4) = p.ident
        /\ SubSeq(w, 5, Len(w)) = body
    <3>1. AdvantageFields(w, p, Addresses(p), Nibbles(spid, dpid), body)
      BY <1>8, <1>7, <2>2, <2>3, AdvantageHeader, Zenon
    <3>2. QED
      BY <3>1, Zenon DEF AdvantageFields
  <2>5. Compress(format, p) = w
    BY <1>1, <1>2, <1>3, <1>11, <2>1, <2>3, Zenon
       DEF Compress, GetCompressedUDPAdvantageWL, AdvantageForm
  <2>6. Decompress(format, w) = read
    BY <1>9, <1>11, <2>1, <2>2, <2>4, Zenon DEF Decompress, FromCompressedUDPAdvantageWL
  <2>7. QED
    BY <1>10, <2>5, <2>6, Zenon
<1>12. CASE format = "standard"
  <2>1. isNew = TRUE /\ format # "advantage"
    BY <1>12 DEF isNew
  <2>2. spid % 128 = spid /\ dpid % 128 = dpid
    BY <1>5
  <2>3. spid \in Octet /\ dpid \in Octet
    BY <1>5 DEF Octet
  <2>4. PICK w : w = StandardForm(p, Addresses(p), spid, dpid, body)
    OBVIOUS
  <2>5. /\ w[3] = Addresses(p) /\ w[4] = spid /\ w[5] = dpid
        /\ SubSeq(w, 1, 2) = p.ident
        /\ SubSeq(w, 6, Len(w)) = body
    <3>1. StandardFields(w, p, Addresses(p), spid, dpid, body)
      BY <1>8, <1>7, <2>4, <2>3, StandardHeader, Zenon
    <3>2. QED
      BY <3>1, Zenon DEF StandardFields
  <2>6. Compress(format, p) = w
    BY <1>1, <1>2, <1>3, <2>1, <2>4, Zenon
       DEF Compress, GetCompressedUDPDMRStandart, StandardForm
  <2>7. Decompress(format, w) = read
    BY <1>9, <2>1, <2>2, <2>5, Zenon DEF Decompress, FromCompressedUDPDMRStandart
  <2>8. QED
    BY <1>10, <2>6, <2>7, Zenon
<1>13. QED
  BY <1>11, <1>12

-----------------------------------------------------------------------------
(* The first branch whose tag a type begins with decides. *)
LEMMA FirstBranch ==
  ASSUME NEW type, NEW i \in DOMAIN Branches,
         BeginsWith(type, Branches[i]),
         \A j \in DOMAIN Branches : j < i => ~BeginsWith(type, Branches[j])
  PROVE  TypeReadAs(type) = Branches[i]
<1>1. DOMAIN Branches = 1..11
  BY DEF Branches
<1> DEFINE taken == {j \in DOMAIN Branches : BeginsWith(type, Branches[j])}
           first(j) == j \in taken /\ \A k \in taken : j <= k
<1>2. taken # {} /\ first(i) /\ \A j : first(j) => j = i
  BY <1>1
<1>3. (CHOOSE j \in taken : \A k \in taken : j <= k) = i
  BY <1>2
<1>4. QED
  BY <1>2, <1>3 DEF TypeReadAs

(* Every type but the last two is read as itself. *)
LEMMA TypesRead ==
  ASSUME NEW type \in Types
  PROVE  TypeReadAs(type) = CASE type = "RPTCL" -> "RPTC"
                              [] type = "RPTK"  -> "none"
                              [] OTHER          -> type
<1>1. DOMAIN Branches = 1..11
  BY DEF Branches
<1>2. CASE type = "RPTCL"
  <2>1. Branches[5] = "RPTC" /\ \A j \in 1..4 : ~BeginsWith(type, Branches[j])
    BY <1>2 DEF BeginsWith, Branches
  <2>2. BeginsWith(type, Branches[5])
    BY <1>2, <2>1 DEF BeginsWith
  <2>3. TypeReadAs(type) = Branches[5]
    BY <1>1, <2>1, <2>2, FirstBranch
  <2>4. QED
    BY <1>2, <2>1, <2>3
<1>3. CASE type = "RPTK"
  <2>1. \A j \in 1..11 : ~BeginsWith(type, Branches[j])
    BY <1>3 DEF BeginsWith, Branches
  <2>2. {j \in DOMAIN Branches : BeginsWith(type, Branches[j])} = {}
    BY <1>1, <2>1
  <2>3. QED
    BY <1>3, <2>2 DEF TypeReadAs
<1>4. CASE type \notin {"RPTCL", "RPTK"}
  <2>1. PICK i \in 1..11 : type = Branches[i]
    BY <1>1, <1>4 DEF Types
  <2>2. \A j \in 1..11 : j < i => Branches[j] # Branches[i]
    BY <2>1 DEF Branches
  <2>3. \A j \in 1..11 : BeginsWith(type, Branches[j]) <=> type = Branches[j]
    BY <1>4 DEF BeginsWith
  <2>4. TypeReadAs(type) = Branches[i]
    BY <1>1, <2>1, <2>2, <2>3, FirstBranch
  <2>5. QED
    BY <1>4, <2>1, <2>4
<1>5. QED
  BY <1>2, <1>3, <1>4

(* A control datagram with the body of its class is read as its class, but *)
(* for the two types no class is found for.                                *)
LEMMA ControlRead ==
  ASSUME NEW type \in Types, NEW octets \in Nat,
         type \in DOMAIN BodyOctets => octets = BodyOctets[type],
         type = "RPTCL" => octets # 293
  PROVE  ControlFrom(type, octets) = IF type \in {"RPTCL", "RPTK"} THEN "none" ELSE type
<1>1. DOMAIN BodyOctets = {"DMRC", "DMRD", "RPTC"} /\ BodyOctets["RPTC"] = 294
  BY DEF BodyOctets
<1>2. CASE type = "RPTCL"
  <2>1. TypeReadAs(type) = "RPTC"
    BY <1>2, TypesRead
  <2>2. octets + 1 # 294
    BY <1>2
  <2>3. QED
    BY <1>1, <1>2, <2>1, <2>2 DEF ControlFrom
<1>3. CASE type = "RPTK"
  <2>1. TypeReadAs(type) = "none"
    BY <1>3, TypesRead
  <2>2. QED
    BY <1>1, <1>3, <2>1 DEF ControlFrom
<1>4. CASE type \notin {"RPTCL", "RPTK"}
  <2>1. TypeReadAs(type) = type
    BY <1>4, TypesRead
  <2>2. type \in DOMAIN BodyOctets => octets + 0 = BodyOctets[type]
    OBVIOUS
  <2>3. QED
    BY <1>4, <2>1, <2>2 DEF ControlFrom
<1>5. QED
  BY <1>2, <1>3, <1>4

-----------------------------------------------------------------------------
(* All of a range is all that is in it. *)
LEMMA CutWhole ==
  ASSUME NEW n \in Nat, NEW places \in SUBSET (0..n-1)
  PROVE  Cut(places, 0, n) = places
<1>1. \A p \in places : p \in Nat /\ p >= 0 /\ p < 0 + n /\ p - 0 = p
  OBVIOUS
<1>2. {q \in places : q >= 0 /\ q < 0 + n} = places
  BY <1>1
<1>3. QED
  BY <1>1, <1>2 DEF Cut

(* The checksum is in the last four octets. *)
LEMMA CrcBitsLast ==
  ASSUME NEW octets \in Nat, octets >= CrcSize, NEW crc \in SUBSET (0..31)
  PROVE  /\ \A p \in CrcBits(octets, crc) : p \in Nat /\ p >= 8 * (octets - CrcSize)
         /\ CrcBits(octets, crc) \subseteq CrcBits(octets, 0..31)
<1>1. \A b \in 0..31 : b \div 8 \in 0..3 /\ b % 8 \in 0..7
  OBVIOUS
<1>2. QED
  BY <1>1 DEF CrcBits, CrcSize

LEMMA CRC32Bits ==
  ASSUME NEW octets, NEW payload
  PROVE  CRC32Compute(octets, payload) \in SUBSET (0..31)
BY DEF CRC32Compute

(* Octets with the checksum behind them are cut out and not refused. *)
LEMMA ChecksumHolds ==
  ASSUME NEW octets \in Nat, octets > CrcSize, NEW pad \in Nat, NEW second \in BOOLEAN,
         NEW start \in Nat, start = (IF second THEN 4 ELSE 0),
         NEW end \in Nat, end = octets - CrcSize - (IF second THEN 1 ELSE 0),
         NEW count \in Nat, count = octets - CrcSize - pad - start,
         NEW payload \in SUBSET (0..8 * (octets - CrcSize) - 1),
         NEW bits, bits = payload \cup CrcBits(octets, CRC32Compute(end, Cut(payload, 0, 8 * end)))
  PROVE  GetBuffer(octets, bits, pad, second) = << Cut(payload, 8 * start, 8 * count) >>
<1>1. PICK n \in Nat : n = 8 * (octets - CrcSize)
  BY DEF CrcSize
<1>2. PICK upTo \in Nat : upTo = 8 * end
  OBVIOUS
<1>3. PICK from \in Nat : from = 8 * start
  OBVIOUS
<1>4. PICK len \in Nat : len = 8 * count
  OBVIOUS
<1>5. 0 + upTo <= n /\ from + len <= n
  BY <1>1, <1>2, <1>3, <1>4 DEF CrcSize
<1>6. PICK crc : crc = CRC32Compute(end, Cut(payload, 0, 8 * end))
  OBVIOUS
<1>7. crc \in SUBSET (0..31)
  BY <1>6, CRC32Bits
<1>8. /\ \A p \in CrcBits(octets, crc) : p \in Nat /\ p >= n
      /\ CrcBits(octets, crc) \subseteq CrcBits(octets, 0..31)
  BY <1>1, <1>7, CrcBitsLast DEF CrcSize
<1>9. \A p \in CrcBits(octets, 0..31) : p \in Nat /\ p >= n
  BY <1>1, CrcBitsLast DEF CrcSize
<1>10. bits = payload \cup CrcBits(octets, crc)
  BY <1>6
<1>11. Cut(bits, 0, upTo) = Cut(payload, 0, upTo)
  <2>1. 0 \in Nat /\ \A p \in CrcBits(octets, crc) : p \in Nat /\ p >= 0 + upTo
    BY <1>1, <1>2, <1>5, <1>8
  <2>2. {p \in bits : p >= 0 /\ p < 0 + upTo} = {p \in payload : p >= 0 /\ p < 0 + upTo}
    BY <1>2, <1>10, <2>1
  <2>3. QED
    BY <2>2, Zenon DEF Cut
<1>12. Cut(bits, from, len) = Cut(payload, from, len)
  <2>1. \A p \in CrcBits(octets, crc) : p \in Nat /\ p >= from + len
    BY <1>1, <1>3, <1>4, <1>5, <1>8
  <2>2. {p \in bits : p >= from /\ p < from + len} = {p \in payload : p >= from /\ p < from + len}
    BY <1>3, <1>4, <1>10, <2>1
  <2>3. QED
    BY <2>2, Zenon DEF Cut
<1>13. payload \cap CrcBits(octets, 0..31) = {}
  BY <1>1, <1>9
<1>14. bits \cap CrcBits(octets, 0..31) = CrcBits(octets, crc)
  BY <1>8, <1>10, <1>13
<1>15. CRC32Compute(end, Cut(bits, 0, upTo)) = crc
  BY <1>2, <1>6, <1>11
<1>16. octets - CrcSize - pad - start = count
  BY DEF CrcSize
<1>17. QED
  BY <1>2, <1>3, <1>4, <1>12, <1>14, <1>15, <1>16 DEF GetBuffer

(* The blocks of a datagram: its payload, pad octets, and the checksum. *)
LEMMA DatagramRead ==
  ASSUME NEW m, m.second \in BOOLEAN,
         IF m.second THEN m.payload \subseteq 0..119
         ELSE m.octets \in Nat /\ m.payload \subseteq 0..8 * m.octets - 1
  PROVE  GetBuffer(Datagram(m).octets, Datagram(m).bits, Datagram(m).pad, m.second)
           = << IF m.second THEN Cut(m.payload, 32, 88) ELSE m.payload >>
<1>1. PICK payload : payload = m.payload
  OBVIOUS
<1>2. PICK second \in BOOLEAN : second = m.second
  OBVIOUS
<1>3. CASE m.second
  <2>1. PICK octets \in Nat, pad \in Nat, start \in Nat, end \in Nat, count \in Nat :
          octets = 19 /\ pad = 0 /\ start = 4 /\ end = 14 /\ count = 11
    OBVIOUS
  <2>2. PICK bits : bits = payload \cup CrcBits(octets, CRC32Compute(end, Cut(payload, 0, 8 * end)))
    OBVIOUS
  <2>3. Datagram(m).octets = octets /\ Datagram(m).pad = pad /\ Datagram(m).bits = bits
    <3>1. 8 * end = 112
      BY <2>1
    <3>2. QED
      BY <1>1, <1>3, <2>1, <2>2, <3>1 DEF Datagram, RadioDatagram, PartSize
  <2>4. payload \in SUBSET (0..8 * (octets - CrcSize) - 1)
    BY <1>1, <1>3, <2>1 DEF CrcSize
  <2>5. /\ octets > CrcSize /\ start = (IF second THEN 4 ELSE 0)
        /\ end = octets - CrcSize - (IF second THEN 1 ELSE 0)
        /\ count = octets - CrcSize - pad - start
    BY <1>2, <1>3, <2>1 DEF CrcSize
  <2>6. GetBuffer(octets, bits, pad, second) = << Cut(payload, 8 * start, 8 * count) >>
    BY <1>2, <2>1, <2>2, <2>4, <2>5, ChecksumHolds
  <2>7. 8 * start = 32 /\ 8 * count = 88
    BY <2>1
  <2>8. QED
    BY <1>1, <1>2, <1>3, <2>3, <2>6, <2>7
<1>4. CASE ~m.second
  <2>1. PICK size \in Nat : size = m.octets
    BY <1>4
  <2>2. PICK octets \in Nat : octets = 12 * ((size + 15) \div 12)
    OBVIOUS
  <2>3. octets >= size + 4
    BY <2>2
  <2>4. PICK pad \in Nat, start \in Nat, end \in Nat :
          pad = octets - size - CrcSize /\ start = 0 /\ end = octets - CrcSize
    BY <2>3 DEF CrcSize
  <2>5. payload \in SUBSET (0..8 * size - 1) /\ payload \in SUBSET (0..8 * (octets - CrcSize) - 1)
    BY <1>1, <1>4, <2>1, <2>3 DEF CrcSize
  <2>6. Cut(payload, 0, 8 * end) = payload /\ Cut(payload, 0, 8 * size) = payload
    BY <2>4, <2>5, CutWhole
  <2>7. PICK bits : bits = payload \cup CrcBits(octets, CRC32Compute(end, Cut(payload, 0, 8 * end)))
    OBVIOUS
  <2>8. Datagram(m).octets = octets /\ Datagram(m).pad = pad /\ Datagram(m).bits = bits
    <3>1. size + CrcSize + PartSize - 1 = size + 15
      BY DEF CrcSize, PartSize
    <3>2. CreateDataBlock(size, payload) = [octets |-> octets, pad |-> pad, bits |-> bits]
      BY <2>2, <2>4, <2>6, <2>7, <3>1 DEF CreateDataBlock, PartSize
    <3>3. QED
      BY <1>1, <1>4, <2>1, <3>2 DEF Datagram
  <2>9. /\ octets > CrcSize /\ start = (IF second THEN 4 ELSE 0)
        /\ end = octets - CrcSize - (IF second THEN 1 ELSE 0)
        /\ size = octets - CrcSize - pad - start
    BY <1>2, <1>4, <2>2, <2>3, <2>4 DEF CrcSize
  <2>10. GetBuffer(octets, bits, pad, second) = << Cut(payload, 8 * start, 8 * size) >>
    <3>1. size \in Nat /\ octets \in Nat /\ pad \in Nat /\ start \in Nat /\ end \in Nat
      BY <2>1, <2>2, <2>4
    <3>2. QED
      BY <1>2, <2>5, <2>7, <2>9, <3>1, ChecksumHolds
  <2>11. 8 * start = 0
    BY <2>4
  <2>12. QED
    BY <1>1, <1>2, <1>4, <2>6, <2>8, <2>10, <2>11
<1>5. QED
  BY <1>3, <1>4

-----------------------------------------------------------------------------
(***************************************************************************)
(* The inductive invariant: what is on the air is what was encoded, with   *)
(* the places inverted that were hit; and what was received is what that   *)
(* is decoded to.                                                          *)
(***************************************************************************)
Damaged(word) == Inverted(word, {DamageStart + n : n \in hit})

Carried ==
  /\ air = <<>> => hit = {}
  /\ air # <<>> => air = <<Damaged(Encoded)>>
  /\ got # <<>> => air # <<>> /\ got = <<Decoded>>
  /\ hit \in {{}} \cup Damages(message)

LEMMA Undamaged ==
  ASSUME hit = {}, NEW word
  PROVE  Damaged(word) = word
<1>1. {DamageStart + n : n \in hit} = {}
  OBVIOUS
<1>2. QED
  BY <1>1 DEF Damaged, Inverted

LEMMA LinkCarries == Spec => [](message \in Messages /\ Carried)
<1>1. Init => message \in Messages /\ Carried
  BY DEF Init, Carried
<1>2. message \in Messages /\ Carried /\ [Next]_vars
        => (message \in Messages /\ Carried)'
  <2> SUFFICES ASSUME message \in Messages, Carried, [Next]_vars
               PROVE  (message \in Messages /\ Carried)'
    OBVIOUS
  <2>1. message' = message
    BY DEF Next, Transmit, Disturb, Receive, vars
  <2>2. Encoded' = Encoded /\ DamageStart' = DamageStart
    BY <2>1, Zenon DEF Encoded, DamageStart, HasBurst
  <2>3. air' = air => Decoded' = Decoded
    BY <2>1, Zenon DEF Decoded
  <2>4. hit' = hit => \A word : Damaged(word)' = Damaged(word)
    BY <2>2, Zenon DEF Damaged
  <2>5. CASE Transmit
    <3>1. got = <<>> /\ got' = <<>> /\ hit = {} /\ hit' = {}
      BY <2>5 DEF Transmit, Carried
    <3>2. air' = <<Encoded>>
      BY <2>5 DEF Transmit
    <3>3. Damaged(Encoded)' = Encoded
      BY <2>2, <2>4, <3>1, Undamaged, Zenon DEF Damaged
    <3>4. QED
      BY <2>1, <3>1, <3>2, <3>3 DEF Carried
  <2>6. CASE Disturb
    <3>1. PICK places \in Damages(message) :
            hit' = places /\ air' = << Inverted(air[1], {DamageStart + n : n \in places}) >>
      BY <2>6 DEF Disturb
    <3>2. air # <<>> /\ got = <<>> /\ got' = got /\ hit = {}
      BY <2>6 DEF Disturb
    <3>3. air = <<Encoded>>
      BY <3>2, Undamaged DEF Carried
    <3>4. air' = <<Damaged(Encoded)'>>
      <4>1. {DamageStart + n : n \in places} = {DamageStart' + n : n \in hit'}
        BY <2>2, <3>1
      <4>2. QED
        BY <2>2, <3>1, <3>3, <4>1 DEF Damaged
    <3>5. QED
      BY <2>1, <3>1, <3>2, <3>4 DEF Carried
  <2>7. CASE Receive
    <3>1. /\ air' = air /\ hit' = hit /\ air # <<>>
          /\ got' = <<Decoded>>
      BY <2>7 DEF Receive
    <3>2. Damaged(Encoded)' = Damaged(Encoded)
      BY <2>2, <3>1, Zenon DEF Damaged
    <3>3. QED
      BY <2>1, <2>3, <3>1, <3>2 DEF Carried
  <2>8. CASE UNCHANGED vars
    <3>1. air' = air /\ hit' = hit /\ got' = got
      BY <2>8 DEF vars
    <3>2. Damaged(Encoded)' = Damaged(Encoded)
      BY <2>2, <3>1, Zenon DEF Damaged
    <3>3. QED
      BY <2>1, <2>3, <3>1, <3>2 DEF Carried
  <2>9. QED
    BY <2>5, <2>6, <2>7, <2>8 DEF Next
<1>3. QED
  BY <1>1, <1>2, PTL DEF Spec

(* What cannot be damaged is not, and what is not is as it was encoded. *)
LEMMA AsEncoded ==
  ASSUME Carried, hit = {}, got # <<>>
  PROVE  air = <<Encoded>> /\ got = <<Decoded>>
BY Undamaged DEF Carried

LEMMA NotDamaged ==
  ASSUME Carried, Damages(message) = {}
  PROVE  hit = {}
BY DEF Carried

(***************************************************************************)
(* What is not damaged arrives: datagrams of any size and payload, with    *)
(* and without a second header, are not refused by their own checksum and  *)
(* lose neither a bit nor gain a pad octet; and control datagrams of every *)
(* type are read as their class, but for the two that no class is found    *)
(* for.                                                                    *)
(***************************************************************************)
THEOREM UndamagedArrivesAlways == Spec => []UndamagedArrives
<1>1. message \in Messages /\ Carried => UndamagedArrives
  <2> SUFFICES ASSUME message \in Messages, Carried
               PROVE  UndamagedArrives
    OBVIOUS
  <2>1. ASSUME Received("datagram"), hit = {}
        PROVE  got[1] = <<PayloadSent>>
    <3>1. message.kind = "datagram" /\ got # <<>>
      BY <2>1 DEF Received
    <3>2. air = <<Encoded>> /\ got = <<Decoded>>
      BY <2>1, <3>1, AsEncoded
    <3>3. air[1] = Datagram(message).bits
      <4>1. Encoded = Datagram(message).bits
        BY <3>1, Zenon DEF Encoded
      <4>2. QED
        BY <3>2, <4>1
    <3>4. Decoded = GetBuffer(Datagram(message).octets, Datagram(message).bits,
                              Datagram(message).pad, message.second)
      BY <3>1, <3>3, Zenon DEF Decoded
    <3>5. /\ message.second \in BOOLEAN
          /\ IF message.second THEN message.payload \subseteq 0..119
             ELSE message.octets \in Nat /\ message.payload \subseteq 0..8 * message.octets - 1
      BY <3>1, MessagesAssumption
    <3>6. Decoded = <<PayloadSent>>
      <4>1. Decoded = << IF message.second THEN Cut(message.payload, 32, 88) ELSE message.payload >>
        BY <3>4, <3>5, DatagramRead
      <4>2. QED
        BY <4>1 DEF PayloadSent
    <3>7. QED
      BY <3>2, <3>6
  <2>2. ASSUME Received("control")
        PROVE  got[1] = (IF message.type \in {"RPTCL", "RPTK"} THEN "none" ELSE message.type)
    <3>1. message.kind = "control" /\ got # <<>>
      BY <2>2 DEF Received
    <3>2. /\ Damages(message) = {}
          /\ message.type \in Types /\ message.octets \in Nat
          /\ message.type \in DOMAIN BodyOctets => message.octets = BodyOctets[message.type]
          /\ message.type = "RPTCL" => message.octets # 293
      BY <3>1, MessagesAssumption, ZenonT(60)
    <3>3. air = <<Encoded>> /\ got = <<Decoded>>
      BY <3>1, <3>2, NotDamaged, AsEncoded
    <3>4. Encoded = message.type
      BY <3>1, Zenon DEF Encoded
    <3>5. Decoded = ControlFrom(air[1], message.octets)
      BY <3>1, Zenon DEF Decoded
    <3>6. air[1] = message.type /\ got[1] = ControlFrom(message.type, message.octets)
      BY <3>3, <3>4, <3>5
    <3>7. QED
      BY <3>2, <3>6, ControlRead
  <2>3. QED
    BY <2>1, <2>2 DEF UndamagedArrives
<1>2. QED
  BY <1>1, LinkCarries, PTL

(***************************************************************************)
(* Of a datagram between known networks at most an inline destination port *)
(* is lost, whatever its ports and payload: the rest of the header and the *)
(* payload arrive as they were sent.                                       *)
(***************************************************************************)
THEOREM OnlyDestinationPortLostAlways == Spec => []OnlyDestinationPortLost
<1>1. message \in Messages /\ Carried => OnlyDestinationPortLost
  <2> SUFFICES ASSUME message \in Messages, Carried, Received("udp"),
                      KnownNetworks, ~ThrowsOnShort
               PROVE  /\ got[1] \notin {Null, Throws}
                      /\ [got[1] EXCEPT !.dst_port = message.packet.dst_port] = message.packet
                      /\ message.packet.dst_port \in DOMAIN PortID => got[1] = message.packet
    BY DEF OnlyDestinationPortLost
  <2>1. PICK p : p = message.packet
    OBVIOUS
  <2>2. p \in Datagrams /\ message.format \in {"advantage", "standard"}
    BY <2>1, MessagesAssumption DEF Received
  <2>3. got = <<Decompress(message.format, Compress(message.format, p))>>
    <3>1. message.kind = "udp" /\ got # <<>>
      BY DEF Received
    <3>2. Damages(message) = {}
      BY <3>1, MessagesAssumption
    <3>3. air = <<Encoded>> /\ got = <<Decoded>>
      BY <3>1, <3>2, NotDamaged, AsEncoded
    <3>4. Encoded = Compress(message.format, p)
      BY <2>1, <3>1, Zenon DEF Encoded
    <3>5. Decoded = Decompress(message.format, air[1])
      BY <3>1, Zenon DEF Decoded
    <3>6. QED
      BY <3>3, <3>4, <3>5
  <2>4. {p.src_net, p.dst_net} \subseteq DOMAIN AddressID
    BY <2>1 DEF KnownNetworks
  <2>5. PICK read : read = Decompress(message.format, Compress(message.format, p))
    OBVIOUS
  <2>6. got = <<read>> /\ got[1] = read
    BY <2>3, <2>5
  <2>7. IF Short(p) THEN read = Throws
        ELSE \E port : Read(p, port) /\ read = WithPort(p, port)
    BY <2>2, <2>4, <2>5, Decompressed, Zenon
  <2>8. ~Short(p)
    BY <2>1, <2>6, <2>7, Zenon DEF ThrowsOnShort, Short
  <2>9. PICK port : Read(p, port) /\ read = WithPort(p, port)
    BY <2>7, <2>8, Zenon
  <2>10. read \in Datagrams
    BY <2>2, <2>9 DEF Datagrams, Read, WithPort
  <2>11. read \notin {Null, Throws}
    BY <2>10, OutcomesAssumption
  <2>12. [read EXCEPT !.dst_port = p.dst_port] = p
    BY <2>2, <2>9 DEF Datagrams, WithPort
  <2>13. p.dst_port \in DOMAIN PortID => read = p
    BY <2>2, <2>9 DEF Datagrams, Read, WithPort
  <2>14. QED
    BY <2>1, <2>6, <2>11, <2>12, <2>13
<1>2. QED
  BY <1>1, LinkCarries, PTL

-----------------------------------------------------------------------------
(* A row with its places below the limit, and two rows that share none. *)
RowFits(r, limit) ==
  r[2] \in Nat /\ r[3] \in Nat /\ r[4] \in Nat /\ r[5] = r[4] /\ r[4] + r[3] <= limit

Apart(r, s) == r[5] + r[3] <= s[5] \/ s[5] + s[3] <= r[5]

From(limit, beyond) == \A x \in beyond : x \in Nat /\ x >= limit

(* What is in none of the rows of a layout. *)
Elsewhere(layout, beyond) ==
  \A r \in layout : r[5] # NotWritten => \A x \in beyond : x \notin r[4]..r[4]+r[3]-1

(* The rows of a field. *)
RowsOf(layout, f) == {r \in layout : r[1] = f}

(* A layout that reads a field where it writes it, the payload view apart. *)
Sound(layout, limit) ==
  \A r \in layout :
    IF r[5] = NotWritten THEN r[1] = "payload"
    ELSE RowFits(r, limit) /\ \A s \in layout : s = r \/ s[5] = NotWritten \/ Apart(r, s)

LEMMA SoundVoice == Sound(LinkControl, 72) /\ Sound(PIHeader, 80)
BY SMT DEF Sound, RowFits, Apart, NotWritten, LinkControl, PIHeader, Ids

LEMMA SoundCSBK ==
  Sound(PreCSBK, 80) /\ Sound(CallAlertACK, 80) /\ Sound(CallEmergency, 80) /\ Sound(CSBKRaw, 80)
<1>1. Sound(PreCSBK, 80)
  BY SMT DEF Sound, RowFits, Apart, NotWritten, PreCSBK, CSBK, Ids
<1>2. Sound(CallAlertACK, 80)
  BY SMT DEF Sound, RowFits, Apart, NotWritten, CallAlertACK, CSBK, Ids
<1>3. Sound(CallEmergency, 80)
  BY SMT DEF Sound, RowFits, Apart, NotWritten, CallEmergency, CSBK, Ids
<1>4. Sound(CSBKRaw, 80)
  BY SMT DEF Sound, RowFits, Apart, NotWritten, CSBKRaw, CSBK
<1>5. QED
  BY <1>1, <1>2, <1>3, <1>4

LEMMA SoundHeaders ==
  /\ Sound(Unified, 80) /\ Sound(Response, 80) /\ Sound(Unconfirmed, 80) /\ Sound(Confirmed, 80)
  /\ Sound(ProprietaryCompressed, 80)
<1>1. Sound(Unified, 80)
  BY SMT DEF Sound, RowFits, Apart, NotWritten, Unified, DataHeader, Ids
<1>2. Sound(Response, 80)
  BY SMT DEF Sound, RowFits, Apart, NotWritten, Response, DataHeader, Ids
<1>3. Sound(Unconfirmed, 80)
  BY SMT DEF Sound, RowFits, Apart, NotWritten, Unconfirmed, DataHeader, Ids
<1>4. Sound(Confirmed, 80)
  BY SMT DEF Sound, RowFits, Apart, NotWritten, Confirmed, Unconfirmed, DataHeader, Ids
<1>5. Sound(ProprietaryCompressed, 80)
  BY SMT DEF Sound, RowFits, Apart, NotWritten, ProprietaryCompressed, Proprietary, DataHeader
<1>6. QED
  BY <1>1, <1>2, <1>3, <1>4, <1>5

-----------------------------------------------------------------------------
(* Where a bit is written, and that it is written below the limit. *)
LEMMA Written ==
  ASSUME NEW layout, NEW fields, NEW x
  PROVE  x \in WriteFields(layout, fields)
           <=> \E s \in layout : /\ s[5] # NotWritten
                                 /\ \E k \in fields[s[1]] \cap (s[2]..s[2]+s[3]-1) :
                                      x = s[5] + s[3] - 1 - (k - s[2])
BY DEF WriteFields

LEMMA WrittenBelow ==
  ASSUME NEW layout, NEW limit \in Nat, Sound(layout, limit), NEW fields
  PROVE  WriteFields(layout, fields) \subseteq 0..limit-1
<1> SUFFICES ASSUME NEW x \in WriteFields(layout, fields)
             PROVE  x \in 0..limit-1
  OBVIOUS
<1>1. PICK s \in layout : /\ s[5] # NotWritten
                          /\ \E k \in fields[s[1]] \cap (s[2]..s[2]+s[3]-1) :
                               x = s[5] + s[3] - 1 - (k - s[2])
  BY Written
<1>2. RowFits(s, limit)
  BY <1>1 DEF Sound
<1>3. QED
  BY <1>1, <1>2 DEF RowFits

LEMMA Beyond ==
  ASSUME NEW layout, NEW limit \in Nat, Sound(layout, limit), NEW beyond, From(limit, beyond)
  PROVE  Elsewhere(layout, beyond)
<1> SUFFICES ASSUME NEW r \in layout, r[5] # NotWritten, NEW x \in beyond
             PROVE  x \notin r[4]..r[4]+r[3]-1
  BY DEF Elsewhere
<1>1. r[4] \in Nat /\ r[3] \in Nat /\ r[4] + r[3] <= limit
  BY DEF Sound, RowFits
<1>2. x \in Nat /\ x >= limit
  BY DEF From
<1>3. QED
  BY <1>1, <1>2

(* A row reads the bits of its field it has written. *)
LEMMA RowReads ==
  ASSUME NEW layout, NEW limit \in Nat, Sound(layout, limit), NEW fields,
         NEW beyond, Elsewhere(layout, beyond),
         NEW r \in layout, r[5] # NotWritten, NEW j \in 0..r[3]-1
  PROVE  r[4] + r[3] - 1 - j \in WriteFields(layout, fields) \cup beyond
           <=> r[2] + j \in fields[r[1]]
<1>1. RowFits(r, limit) /\ \A s \in layout : s = r \/ s[5] = NotWritten \/ Apart(r, s)
  BY DEF Sound
<1>2. PICK x \in Nat : x = r[4] + r[3] - 1 - j
  BY <1>1 DEF RowFits
<1>3. x >= r[5] /\ x < r[5] + r[3] /\ x < limit /\ x \notin beyond
  <2>1. x \in r[4]..r[4]+r[3]-1 /\ x >= r[5] /\ x < r[5] + r[3] /\ x < limit
    BY <1>1, <1>2 DEF RowFits
  <2>2. QED
    BY <2>1 DEF Elsewhere
<1>4. ASSUME r[2] + j \in fields[r[1]] PROVE x \in WriteFields(layout, fields)
  <2>1. r[2] + j \in fields[r[1]] \cap (r[2]..r[2]+r[3]-1) /\ x = r[5] + r[3] - 1 - ((r[2] + j) - r[2])
    BY <1>1, <1>2, <1>4 DEF RowFits
  <2>2. QED
    BY <2>1, Written
<1>5. ASSUME x \in WriteFields(layout, fields) PROVE r[2] + j \in fields[r[1]]
  <2>1. PICK s \in layout : /\ s[5] # NotWritten
                            /\ \E k \in fields[s[1]] \cap (s[2]..s[2]+s[3]-1) :
                                 x = s[5] + s[3] - 1 - (k - s[2])
    BY <1>5, Written
  <2>2. RowFits(s, limit)
    BY <2>1 DEF Sound
  <2>3. x >= s[5] /\ x < s[5] + s[3]
    BY <2>1, <2>2 DEF RowFits
  <2>4. s = r
    BY <1>1, <1>3, <2>1, <2>2, <2>3 DEF Apart, RowFits
  <2>5. PICK w \in Nat, n \in Nat, p \in Nat : w = r[2] /\ n = r[3] /\ p = r[4] /\ p = r[5]
    BY <1>1 DEF RowFits
  <2>6. PICK k \in w..w+n-1 : k \in fields[r[1]] /\ x = p + n - 1 - (k - w)
    BY <2>1, <2>4, <2>5
  <2>7. x = p + n - 1 - j
    BY <1>2, <2>5
  <2>8. k = w + j
    BY <2>6, <2>7, <2>5
  <2>9. QED
    BY <2>5, <2>6, <2>8
<1>6. QED
  BY <1>2, <1>3, <1>4, <1>5

Readable(part, layout, fields, f) ==
  /\ f # "payload" /\ fields[f] \subseteq Widths(layout, f)
  /\ RowsOf(part, f) = RowsOf(layout, f)

(* A field is read as it was written, by the layout it was written by or a *)
(* part of it.                                                             *)
LEMMA FieldReads ==
  ASSUME NEW layout, NEW limit \in Nat, Sound(layout, limit), NEW fields,
         NEW beyond, Elsewhere(layout, beyond),
         NEW f, NEW part, Readable(part, layout, fields, f)
  PROVE  ReadField(part, WriteFields(layout, fields) \cup beyond, f) = fields[f]
<1>1. PICK block : block = WriteFields(layout, fields) \cup beyond
  OBVIOUS
<1>2. PICK rows : rows = RowsOf(layout, f) /\ rows = RowsOf(part, f)
  BY DEF Readable
<1>3. \A r \in rows : RowFits(r, limit)
  BY <1>2 DEF Sound, RowsOf, Readable
<1>4. \A r \in rows : \A j \in 0..r[3]-1 : r[4] + r[3] - 1 - j \in block <=> r[2] + j \in fields[f]
  <2> SUFFICES ASSUME NEW r \in rows, NEW j \in 0..r[3]-1
               PROVE  r[4] + r[3] - 1 - j \in block <=> r[2] + j \in fields[f]
    OBVIOUS
  <2>1. r \in layout /\ r[1] = f /\ r[5] # NotWritten
    BY <1>2 DEF Sound, RowsOf, Readable
  <2>2. r[4] + r[3] - 1 - j \in WriteFields(layout, fields) \cup beyond <=> r[2] + j \in fields[r[1]]
    BY <2>1, RowReads
  <2>3. QED
    BY <1>1, <2>1, <2>2
<1>5. Widths(layout, f) = UNION {r[2]..r[2]+r[3]-1 : r \in rows}
  BY <1>2 DEF Widths, RowsOf
<1>6. ReadField(part, block, f) =
        UNION {{r[2] + k : k \in {j \in 0..r[3]-1 : r[4] + r[3] - 1 - j \in block}} : r \in rows}
  BY <1>2 DEF ReadField, RowsOf
<1>7. ASSUME NEW w \in fields[f]
      PROVE  \E r \in rows : \E j \in 0..r[3]-1 : r[4] + r[3] - 1 - j \in block /\ w = r[2] + j
  <2>1. PICK r \in rows : w \in r[2]..r[2]+r[3]-1
    BY <1>5, <1>7 DEF Readable
  <2>2. w - r[2] \in 0..r[3]-1 /\ w = r[2] + (w - r[2])
    BY <1>3, <2>1 DEF RowFits
  <2>3. QED
    BY <1>4, <1>7, <2>1, <2>2
<1>8. ASSUME NEW r \in rows, NEW j \in 0..r[3]-1, r[4] + r[3] - 1 - j \in block
      PROVE  r[2] + j \in fields[f]
  BY <1>4, <1>8
<1>9. \A w : w \in ReadField(part, block, f)
               <=> \E r \in rows : \E j \in 0..r[3]-1 : r[4] + r[3] - 1 - j \in block /\ w = r[2] + j
  BY <1>6
<1>10. ReadField(part, block, f) = fields[f]
  <2>1. \A w \in fields[f] : w \in ReadField(part, block, f)
    BY <1>7, <1>9, Zenon
  <2>2. ASSUME NEW w \in ReadField(part, block, f) PROVE w \in fields[f]
    <3>1. PICK r \in rows : \E j \in 0..r[3]-1 : r[4] + r[3] - 1 - j \in block /\ w = r[2] + j
      BY <1>9, <2>2, Zenon
    <3>2. PICK j \in 0..r[3]-1 : r[4] + r[3] - 1 - j \in block /\ w = r[2] + j
      BY <3>1, Zenon
    <3>3. QED
      BY <1>4, <3>2
  <2>3. QED
    BY <2>1, <2>2, Zenon
<1>11. QED
  BY <1>1, <1>10

-----------------------------------------------------------------------------
(* The check bits are the last two octets, and are what is checked. *)
LEMMA CrcLast ==
  ASSUME NEW block, NEW dataType \in {0, 3, 6}
  PROVE  Crc(block, dataType) \subseteq 80..95
<1>1. PICK bits : bits = Sum2(CRC16Compute(10, block \cap (0..79)), CrcMask(dataType))
  OBVIOUS
<1>2. CRC16Compute(10, block \cap (0..79)) \subseteq 0..15
  BY DEF CRC16Compute
<1>3. CrcMask(dataType) \subseteq 0..15
  BY DEF CrcMask
<1>4. bits \subseteq 0..15
  BY <1>1, <1>2, <1>3 DEF Sum2
<1>5. \A b \in bits : 96 - 1 - b \in 80..95
  BY <1>4
<1>6. QED
  BY <1>1, <1>5 DEF Crc, BlockBits

LEMMA CrcHolds ==
  ASSUME NEW written \in SUBSET (0..79), NEW dataType \in {0, 3, 6}
  PROVE  CrcOk(written \cup Crc(written, dataType), dataType)
<1>1. PICK crc : crc = Crc(written, dataType)
  OBVIOUS
<1>2. crc \subseteq 80..95
  BY <1>1, CrcLast
<1> DEFINE first == 0..79
           last  == 80..95
<1>3. first \cap last = {} /\ written \subseteq first /\ crc \subseteq last
  BY <1>2
<1> HIDE DEF first, last
<1>4. /\ (written \cup crc) \cap last = crc
      /\ (written \cup crc) \cap first = written
      /\ written \cap first = written
  BY <1>3
<1>5. Crc(written \cup crc, dataType) = crc
  BY <1>1, <1>4 DEF Crc, first
<1>6. QED
  BY <1>1, <1>4, <1>5 DEF CrcOk, last

LEMMA ParityLast ==
  ASSUME NEW block, NEW dataType
  PROVE  VoiceParity(block, dataType) \subseteq 72..95
<1> SUFFICES ASSUME NEW x \in VoiceParity(block, dataType)
             PROVE  x \in 72..95
  OBVIOUS
<1> DEFINE checksum == CalcChecksum(VoiceOctets(block, dataType))
           Sums(i)  == Sum2({b \in 0..7 : (checksum[i] \div 2^b) % 2 = 1}, VoiceMask(dataType))
<1>1. VoiceMask(dataType) \subseteq 0..7
  BY DEF VoiceMask, VoiceHeaderMask, VoiceTerminatorMask
<1>2. \A i : Sums(i) \subseteq 0..7
  BY <1>1 DEF Sum2
<1>3. x \in UNION {{8 * (DataSize + i) - 1 - b : b \in Sums(i)} : i \in 1..3}
  BY DEF VoiceParity
<1> HIDE DEF Sums
<1>4. PICK i \in 1..3 : x \in {8 * (DataSize + i) - 1 - b : b \in Sums(i)}
  BY <1>3
<1>5. PICK b \in 0..7 : x = 8 * (9 + i) - 1 - b
  BY <1>2, <1>4 DEF DataSize
<1>6. QED
  BY <1>4, <1>5

-----------------------------------------------------------------------------
(***************************************************************************)
(* The octets of the Reed-Solomon code, bit by bit.                        *)
(***************************************************************************)
Octets == 0..255
Weights == {1, 2, 4, 8, 16, 32, 64, 128}
OddAt(a, w) == (a \div w) % 2 = 1

(* The octet x of eight bits. *)
OctetBits(x, a, b, c, d, e, f, g, h) ==
  /\ (x \div 1) % 2 = a  /\ (x \div 2) % 2 = b  /\ (x \div 4) % 2 = c  /\ (x \div 8) % 2 = d
  /\ (x \div 16) % 2 = e /\ (x \div 32) % 2 = f /\ (x \div 64) % 2 = g /\ (x \div 128) % 2 = h

LEMMA BitsOfOctet ==
  ASSUME NEW x \in Octets
  PROVE  /\ x = ((x \div 1) % 2) + 2 * ((x \div 2) % 2) + 4 * ((x \div 4) % 2) + 8 * ((x \div 8) % 2)
                + 16 * ((x \div 16) % 2) + 32 * ((x \div 32) % 2) + 64 * ((x \div 64) % 2)
                + 128 * ((x \div 128) % 2)
         /\ \A w \in Weights : (x \div w) % 2 \in 0..1
BY DEF Weights, Octets

(* y has the bits of x; z has the bits in which x and y differ. *)
Alike(x, y) ==
  /\ OddAt(x, 1) <=> OddAt(y, 1)
  /\ OddAt(x, 2) <=> OddAt(y, 2)
  /\ OddAt(x, 4) <=> OddAt(y, 4)
  /\ OddAt(x, 8) <=> OddAt(y, 8)
  /\ OddAt(x, 16) <=> OddAt(y, 16)
  /\ OddAt(x, 32) <=> OddAt(y, 32)
  /\ OddAt(x, 64) <=> OddAt(y, 64)
  /\ OddAt(x, 128) <=> OddAt(y, 128)

Summed(x, y, z) ==
  /\ OddAt(z, 1) <=> ~(OddAt(x, 1) <=> OddAt(y, 1))
  /\ OddAt(z, 2) <=> ~(OddAt(x, 2) <=> OddAt(y, 2))
  /\ OddAt(z, 4) <=> ~(OddAt(x, 4) <=> OddAt(y, 4))
  /\ OddAt(z, 8) <=> ~(OddAt(x, 8) <=> OddAt(y, 8))
  /\ OddAt(z, 16) <=> ~(OddAt(x, 16) <=> OddAt(y, 16))
  /\ OddAt(z, 32) <=> ~(OddAt(x, 32) <=> OddAt(y, 32))
  /\ OddAt(z, 64) <=> ~(OddAt(x, 64) <=> OddAt(y, 64))
  /\ OddAt(z, 128) <=> ~(OddAt(x, 128) <=> OddAt(y, 128))

LEMMA SameBits ==
  ASSUME NEW x \in Octets, NEW y \in Octets, Alike(x, y)
  PROVE  x = y
<1> DEFINE X(w) == (x \div w) % 2
           Y(w) == (y \div w) % 2
<1>1. \A w \in Weights : X(w) \in 0..1 /\ Y(w) \in 0..1
  BY BitsOfOctet
<1>2. \A w \in Weights : (X(w) = 1 <=> OddAt(x, w)) /\ (Y(w) = 1 <=> OddAt(y, w))
  BY DEF OddAt
<1>3. /\ x = X(1) + 2 * X(2) + 4 * X(4) + 8 * X(8) + 16 * X(16) + 32 * X(32) + 64 * X(64) + 128 * X(128)
      /\ y = Y(1) + 2 * Y(2) + 4 * Y(4) + 8 * Y(8) + 16 * Y(16) + 32 * Y(32) + 64 * Y(64) + 128 * Y(128)
  BY BitsOfOctet
<1> HIDE DEF X, Y
<1>4. X(1) = Y(1) /\ X(2) = Y(2) /\ X(4) = Y(4) /\ X(8) = Y(8) /\ X(16) = Y(16) /\ X(32) = Y(32)
        /\ X(64) = Y(64) /\ X(128) = Y(128)
  BY <1>1, <1>2 DEF Weights, Alike
<1>5. QED
  BY <1>3, <1>4

LEMMA XorBits ==
  ASSUME NEW x \in Octets, NEW y \in Octets
  PROVE  Xor(x, y) \in Octets /\ Summed(x, y, Xor(x, y))
<1> DEFINE Differ(w) == ((x \div w) + (y \div w)) % 2
<1>1. \A w \in Weights : Differ(w) \in 0..1
  BY DEF Weights, Octets
<1>2. \A w \in Weights : Differ(w) = 1 <=> ~(OddAt(x, w) <=> OddAt(y, w))
  BY DEF Weights, OddAt, Octets
<1>3. Xor(x, y) = 1 * Differ(1) + 2 * Differ(2) + 4 * Differ(4) + 8 * Differ(8)
                  + 16 * Differ(16) + 32 * Differ(32) + 64 * Differ(64) + 128 * Differ(128)
  BY DEF Xor
<1> HIDE DEF Differ
<1>4. PICK a \in 0..1, b \in 0..1, c \in 0..1, d \in 0..1, e \in 0..1, f \in 0..1, g \in 0..1, h \in 0..1 :
        /\ a = Differ(1)  /\ b = Differ(2)  /\ c = Differ(4)  /\ d = Differ(8)
        /\ e = Differ(16) /\ f = Differ(32) /\ g = Differ(64) /\ h = Differ(128)
  BY <1>1 DEF Weights
<1>5. /\ a = 1 <=> ~(OddAt(x, 1) <=> OddAt(y, 1))
      /\ b = 1 <=> ~(OddAt(x, 2) <=> OddAt(y, 2))
      /\ c = 1 <=> ~(OddAt(x, 4) <=> OddAt(y, 4))
      /\ d = 1 <=> ~(OddAt(x, 8) <=> OddAt(y, 8))
      /\ e = 1 <=> ~(OddAt(x, 16) <=> OddAt(y, 16))
      /\ f = 1 <=> ~(OddAt(x, 32) <=> OddAt(y, 32))
      /\ g = 1 <=> ~(OddAt(x, 64) <=> OddAt(y, 64))
      /\ h = 1 <=> ~(OddAt(x, 128) <=> OddAt(y, 128))
  BY <1>2, <1>4 DEF Weights
<1>6. PICK z \in Int : z = Xor(x, y) /\ z = a + 2 * b + 4 * c + 8 * d + 16 * e + 32 * f + 64 * g + 128 * h
  BY <1>3, <1>4
<1>7. z \in Octets /\ OctetBits(z, a, b, c, d, e, f, g, h)
  <2>1. z \in 0..255 /\ OctetBits(z, a, b, c, d, e, f, g, h)
    <3>1. z = a + 2 * b + 4 * c + 8 * d + 16 * e + 32 * f + 64 * g + 128 * h
      BY <1>6
    <3>2. /\ a \in 0..1 /\ b \in 0..1 /\ c \in 0..1 /\ d \in 0..1
          /\ e \in 0..1 /\ f \in 0..1 /\ g \in 0..1 /\ h \in 0..1
      BY <1>4
    <3>3. QED
      BY <3>1, <3>2, SMTT(30) DEF OctetBits
  <2>2. QED
    BY <2>1, Zenon DEF Octets
<1>8. /\ OddAt(z, 1) <=> a = 1
      /\ OddAt(z, 2) <=> b = 1
      /\ OddAt(z, 4) <=> c = 1
      /\ OddAt(z, 8) <=> d = 1
      /\ OddAt(z, 16) <=> e = 1
      /\ OddAt(z, 32) <=> f = 1
      /\ OddAt(z, 64) <=> g = 1
      /\ OddAt(z, 128) <=> h = 1
  BY <1>7 DEF OddAt, OctetBits
<1>9. Summed(x, y, z)
  BY <1>5, <1>8 DEF Summed
<1>10. QED
  BY <1>6, <1>7, <1>9

LEMMA XorOctet ==
  ASSUME NEW x \in Octets, NEW y \in Octets
  PROVE  Xor(x, y) \in Octets
BY XorBits

(* Twice an element of the field is the product by 2. *)
Twice(x) == IF x < 128 THEN 2 * x ELSE Xor(2 * x - 256, 29)

(* The bits of x moved up; the highest comes in again at four places. *)
Moved(x, y) ==
  /\ OddAt(y, 1) <=> OddAt(x, 128)
  /\ OddAt(y, 2) <=> OddAt(x, 1)
  /\ OddAt(y, 4) <=> ~(OddAt(x, 2) <=> OddAt(x, 128))
  /\ OddAt(y, 8) <=> ~(OddAt(x, 4) <=> OddAt(x, 128))
  /\ OddAt(y, 16) <=> ~(OddAt(x, 8) <=> OddAt(x, 128))
  /\ OddAt(y, 32) <=> OddAt(x, 16)
  /\ OddAt(y, 64) <=> OddAt(x, 32)
  /\ OddAt(y, 128) <=> OddAt(x, 64)

LEMMA TwiceBits ==
  ASSUME NEW x \in Octets
  PROVE  Twice(x) \in Octets /\ Moved(x, Twice(x))
<1>1. CASE x < 128
  BY <1>1 DEF Twice, OddAt, Moved, Octets
<1>2. CASE x >= 128
  <2>1. PICK y \in Octets : y = 2 * x - 256
    BY <1>2 DEF Octets
  <2>2. /\ OddAt(x, 128) /\ ~OddAt(y, 1) /\ (OddAt(y, 2) <=> OddAt(x, 1)) /\ (OddAt(y, 4) <=> OddAt(x, 2))
        /\ (OddAt(y, 8) <=> OddAt(x, 4)) /\ (OddAt(y, 16) <=> OddAt(x, 8)) /\ (OddAt(y, 32) <=> OddAt(x, 16))
        /\ (OddAt(y, 64) <=> OddAt(x, 32)) /\ (OddAt(y, 128) <=> OddAt(x, 64))
    BY <1>2, <2>1, SMTT(30) DEF OddAt, Octets
  <2>3. PICK c \in Octets :
          /\ c = 29 /\ OddAt(c, 1) /\ ~OddAt(c, 2) /\ OddAt(c, 4) /\ OddAt(c, 8) /\ OddAt(c, 16)
          /\ ~OddAt(c, 32) /\ ~OddAt(c, 64) /\ ~OddAt(c, 128)
    BY DEF OddAt, Octets
  <2>4. Twice(x) = Xor(y, c)
    BY <1>2, <2>1, <2>3 DEF Twice, Octets
  <2>5. Twice(x) \in Octets /\ Summed(y, c, Twice(x))
    BY <2>1, <2>3, <2>4, XorBits
  <2>6. QED
    BY <2>2, <2>3, <2>5 DEF Summed, Moved
<1>3. QED
  BY <1>1, <1>2 DEF Octets

LEMMA TwiceOctet ==
  ASSUME NEW x \in Octets
  PROVE  Twice(x) \in Octets
BY TwiceBits

LEMMA TwiceAdds ==
  ASSUME NEW x \in Octets, NEW y \in Octets
  PROVE  Twice(Xor(x, y)) = Xor(Twice(x), Twice(y))
<1>1. PICK z \in Octets : z = Xor(x, y)
  BY XorOctet
<1>2. PICK u \in Octets, v \in Octets, t \in Octets : u = Twice(x) /\ v = Twice(y) /\ t = Twice(z)
  BY TwiceOctet
<1>3. PICK r \in Octets : r = Xor(u, v)
  BY XorOctet
<1>4. Summed(x, y, z) /\ Summed(u, v, r)
  BY <1>1, <1>3, XorBits
<1>5. Moved(x, u) /\ Moved(y, v) /\ Moved(z, t)
  BY <1>2, TwiceBits
<1>6. Alike(t, r)
  BY <1>4, <1>5 DEF Summed, Moved, Alike
<1>7. t = r
  BY <1>6, SameBits
<1>8. QED
  BY <1>1, <1>2, <1>3, <1>7
-----------------------------------------------------------------------------
(***************************************************************************)
(* The tables: 2 is the generator, the logarithm its inverse.              *)
(***************************************************************************)
LEMMA TableTwice ==
  ASSUME NEW k \in 1..254
  PROVE  ExpTable[k + 1] = Twice(ExpTable[k])
BY SMTT(100) DEF ExpTable, Twice, Xor

LEMMA TableExp ==
  ASSUME NEW k \in 1..255
  PROVE  ExpTable[k] \in 1..255 /\ LogTable[ExpTable[k]] = k - 1
BY SMTT(100) DEF ExpTable, LogTable

LEMMA LogIn ==
  ASSUME NEW x \in Octets, x # 0
  PROVE  LogTable[x] \in 0..254 /\ GaloisExp(LogTable[x]) = x
<1>1. LogTable[x] \in 0..254 /\ ExpTable[LogTable[x] + 1] = x
  BY SMTT(100) DEF ExpTable, LogTable, Octets
<1>2. LogTable[x] % 255 = LogTable[x]
  BY <1>1
<1>3. QED
  BY <1>1, <1>2, Zenon DEF GaloisExp

LEMMA ExpIn ==
  ASSUME NEW k \in Nat
  PROVE  GaloisExp(k) \in Octets /\ GaloisExp(k) # 0 /\ LogTable[GaloisExp(k)] = k % 255
<1>1. PICK i \in 1..255 : i = (k % 255) + 1
  OBVIOUS
<1>2. GaloisExp(k) = ExpTable[i]
  BY <1>1 DEF GaloisExp
<1>3. ExpTable[i] \in 1..255 /\ LogTable[ExpTable[i]] = i - 1
  BY TableExp, Zenon
<1>4. PICK y : y = ExpTable[i]
  OBVIOUS
<1>5. y \in Octets /\ y # 0
  BY <1>3, <1>4 DEF Octets
<1>6. i - 1 = k % 255
  BY <1>1
<1>7. QED
  BY <1>2, <1>3, <1>4, <1>5, <1>6

LEMMA ExpNext ==
  ASSUME NEW k \in Nat
  PROVE  GaloisExp(k + 1) = Twice(GaloisExp(k))
<1>1. CASE k % 255 = 254
  <2>1. (k + 1) % 255 = 0
    BY <1>1
  <2>2. GaloisExp(k + 1) = 1 /\ GaloisExp(k) = 142
    BY <1>1, <2>1 DEF GaloisExp, ExpTable
  <2>3. Twice(142) = 1
    BY DEF Twice, Xor
  <2>4. QED
    BY <2>2, <2>3, Zenon
<1>2. CASE k % 255 # 254
  <2>1. PICK i \in 1..254 : i = (k % 255) + 1
    BY <1>2
  <2>2. (k + 1) % 255 = i
    BY <1>2, <2>1
  <2>3. GaloisExp(k + 1) = ExpTable[i + 1] /\ GaloisExp(k) = ExpTable[i]
    BY <2>1, <2>2, Zenon DEF GaloisExp
  <2>4. ExpTable[i + 1] = Twice(ExpTable[i])
    BY <2>1, TableTwice
  <2>5. QED
    BY <2>3, <2>4, Zenon
<1>3. QED
  BY <1>1, <1>2, Zenon

(* x, k times doubled. *)
Times(k, x) == IF x = 0 THEN 0 ELSE GaloisExp(k + LogTable[x])

LEMMA TimesOctet ==
  ASSUME NEW k \in Nat, NEW x \in Octets
  PROVE  Times(k, x) \in Octets
<1>1. CASE x = 0
  BY <1>1 DEF Times, Octets
<1>2. CASE x # 0
  <2>1. PICK m \in Nat : m = k + LogTable[x]
    <3>1. PICK l \in 0..254 : l = LogTable[x]
      BY <1>2, LogIn, Zenon
    <3>2. k + l \in Nat
      OBVIOUS
    <3>3. QED
      BY <3>1, <3>2, Zenon
  <2>2. GaloisExp(m) \in Octets
    BY ExpIn, Zenon
  <2>3. QED
    BY <1>2, <2>1, <2>2, Zenon DEF Times
<1>3. QED
  BY <1>1, <1>2, Zenon

LEMMA TimesOnce ==
  ASSUME NEW x \in Octets
  PROVE  Times(0, x) = x /\ Times(1, x) = Twice(x)
<1>1. CASE x = 0
  BY <1>1 DEF Times, Twice
<1>2. CASE x # 0
  <2>1. PICK l \in 0..254 : l = LogTable[x] /\ GaloisExp(l) = x
    BY <1>2, LogIn, Zenon
  <2>2. l \in Nat /\ 0 + l = l /\ 1 + l = l + 1
    OBVIOUS
  <2>3. GaloisExp(l + 1) = Twice(GaloisExp(l))
    BY <2>2, ExpNext, Zenon
  <2>4. QED
    BY <1>2, <2>1, <2>2, <2>3, Zenon DEF Times
<1>3. QED
  BY <1>1, <1>2, Zenon

LEMMA ExpPeriod ==
  ASSUME NEW k \in Nat, NEW m \in Nat
  PROVE  GaloisExp(k + (m % 255)) = GaloisExp(k + m)
<1>1. (k + (m % 255)) % 255 = (k + m) % 255
  OBVIOUS
<1>2. QED
  BY <1>1, Zenon DEF GaloisExp

LEMMA TimesTimes ==
  ASSUME NEW k \in Nat, NEW m \in Nat, NEW x \in Octets
  PROVE  Times(k + m, x) = Times(k, Times(m, x))
<1>1. CASE x = 0
  BY <1>1, Zenon DEF Times
<1>2. CASE x # 0
  <2>1. PICK l \in 0..254 : l = LogTable[x]
    BY <1>2, LogIn, Zenon
  <2>2. PICK n \in Nat : n = m + l /\ (k + m) + l = k + n
    OBVIOUS
  <2>3. PICK y : y = GaloisExp(n) /\ y # 0 /\ LogTable[y] = n % 255
    BY ExpIn
  <2>4. Times(k, y) = GaloisExp(k + (n % 255))
    BY <2>3, Zenon DEF Times
  <2>5. GaloisExp(k + (n % 255)) = GaloisExp(k + n)
    BY ExpPeriod
  <2>6. Times(m, x) = y /\ Times(k + m, x) = GaloisExp(k + n)
    BY <1>2, <2>1, <2>2, <2>3, Zenon DEF Times
  <2>7. QED
    BY <2>4, <2>5, <2>6, Zenon
<1>3. QED
  BY <1>1, <1>2, Zenon

Adds(k) == \A x, y \in Octets : Times(k, Xor(x, y)) = Xor(Times(k, x), Times(k, y))

AllAdd(n) == \A k \in 0..n : Adds(k)

LEMMA SumAdds ==
  ASSUME NEW k \in Nat, NEW m \in Nat, Adds(k), Adds(m)
  PROVE  Adds(k + m)
<1> SUFFICES ASSUME NEW x \in Octets, NEW y \in Octets
             PROVE  Times(k + m, Xor(x, y)) = Xor(Times(k + m, x), Times(k + m, y))
  BY DEF Adds
<1>1. PICK z \in Octets : z = Xor(x, y)
  BY XorOctet, Zenon
<1>2. PICK u \in Octets, v \in Octets : u = Times(m, x) /\ v = Times(m, y)
  BY TimesOctet, Zenon
<1>3. Times(m, z) = Xor(u, v)
  BY <1>1, <1>2, Zenon DEF Adds
<1>4. Times(k, Xor(u, v)) = Xor(Times(k, u), Times(k, v))
  BY <1>2, Zenon DEF Adds
<1>5. Times(k + m, z) = Times(k, Times(m, z))
  BY <1>1, TimesTimes, Zenon
<1>6. Times(k + m, x) = Times(k, u) /\ Times(k + m, y) = Times(k, v)
  BY <1>2, TimesTimes, Zenon
<1>7. QED
  BY <1>1, <1>3, <1>4, <1>5, <1>6, Zenon

(* As far again. *)
LEMMA TwiceAsFar ==
  ASSUME NEW n \in Nat, AllAdd(n)
  PROVE  AllAdd(n + n)
<1> SUFFICES ASSUME NEW k \in 0..n + n
             PROVE  Adds(k)
  BY DEF AllAdd
<1>1. PICK i \in 0..n, j \in 0..n : k = i + j
  <2>1. k \div 2 \in 0..n /\ k - (k \div 2) \in 0..n /\ k = (k \div 2) + (k - (k \div 2))
    OBVIOUS
  <2>2. QED
    BY <2>1, Zenon
<1>2. Adds(i) /\ Adds(j)
  BY Zenon DEF AllAdd
<1>3. i \in Nat /\ j \in Nat
  OBVIOUS
<1>4. Adds(i + j)
  BY <1>2, <1>3, SumAdds, Zenon
<1>5. QED
  BY <1>1, <1>4, Zenon

LEMMA EveryPowerAdds == AllAdd(256)
<1>1. AllAdd(1)
  <2>1. ASSUME NEW x \in Octets, NEW y \in Octets
        PROVE  /\ Times(0, Xor(x, y)) = Xor(Times(0, x), Times(0, y))
               /\ Times(1, Xor(x, y)) = Xor(Times(1, x), Times(1, y))
    <3>1. PICK z \in Octets : z = Xor(x, y)
      BY XorOctet, Zenon
    <3>2. Twice(z) = Xor(Twice(x), Twice(y))
      BY <3>1, TwiceAdds, Zenon
    <3>3. /\ Times(0, x) = x /\ Times(0, y) = y /\ Times(0, z) = z
          /\ Times(1, x) = Twice(x) /\ Times(1, y) = Twice(y) /\ Times(1, z) = Twice(z)
      BY <3>1, TimesOnce, Zenon
    <3>4. QED
      BY <3>1, <3>2, <3>3, Zenon
  <2>2. Adds(0) /\ Adds(1)
    BY <2>1, Zenon DEF Adds
  <2>3. \A k \in 0..1 : k = 0 \/ k = 1
    OBVIOUS
  <2>4. QED
    BY <2>2, <2>3, Zenon DEF AllAdd
<1>2. AllAdd(1 + 1)
  BY <1>1, TwiceAsFar
<1>3. AllAdd(2 + 2)
  <2>1. 1 + 1 = 2 /\ 2 \in Nat
    OBVIOUS
  <2>2. QED
    BY <1>2, <2>1, TwiceAsFar, Zenon
<1>4. AllAdd(4 + 4)
  <2>1. 2 + 2 = 4 /\ 4 \in Nat
    OBVIOUS
  <2>2. QED
    BY <1>3, <2>1, TwiceAsFar, Zenon
<1>5. AllAdd(8 + 8)
  <2>1. 4 + 4 = 8 /\ 8 \in Nat
    OBVIOUS
  <2>2. QED
    BY <1>4, <2>1, TwiceAsFar, Zenon
<1>6. AllAdd(16 + 16)
  <2>1. 8 + 8 = 16 /\ 16 \in Nat
    OBVIOUS
  <2>2. QED
    BY <1>5, <2>1, TwiceAsFar, Zenon
<1>7. AllAdd(32 + 32)
  <2>1. 16 + 16 = 32 /\ 32 \in Nat
    OBVIOUS
  <2>2. QED
    BY <1>6, <2>1, TwiceAsFar, Zenon
<1>8. AllAdd(64 + 64)
  <2>1. 32 + 32 = 64 /\ 64 \in Nat
    OBVIOUS
  <2>2. QED
    BY <1>7, <2>1, TwiceAsFar
<1>9. AllAdd(128 + 128)
  <2>1. 64 + 64 = 128 /\ 128 \in Nat
    OBVIOUS
  <2>2. QED
    BY <1>8, <2>1, TwiceAsFar
<1>10. 128 + 128 = 256
  OBVIOUS
<1>11. QED
  BY <1>9, <1>10, Zenon

-----------------------------------------------------------------------------
(***************************************************************************)
(* The multiplication of GF(256), as far as the code needs it.             *)
(***************************************************************************)
LEMMA MulTimes ==
  ASSUME NEW x \in Octets, x # 0, NEW y \in Octets
  PROVE  GaloisMul(x, y) = Times(LogTable[x], y)
<1>1. CASE y = 0
  BY <1>1 DEF GaloisMul, Times
<1>2. CASE y # 0
  BY <1>2 DEF GaloisMul, Times
<1>3. QED
  BY <1>1, <1>2, Zenon

LEMMA LogNat ==
  ASSUME NEW x \in Octets, x # 0
  PROVE  LogTable[x] \in Nat
<1>1. \A l \in 0..254 : l \in Nat
  OBVIOUS
<1>2. QED
  BY <1>1, LogIn, Zenon

LEMMA MulOctet ==
  ASSUME NEW x \in Octets, NEW y \in Octets
  PROVE  GaloisMul(x, y) \in Octets
<1>1. CASE x = 0
  BY <1>1 DEF GaloisMul, Octets
<1>2. CASE x # 0
  BY <1>2, LogNat, MulTimes, TimesOctet, Zenon
<1>3. QED
  BY <1>1, <1>2, Zenon

LEMMA MulCommutes ==
  ASSUME NEW x \in Octets, NEW y \in Octets
  PROVE  GaloisMul(x, y) = GaloisMul(y, x)
<1>1. {x, y} = {y, x}
  OBVIOUS
<1>2. CASE x = 0 \/ y = 0
  BY <1>2, Zenon DEF GaloisMul
<1>3. CASE x # 0 /\ y # 0
  <2>1. PICK k \in Nat, l \in Nat : k = LogTable[x] /\ l = LogTable[y]
    BY <1>3, LogNat, Zenon
  <2>2. k + l = l + k
    OBVIOUS
  <2>3. QED
    BY <1>1, <2>1, <2>2, Zenon DEF GaloisMul
<1>4. QED
  BY <1>2, <1>3, Zenon

LEMMA MulXor ==
  ASSUME NEW x \in Octets, NEW y \in Octets, NEW z \in Octets
  PROVE  GaloisMul(x, Xor(y, z)) = Xor(GaloisMul(x, y), GaloisMul(x, z))
<1>1. CASE x = 0
  BY <1>1 DEF GaloisMul, Xor
<1>2. CASE x # 0
  <2>1. PICK l \in 0..254 : l = LogTable[x]
    BY <1>2, LogIn, Zenon
  <2>2. PICK s \in Octets : s = Xor(y, z)
    BY XorOctet, Zenon
  <2>3. GaloisMul(x, y) = Times(l, y) /\ GaloisMul(x, z) = Times(l, z) /\ GaloisMul(x, s) = Times(l, s)
    BY <1>2, <2>1, <2>2, MulTimes, Zenon
  <2>4. l \in 0..256
    OBVIOUS
  <2>5. Times(l, Xor(y, z)) = Xor(Times(l, y), Times(l, z))
    BY <2>4, EveryPowerAdds, Zenon DEF AllAdd, Adds
  <2>6. QED
    BY <2>2, <2>3, <2>5, Zenon
<1>3. QED
  BY <1>1, <1>2, Zenon

LEMMA TimesPeriod ==
  ASSUME NEW m \in Nat, NEW z \in Octets
  PROVE  Times(m % 255, z) = Times(m, z)
<1>1. CASE z = 0
  BY <1>1, Zenon DEF Times
<1>2. CASE z # 0
  <2>1. PICK l \in Nat : l = LogTable[z]
    BY <1>2, LogNat, Zenon
  <2>2. ((m % 255) + l) % 255 = (m + l) % 255
    OBVIOUS
  <2>3. QED
    BY <1>2, <2>1, <2>2 DEF Times, GaloisExp
<1>3. QED
  BY <1>1, <1>2, Zenon

LEMMA MulMul ==
  ASSUME NEW x \in Octets, NEW y \in Octets, NEW z \in Octets
  PROVE  GaloisMul(x, GaloisMul(y, z)) = GaloisMul(GaloisMul(x, y), z)
<1>1. CASE x = 0 \/ y = 0
  BY <1>1 DEF GaloisMul
<1>2. CASE x # 0 /\ y # 0
  <2>1. PICK k \in Nat, l \in Nat : k = LogTable[x] /\ l = LogTable[y]
    BY <1>2, LogNat, Zenon
  <2>2. PICK m \in Nat : m = k + l
    OBVIOUS
  <2>3. PICK p \in Octets : p = GaloisExp(m) /\ p # 0 /\ LogTable[p] = m % 255
    BY ExpIn, ZenonT(60)
  <2>4. GaloisMul(x, y) = p
    <3>1. 0 \notin {x, y}
      BY <1>2
    <3>2. QED
      BY <2>1, <2>2, <2>3, <3>1, Zenon DEF GaloisMul
  <2>5. PICK q \in Octets : q = Times(l, z)
    BY TimesOctet, Zenon
  <2>6. GaloisMul(y, z) = q /\ GaloisMul(x, q) = Times(k, q)
    BY <1>2, <2>1, <2>5, MulTimes, Zenon
  <2>7. GaloisMul(p, z) = Times(m, z)
    BY <2>3, MulTimes, TimesPeriod
  <2>8. Times(m, z) = Times(k, q)
    BY <2>2, <2>5, TimesTimes
  <2>9. QED
    BY <2>4, <2>6, <2>7, <2>8, Zenon
<1>3. QED
  BY <1>1, <1>2, Zenon

-----------------------------------------------------------------------------
(***************************************************************************)
(* The checksum makes the polynomial of the block a multiple of the        *)
(* generator polynomial, whose roots are the places the syndrome is taken  *)
(* at.                                                                     *)
(***************************************************************************)
Square(a) == GaloisMul(a, a)
Cube(a)   == GaloisMul(a, Square(a))

Root(a) ==
  /\ a \in Octets /\ Square(a) \in Octets /\ Cube(a) \in Octets
  /\ Cube(a) = Xor(GaloisMul(Square(a), 14), Xor(GaloisMul(a, 56), 64))

LEMMA Roots == Root(GaloisExp(1)) /\ Root(GaloisExp(2)) /\ Root(GaloisExp(3))
<1>1. GaloisExp(1) = 2 /\ GaloisExp(2) = 4 /\ GaloisExp(3) = 8
  BY DEF GaloisExp, ExpTable
<1>2. /\ GaloisMul(2, 2) = 4 /\ GaloisMul(2, 4) = 8 /\ GaloisMul(4, 14) = 56 /\ GaloisMul(2, 56) = 112
      /\ GaloisMul(4, 4) = 16 /\ GaloisMul(4, 16) = 64 /\ GaloisMul(16, 14) = 224 /\ GaloisMul(4, 56) = 224
      /\ GaloisMul(8, 8) = 64 /\ GaloisMul(8, 64) = 58 /\ GaloisMul(64, 14) = 167 /\ GaloisMul(8, 56) = 221
  BY DEF GaloisMul, GaloisExp, LogTable, ExpTable
<1>3. /\ Xor(112, 64) = 48 /\ Xor(56, 48) = 8 /\ Xor(224, 64) = 160 /\ Xor(224, 160) = 64
      /\ Xor(221, 64) = 157 /\ Xor(167, 157) = 58
  BY DEF Xor
<1>4. 2 \in Octets /\ 4 \in Octets /\ 8 \in Octets /\ 16 \in Octets /\ 64 \in Octets /\ 58 \in Octets
  BY DEF Octets
<1>5. QED
  BY <1>1, <1>2, <1>3, <1>4 DEF Root, Square, Cube

(* Sums in another order, and of two of everything. *)
Regrouped(a, b, c, d, p, q, r) ==
  Xor(a, Xor(b, Xor(c, d))) = Xor(Xor(c, p), Xor(Xor(d, q), r))

LEMMA Rearranged ==
  ASSUME NEW a \in Octets, NEW b \in Octets, NEW c \in Octets, NEW d \in Octets,
         NEW p \in Octets, NEW q \in Octets, NEW r \in Octets,
         Xor(a, b) = Xor(p, Xor(q, r))
  PROVE  Regrouped(a, b, c, d, p, q, r)
<1>1. PICK ab \in Octets, cd \in Octets, qr \in Octets, cp \in Octets, dq \in Octets :
        /\ ab = Xor(a, b) /\ Summed(a, b, ab) /\ cd = Xor(c, d) /\ Summed(c, d, cd)
        /\ qr = Xor(q, r) /\ Summed(q, r, qr) /\ cp = Xor(c, p) /\ Summed(c, p, cp)
        /\ dq = Xor(d, q) /\ Summed(d, q, dq)
  BY XorBits, Zenon
<1>2. PICK bcd \in Octets, dqr \in Octets : /\ bcd = Xor(b, cd) /\ Summed(b, cd, bcd)
                                            /\ dqr = Xor(dq, r) /\ Summed(dq, r, dqr)
  BY <1>1, XorBits, Zenon
<1>3. PICK x \in Octets, y \in Octets : /\ x = Xor(a, bcd) /\ Summed(a, bcd, x)
                                        /\ y = Xor(cp, dqr) /\ Summed(cp, dqr, y)
  BY <1>1, <1>2, XorBits, Zenon
<1>4. Summed(p, qr, ab)
  BY <1>1, XorBits, Zenon
<1>5. Alike(x, y)
  BY <1>1, <1>2, <1>3, <1>4 DEF Summed, Alike
<1>6. x = y
  BY <1>3, <1>5, SameBits
<1>7. QED
  BY <1>1, <1>2, <1>3, <1>6, Zenon DEF Regrouped

LEMMA Cancelled ==
  ASSUME NEW x \in Octets, NEW y \in Octets, NEW z \in Octets, NEW w, w = Xor(x, Xor(y, z))
  PROVE  Xor(z, Xor(y, Xor(x, w))) = 0
<1>1. PICK yz \in Octets : yz = Xor(y, z) /\ Summed(y, z, yz)
  BY XorBits, Zenon
<1>2. PICK v \in Octets : v = Xor(x, yz) /\ Summed(x, yz, v)
  BY <1>1, XorBits, Zenon
<1>3. PICK xv \in Octets : xv = Xor(x, v) /\ Summed(x, v, xv)
  BY <1>2, XorBits, Zenon
<1>4. PICK yxv \in Octets : yxv = Xor(y, xv) /\ Summed(y, xv, yxv)
  BY <1>3, XorBits, Zenon
<1>5. PICK t \in Octets : t = Xor(z, yxv) /\ Summed(z, yxv, t)
  BY <1>4, XorBits, Zenon
<1>6. PICK none \in Octets :
        /\ none = 0
        /\ ~OddAt(none, 1) /\ ~OddAt(none, 2) /\ ~OddAt(none, 4) /\ ~OddAt(none, 8)
        /\ ~OddAt(none, 16) /\ ~OddAt(none, 32) /\ ~OddAt(none, 64) /\ ~OddAt(none, 128)
  BY DEF OddAt, Octets
<1>7. Alike(t, none)
  BY <1>1, <1>2, <1>3, <1>4, <1>5, <1>6 DEF Summed, Alike
<1>8. t = 0
  BY <1>5, <1>6, <1>7, SameBits
<1>9. QED
  BY <1>1, <1>2, <1>3, <1>4, <1>5, <1>8, Zenon

(* The octet d goes into the register c of CalcChecksum. *)
ShiftOctet(d, c) == << Xor(c[2], GaloisMul(14, Xor(d, c[1]))), Xor(c[3], GaloisMul(56, Xor(d, c[1]))),
                  GaloisMul(64, Xor(d, c[1])) >>

Register3(c) == c[1] \in Octets /\ c[2] \in Octets /\ c[3] \in Octets

(* The value h so far, and what the register has of it. *)
Balanced(a, h, c) ==
  /\ h \in Octets /\ Register3(c)
  /\ GaloisMul(Cube(a), h) = Xor(GaloisMul(Square(a), c[1]), Xor(GaloisMul(a, c[2]), c[3]))

LEMMA RootTimes ==
  ASSUME NEW a, Root(a), NEW f \in Octets
  PROVE  GaloisMul(Cube(a), f)
           = Xor(GaloisMul(Square(a), GaloisMul(14, f)),
                 Xor(GaloisMul(a, GaloisMul(56, f)), GaloisMul(64, f)))
<1>1. PICK c14 \in Octets, c56 \in Octets, c64 \in Octets : c14 = 14 /\ c56 = 56 /\ c64 = 64
  BY DEF Octets
<1>2. PICK a1 \in Octets, a2 \in Octets, a3 \in Octets : a1 = a /\ a2 = Square(a) /\ a3 = Cube(a)
  BY DEF Root
<1>3. PICK p \in Octets, q \in Octets : p = GaloisMul(a2, c14) /\ q = GaloisMul(a1, c56)
  BY MulOctet, Zenon
<1>4. PICK s \in Octets : s = Xor(q, c64)
  BY XorOctet, Zenon
<1>5. a3 = Xor(p, s)
  BY <1>1, <1>2, <1>3, <1>4, Zenon DEF Root
<1>6. GaloisMul(f, Xor(p, s)) = Xor(GaloisMul(f, p), Xor(GaloisMul(f, q), GaloisMul(f, c64)))
  BY <1>1, <1>3, <1>4, MulXor
<1>7. /\ GaloisMul(f, a3) = GaloisMul(a3, f) /\ GaloisMul(f, p) = GaloisMul(p, f)
      /\ GaloisMul(f, q) = GaloisMul(q, f)   /\ GaloisMul(f, c64) = GaloisMul(c64, f)
  BY <1>1, <1>2, <1>3, MulCommutes
<1>8. /\ GaloisMul(p, f) = GaloisMul(a2, GaloisMul(c14, f))
      /\ GaloisMul(q, f) = GaloisMul(a1, GaloisMul(c56, f))
  BY <1>1, <1>2, <1>3, MulMul
<1>9. QED
  BY <1>1, <1>2, <1>5, <1>6, <1>7, <1>8, ZenonT(60)

LEMMA PowersTimes ==
  ASSUME NEW a, Root(a), NEW x \in Octets
  PROVE  /\ GaloisMul(a, GaloisMul(a, x)) = GaloisMul(Square(a), x)
         /\ GaloisMul(a, GaloisMul(Square(a), x)) = GaloisMul(Cube(a), x)
<1>1. a \in Octets /\ Square(a) \in Octets
  BY DEF Root
<1>2. GaloisMul(a, GaloisMul(a, x)) = GaloisMul(GaloisMul(a, a), x)
  BY <1>1, MulMul
<1>3. GaloisMul(a, GaloisMul(Square(a), x)) = GaloisMul(GaloisMul(a, Square(a)), x)
  BY <1>1, MulMul
<1>4. QED
  BY <1>2, <1>3 DEF Square, Cube

LEMMA ShiftBalanced ==
  ASSUME NEW a, Root(a), NEW h, NEW c, Balanced(a, h, c), NEW d \in Octets
  PROVE  Balanced(a, Xor(d, GaloisMul(a, h)), ShiftOctet(d, c))
<1>1. PICK a1 \in Octets, a2 \in Octets, a3 \in Octets : a1 = a /\ a2 = Square(a) /\ a3 = Cube(a)
  BY DEF Root
<1>2. PICK v \in Octets, c1 \in Octets, c2 \in Octets, c3 \in Octets :
        v = h /\ c1 = c[1] /\ c2 = c[2] /\ c3 = c[3]
  BY Zenon DEF Balanced, Register3
<1>3. PICK f \in Octets : f = Xor(d, c1)
  BY XorOctet, Zenon
<1>4. PICK p \in Octets, q \in Octets, r \in Octets :
        p = GaloisMul(14, f) /\ q = GaloisMul(56, f) /\ r = GaloisMul(64, f)
  <2>1. PICK c14 \in Octets, c56 \in Octets, c64 \in Octets : c14 = 14 /\ c56 = 56 /\ c64 = 64
    BY DEF Octets
  <2>2. QED
    BY <2>1, MulOctet, Zenon
<1>5. PICK x \in Octets, y \in Octets : x = Xor(c2, p) /\ y = Xor(c3, q)
  BY XorOctet, Zenon
<1>6. PICK shifted : shifted = ShiftOctet(d, c) /\ shifted = << x, y, r >>
  BY <1>2, <1>3, <1>4, <1>5 DEF ShiftOctet
<1>7. shifted[1] = x /\ shifted[2] = y /\ shifted[3] = r
  BY <1>6
<1>8. PICK av \in Octets : av = GaloisMul(a1, v)
  BY MulOctet, Zenon
<1>9. PICK w \in Octets : w = Xor(d, av)
  BY XorOctet, Zenon
<1>10. PICK m31 \in Octets, m22 \in Octets, m13 \in Octets, m3d \in Octets, m21 \in Octets, m12 \in Octets :
         /\ m31 = GaloisMul(a3, c1) /\ m22 = GaloisMul(a2, c2) /\ m13 = GaloisMul(a1, c3)
         /\ m3d = GaloisMul(a3, d) /\ m21 = GaloisMul(a2, c1) /\ m12 = GaloisMul(a1, c2)
  BY MulOctet, Zenon
<1>11. PICK s \in Octets : s = Xor(m12, c3)
  BY XorOctet, Zenon
<1>12. PICK b \in Octets : b = GaloisMul(a3, v)
  BY MulOctet, Zenon
<1>13. b = Xor(m21, s)
  BY <1>1, <1>2, <1>10, <1>11, <1>12, Zenon DEF Balanced
<1>14. GaloisMul(a3, av) = Xor(m31, Xor(m22, m13))
  <2>1. /\ GaloisMul(a3, av) = GaloisMul(GaloisMul(a3, a1), v)
        /\ GaloisMul(a1, b) = GaloisMul(GaloisMul(a1, a3), v)
    BY <1>1, <1>2, <1>8, <1>12, MulMul, SMTT(30)
  <2>2. GaloisMul(a3, a1) = GaloisMul(a1, a3)
    BY <1>1, MulCommutes
  <2>3. GaloisMul(a1, Xor(m21, s)) = Xor(GaloisMul(a1, m21), GaloisMul(a1, s))
    BY <1>1, <1>10, <1>11, MulXor
  <2>4. GaloisMul(a1, s) = Xor(GaloisMul(a1, m12), GaloisMul(a1, c3))
    BY <1>1, <1>2, <1>10, <1>11, MulXor
  <2>5. GaloisMul(a1, m21) = m31 /\ GaloisMul(a1, m12) = m22
    <3>1. GaloisMul(a, GaloisMul(Square(a), c1)) = GaloisMul(Cube(a), c1)
      BY <1>2, PowersTimes
    <3>2. GaloisMul(a, GaloisMul(a, c2)) = GaloisMul(Square(a), c2)
      BY <1>2, PowersTimes
    <3>3. QED
      BY <1>1, <1>10, <3>1, <3>2, Zenon
  <2>6. QED
    BY <1>10, <1>13, <2>1, <2>2, <2>3, <2>4, <2>5, Zenon
<1>15. GaloisMul(a3, w) = Xor(m3d, Xor(m31, Xor(m22, m13)))
  BY <1>1, <1>8, <1>9, <1>10, <1>14, MulXor
<1>16. PICK p2 \in Octets, q1 \in Octets : p2 = GaloisMul(a2, p) /\ q1 = GaloisMul(a1, q)
  BY MulOctet, Zenon
<1>17. Xor(m3d, m31) = Xor(p2, Xor(q1, r))
  <2>1. GaloisMul(a3, f) = Xor(m3d, m31)
    BY <1>1, <1>2, <1>3, <1>10, MulXor
  <2>2. GaloisMul(a3, f) = Xor(p2, Xor(q1, r))
    BY <1>1, <1>4, <1>16, RootTimes, ZenonT(60)
  <2>3. QED
    BY <2>1, <2>2, Zenon
<1>18. Xor(m3d, Xor(m31, Xor(m22, m13))) = Xor(Xor(m22, p2), Xor(Xor(m13, q1), r))
  <2>1. Regrouped(m3d, m31, m22, m13, p2, q1, r)
    BY <1>4, <1>10, <1>16, <1>17, Rearranged
  <2>2. QED
    BY <2>1, Zenon DEF Regrouped
<1>19. GaloisMul(a2, x) = Xor(m22, p2) /\ GaloisMul(a1, y) = Xor(m13, q1)
  BY <1>1, <1>2, <1>4, <1>5, <1>10, <1>16, MulXor, SMTT(30)
<1>20. GaloisMul(a3, w) = Xor(GaloisMul(a2, x), Xor(GaloisMul(a1, y), r))
  BY <1>15, <1>18, <1>19, Zenon
<1>21. Balanced(a, w, shifted)
  BY <1>1, <1>7, <1>20, <1>9, <1>5, <1>4, Zenon DEF Balanced, Register3
<1>22. QED
  BY <1>1, <1>2, <1>6, <1>8, <1>9, <1>21, Zenon

(* With the register behind it, the value is 0. *)
LEMMA RegisterBehind ==
  ASSUME NEW a, Root(a), NEW h, NEW c, Balanced(a, h, c)
  PROVE  Xor(c[3], GaloisMul(a, Xor(c[2], GaloisMul(a, Xor(c[1], GaloisMul(a, h)))))) = 0
<1>1. PICK a1 \in Octets, a2 \in Octets, a3 \in Octets : a1 = a /\ a2 = Square(a) /\ a3 = Cube(a)
  BY DEF Root
<1>2. PICK v \in Octets, c1 \in Octets, c2 \in Octets, c3 \in Octets :
        v = h /\ c1 = c[1] /\ c2 = c[2] /\ c3 = c[3]
  BY Zenon DEF Balanced, Register3
<1>3. PICK x \in Octets, y \in Octets, u \in Octets, av \in Octets, m \in Octets, w \in Octets :
        /\ x = GaloisMul(a2, c1) /\ y = GaloisMul(a1, c2) /\ u = GaloisMul(a1, c1)
        /\ av = GaloisMul(a1, v) /\ m = GaloisMul(a2, v) /\ w = GaloisMul(a3, v)
  BY MulOctet, Zenon
<1>4. w = Xor(x, Xor(y, c3))
  BY <1>1, <1>2, <1>3, Zenon DEF Balanced
<1>5. GaloisMul(a1, u) = x /\ GaloisMul(a1, av) = m /\ GaloisMul(a1, m) = w
  <2>1. GaloisMul(a, GaloisMul(a, c1)) = GaloisMul(Square(a), c1)
    BY <1>2, PowersTimes
  <2>2. GaloisMul(a, GaloisMul(a, v)) = GaloisMul(Square(a), v)
    BY <1>2, PowersTimes
  <2>3. GaloisMul(a, GaloisMul(Square(a), v)) = GaloisMul(Cube(a), v)
    BY <1>2, PowersTimes
  <2>4. QED
    BY <1>1, <1>3, <2>1, <2>2, <2>3, Zenon
<1>6. GaloisMul(a1, Xor(c1, av)) = Xor(u, m)
  BY <1>1, <1>2, <1>3, <1>5, MulXor
<1>7. PICK s \in Octets : s = Xor(u, m)
  BY XorOctet, Zenon
<1>8. GaloisMul(a1, Xor(c2, s)) = Xor(y, Xor(x, w))
  BY <1>1, <1>2, <1>3, <1>5, <1>7, MulXor
<1>9. Xor(c3, Xor(y, Xor(x, w))) = 0
  BY <1>2, <1>3, <1>4, Cancelled
<1>10. QED
  BY <1>1, <1>2, <1>3, <1>6, <1>7, <1>8, <1>9, Zenon

-----------------------------------------------------------------------------
(* CalcChecksum and CalcSyndrome, octet by octet. *)
LEMMA ChecksumIs ==
  ASSUME NEW data
  PROVE  CalcChecksum(data)
           = ShiftOctet(data[8], ShiftOctet(data[7], ShiftOctet(data[6],
               ShiftOctet(data[5], ShiftOctet(data[4], ShiftOctet(data[3],
                 ShiftOctet(data[2], ShiftOctet(data[1], ShiftOctet(data[0], << 0, 0, 0 >>)))))))))
<1> DEFINE IsChecksum(r) ==
             r = [i \in 0..9 |->
                    IF i = 0 THEN << 0, 0, 0 >>
                    ELSE << Xor(r[i - 1][2], GaloisMul(14, Xor(data[i - 1], r[i - 1][1]))),
                            Xor(r[i - 1][3], GaloisMul(56, Xor(data[i - 1], r[i - 1][1]))),
                            GaloisMul(64, Xor(data[i - 1], r[i - 1][1])) >>]
<1>1. CalcChecksum(data) = (CHOOSE r : IsChecksum(r))[9]
  BY DEF CalcChecksum, DataSize, GenPoly
<1>2. \A r : IsChecksum(r) <=>
        r = [i \in 0..9 |-> IF i = 0 THEN << 0, 0, 0 >> ELSE ShiftOctet(data[i - 1], r[i - 1])]
  BY Zenon DEF ShiftOctet
<1> HIDE DEF IsChecksum
<1>3. PICK s0, s1, s2, s3, s4, s5, s6, s7, s8, s9 :
        /\ s0 = << 0, 0, 0 >>
        /\ s1 = ShiftOctet(data[0], s0) /\ s2 = ShiftOctet(data[1], s1) /\ s3 = ShiftOctet(data[2], s2)
        /\ s4 = ShiftOctet(data[3], s3) /\ s5 = ShiftOctet(data[4], s4) /\ s6 = ShiftOctet(data[5], s5)
        /\ s7 = ShiftOctet(data[6], s6) /\ s8 = ShiftOctet(data[7], s7) /\ s9 = ShiftOctet(data[8], s8)
  OBVIOUS
<1> DEFINE whole == [i \in 0..9 |->
                       CASE i = 0 -> s0 [] i = 1 -> s1 [] i = 2 -> s2 [] i = 3 -> s3 [] i = 4 -> s4
                         [] i = 5 -> s5 [] i = 6 -> s6 [] i = 7 -> s7 [] i = 8 -> s8 [] i = 9 -> s9]
<1>4. whole = [i \in 0..9 |-> IF i = 0 THEN << 0, 0, 0 >> ELSE ShiftOctet(data[i - 1], whole[i - 1])]
  BY <1>3
<1>5. IsChecksum(whole)
  BY <1>2, <1>4, Zenon
<1> HIDE DEF whole
<1>6. PICK r : r = (CHOOSE s : IsChecksum(s)) /\ IsChecksum(r)
  BY <1>5
<1>7. r = [i \in 0..9 |-> IF i = 0 THEN << 0, 0, 0 >> ELSE ShiftOctet(data[i - 1], r[i - 1])]
  BY <1>2, <1>6
<1>8. /\ r[0] = << 0, 0, 0 >>
      /\ r[1] = ShiftOctet(data[0], r[0])
      /\ r[2] = ShiftOctet(data[1], r[1])
      /\ r[3] = ShiftOctet(data[2], r[2])
      /\ r[4] = ShiftOctet(data[3], r[3])
      /\ r[5] = ShiftOctet(data[4], r[4])
      /\ r[6] = ShiftOctet(data[5], r[5])
      /\ r[7] = ShiftOctet(data[6], r[6])
      /\ r[8] = ShiftOctet(data[7], r[7])
      /\ r[9] = ShiftOctet(data[8], r[8])
  BY <1>7
<1>9. CalcChecksum(data) = r[9]
  BY <1>1, <1>6, Zenon
<1>10. QED
  BY <1>8, <1>9, Zenon

(* The octet d goes into the value h of Horner's scheme. *)
Evaluate(a, d, h) == Xor(d, GaloisMul(a, h))

LEMMA SyndromeAt ==
  ASSUME NEW block, NEW j \in 0..2, NEW a, a = GaloisExp(j + 1)
  PROVE  CalcSyndrome(block)[j]
           = Evaluate(a, block[11], Evaluate(a, block[10], Evaluate(a, block[9],
               Evaluate(a, block[8], Evaluate(a, block[7], Evaluate(a, block[6],
                 Evaluate(a, block[5], Evaluate(a, block[4], Evaluate(a, block[3],
                   Evaluate(a, block[2], Evaluate(a, block[1], Evaluate(a, block[0], 0))))))))))))
<1> DEFINE IsValue(r) ==
             r = [i \in 0..12 |->
                    IF i = 0 THEN 0 ELSE Xor(block[i - 1], GaloisMul(GaloisExp(j + 1), r[i - 1]))]
<1>1. CalcSyndrome(block)[j] = (CHOOSE r : IsValue(r))[12]
  BY DEF CalcSyndrome, BlockSize, DataSize, ChecksumSize, PolyMaxDeg
<1>2. \A r : IsValue(r) <=> r = [i \in 0..12 |-> IF i = 0 THEN 0 ELSE Evaluate(a, block[i - 1], r[i - 1])]
  BY Zenon DEF Evaluate
<1> HIDE DEF IsValue
<1>3. PICK s1, s2, s3, s4, s5, s6, s7, s8, s9, s10, s11, s12 :
        /\ s1 = Evaluate(a, block[0], 0)
        /\ s2 = Evaluate(a, block[1], s1)
        /\ s3 = Evaluate(a, block[2], s2)
        /\ s4 = Evaluate(a, block[3], s3)
        /\ s5 = Evaluate(a, block[4], s4)
        /\ s6 = Evaluate(a, block[5], s5)
        /\ s7 = Evaluate(a, block[6], s6)
        /\ s8 = Evaluate(a, block[7], s7)
        /\ s9 = Evaluate(a, block[8], s8)
        /\ s10 = Evaluate(a, block[9], s9)
        /\ s11 = Evaluate(a, block[10], s10)
        /\ s12 = Evaluate(a, block[11], s11)
  OBVIOUS
<1> DEFINE whole == [i \in 0..12 |->
                       CASE i = 0 -> 0  [] i = 1 -> s1 [] i = 2 -> s2 [] i = 3 -> s3 [] i = 4 -> s4
                         [] i = 5 -> s5 [] i = 6 -> s6 [] i = 7 -> s7 [] i = 8 -> s8 [] i = 9 -> s9
                         [] i = 10 -> s10 [] i = 11 -> s11 [] i = 12 -> s12]
<1>4. whole = [i \in 0..12 |-> IF i = 0 THEN 0 ELSE Evaluate(a, block[i - 1], whole[i - 1])]
  BY <1>3
<1>5. IsValue(whole)
  BY <1>2, <1>4, Zenon
<1> HIDE DEF whole
<1>6. PICK r : r = (CHOOSE s : IsValue(s)) /\ IsValue(r)
  BY <1>5
<1>7. r = [i \in 0..12 |-> IF i = 0 THEN 0 ELSE Evaluate(a, block[i - 1], r[i - 1])]
  BY <1>2, <1>6
<1>8. /\ r[0] = 0
      /\ r[1] = Evaluate(a, block[0], r[0])    /\ r[2] = Evaluate(a, block[1], r[1])
      /\ r[3] = Evaluate(a, block[2], r[2])    /\ r[4] = Evaluate(a, block[3], r[3])
      /\ r[5] = Evaluate(a, block[4], r[4])    /\ r[6] = Evaluate(a, block[5], r[5])
      /\ r[7] = Evaluate(a, block[6], r[6])    /\ r[8] = Evaluate(a, block[7], r[7])
      /\ r[9] = Evaluate(a, block[8], r[8])    /\ r[10] = Evaluate(a, block[9], r[9])
      /\ r[11] = Evaluate(a, block[10], r[10]) /\ r[12] = Evaluate(a, block[11], r[11])
  BY <1>7
<1>9. CalcSyndrome(block)[j] = r[12]
  BY <1>1, <1>6, Zenon
<1>10. QED
  BY <1>8, <1>9, ZenonT(60)

(* Behind nine octets the register is what the value wants to be 0. *)
LEMMA DataBalanced ==
  ASSUME NEW a, Root(a), NEW block, \A i \in 0..8 : block[i] \in Octets
  PROVE  Balanced(a, Evaluate(a, block[8], Evaluate(a, block[7], Evaluate(a, block[6], Evaluate(a, block[5],
                       Evaluate(a, block[4], Evaluate(a, block[3], Evaluate(a, block[2], Evaluate(a, block[1],
                         Evaluate(a, block[0], 0))))))))), CalcChecksum(block))
<1>1. ASSUME NEW h, NEW c, Balanced(a, h, c), NEW d \in Octets
      PROVE  Balanced(a, Evaluate(a, d, h), ShiftOctet(d, c))
  BY <1>1, ShiftBalanced DEF Evaluate
<1>2. PICK d0 \in Octets, d1 \in Octets, d2 \in Octets, d3 \in Octets, d4 \in Octets,
           d5 \in Octets, d6 \in Octets, d7 \in Octets, d8 \in Octets :
        /\ d0 = block[0] /\ d1 = block[1] /\ d2 = block[2] /\ d3 = block[3] /\ d4 = block[4]
        /\ d5 = block[5] /\ d6 = block[6] /\ d7 = block[7] /\ d8 = block[8]
  OBVIOUS
<1>3. PICK s0, s1, s2, s3, s4, s5, s6, s7, s8, s9 :
        /\ s0 = << 0, 0, 0 >>
        /\ s1 = ShiftOctet(d0, s0) /\ s2 = ShiftOctet(d1, s1) /\ s3 = ShiftOctet(d2, s2)
        /\ s4 = ShiftOctet(d3, s3) /\ s5 = ShiftOctet(d4, s4) /\ s6 = ShiftOctet(d5, s5)
        /\ s7 = ShiftOctet(d6, s6) /\ s8 = ShiftOctet(d7, s7) /\ s9 = ShiftOctet(d8, s8)
  OBVIOUS
<1>4. PICK h1, h2, h3, h4, h5, h6, h7, h8, h9 :
        /\ h1 = Evaluate(a, d0, 0)  /\ h2 = Evaluate(a, d1, h1) /\ h3 = Evaluate(a, d2, h2)
        /\ h4 = Evaluate(a, d3, h3) /\ h5 = Evaluate(a, d4, h4) /\ h6 = Evaluate(a, d5, h5)
        /\ h7 = Evaluate(a, d6, h6) /\ h8 = Evaluate(a, d7, h7) /\ h9 = Evaluate(a, d8, h8)
  OBVIOUS
<1>5. Balanced(a, 0, s0)
  BY <1>3 DEF Balanced, Register3, GaloisMul, Xor, Octets
<1>6. Balanced(a, h1, s1)
  BY <1>1, <1>2, <1>3, <1>4, <1>5
<1>7. Balanced(a, h2, s2)
  BY <1>1, <1>2, <1>3, <1>4, <1>6
<1>8. Balanced(a, h3, s3)
  BY <1>1, <1>2, <1>3, <1>4, <1>7
<1>9. Balanced(a, h4, s4)
  BY <1>1, <1>2, <1>3, <1>4, <1>8
<1>10. Balanced(a, h5, s5)
  BY <1>1, <1>2, <1>3, <1>4, <1>9
<1>11. Balanced(a, h6, s6)
  BY <1>1, <1>2, <1>3, <1>4, <1>10
<1>12. Balanced(a, h7, s7)
  BY <1>1, <1>2, <1>3, <1>4, <1>11
<1>13. Balanced(a, h8, s8)
  BY <1>1, <1>2, <1>3, <1>4, <1>12
<1>14. Balanced(a, h9, s9)
  BY <1>1, <1>2, <1>3, <1>4, <1>13
<1>15. CalcChecksum(block) = s9
  BY <1>2, <1>3, ChecksumIs, Zenon
<1>16. QED
  BY <1>2, <1>4, <1>14, <1>15, Zenon

(***************************************************************************)
(* RS129: the syndrome of nine octets with their checksum behind them is 0,*)
(* so that what is sent is never taken for damaged.                        *)
(***************************************************************************)
THEOREM ChecksumPasses ==
  ASSUME NEW block, \A i \in 0..8 : block[i] \in Octets,
         \A i \in 1..3 : block[8 + i] = CalcChecksum(block)[i]
  PROVE  ~CheckSyndrome(CalcSyndrome(block))
<1>1. ASSUME NEW j \in 0..2 PROVE CalcSyndrome(block)[j] = 0
  <2>1. PICK a : a = GaloisExp(j + 1)
    OBVIOUS
  <2>2. Root(a)
    <3>1. j + 1 = 1 \/ j + 1 = 2 \/ j + 1 = 3
      OBVIOUS
    <3>2. QED
      BY <2>1, <3>1, Roots
  <2>3. PICK c : c = CalcChecksum(block)
    OBVIOUS
  <2>4. block[9] = c[1] /\ block[10] = c[2] /\ block[11] = c[3]
    <3>1. 1 \in 1..3 /\ 2 \in 1..3 /\ 3 \in 1..3 /\ 8 + 1 = 9 /\ 8 + 2 = 10 /\ 8 + 3 = 11
      OBVIOUS
    <3>2. QED
      BY <2>3, <3>1
  <2>5. PICK h : h = Evaluate(a, block[8], Evaluate(a, block[7], Evaluate(a, block[6], Evaluate(a, block[5],
                       Evaluate(a, block[4], Evaluate(a, block[3], Evaluate(a, block[2], Evaluate(a, block[1],
                         Evaluate(a, block[0], 0)))))))))
    OBVIOUS
  <2>6. Balanced(a, h, c)
    BY <2>2, <2>3, <2>5, DataBalanced
  <2>7. Evaluate(a, c[3], Evaluate(a, c[2], Evaluate(a, c[1], h))) = 0
    BY <2>2, <2>6, RegisterBehind DEF Evaluate
  <2>8. CalcSyndrome(block)[j] = Evaluate(a, block[11], Evaluate(a, block[10], Evaluate(a, block[9], h)))
    BY <2>1, <2>5, SyndromeAt, ZenonT(60)
  <2>9. QED
    BY <2>4, <2>7, <2>8, Zenon
<1>2. ASSUME NEW j \in 0..5, ~(j \in 0..2) PROVE CalcSyndrome(block)[j] = 0
  BY <1>2 DEF CalcSyndrome, ChecksumSize, PolyMaxDeg
<1>3. DOMAIN CalcSyndrome(block) = 0..5
  BY DEF CalcSyndrome, ChecksumSize, PolyMaxDeg
<1>4. QED
  BY <1>1, <1>2, <1>3 DEF CheckSyndrome

-----------------------------------------------------------------------------
(* The number of a field, from its bits. *)
LEMMA ValueIs ==
  ASSUME NEW bits
  PROVE  LET Weigh(b) == IF b \in bits THEN 2^b ELSE 0
         IN  Value(bits) = 0 + Weigh(0) + Weigh(1) + Weigh(2) + Weigh(3)
                             + Weigh(4) + Weigh(5) + Weigh(6) + Weigh(7)
<1> DEFINE Weigh(b) == IF b \in bits THEN 2^b ELSE 0
           IsSum(r) == r = [n \in 0..8 |-> IF n = 0 THEN 0
                                           ELSE r[n - 1] + (IF n - 1 \in bits THEN 2^(n - 1) ELSE 0)]
<1>1. Value(bits) = (CHOOSE r : IsSum(r))[8]
  BY DEF Value
<1>2. PICK s1, s2, s3, s4, s5, s6, s7, s8 :
        /\ s1 = 0 + Weigh(0)  /\ s2 = s1 + Weigh(1) /\ s3 = s2 + Weigh(2) /\ s4 = s3 + Weigh(3)
        /\ s5 = s4 + Weigh(4) /\ s6 = s5 + Weigh(5) /\ s7 = s6 + Weigh(6) /\ s8 = s7 + Weigh(7)
  OBVIOUS
<1> HIDE DEF Weigh
<1>3. \A r : IsSum(r) <=> r = [n \in 0..8 |-> IF n = 0 THEN 0 ELSE r[n - 1] + Weigh(n - 1)]
  BY Zenon DEF Weigh
<1> DEFINE whole == [n \in 0..8 |->
                       CASE n = 0 -> 0  [] n = 1 -> s1 [] n = 2 -> s2 [] n = 3 -> s3 [] n = 4 -> s4
                         [] n = 5 -> s5 [] n = 6 -> s6 [] n = 7 -> s7 [] n = 8 -> s8]
<1>4. whole = [n \in 0..8 |-> IF n = 0 THEN 0 ELSE whole[n - 1] + Weigh(n - 1)]
  BY <1>2
<1>5. IsSum(whole)
  BY <1>3, <1>4, Zenon
<1> HIDE DEF whole, IsSum
<1>6. PICK r : r = (CHOOSE s : IsSum(s)) /\ IsSum(r)
  BY <1>5
<1>7. r = [n \in 0..8 |-> IF n = 0 THEN 0 ELSE r[n - 1] + Weigh(n - 1)]
  BY <1>3, <1>6
<1>8. /\ r[0] = 0                /\ r[1] = r[0] + Weigh(0) /\ r[2] = r[1] + Weigh(1)
      /\ r[3] = r[2] + Weigh(2)  /\ r[4] = r[3] + Weigh(3) /\ r[5] = r[4] + Weigh(4)
      /\ r[6] = r[5] + Weigh(5)  /\ r[7] = r[6] + Weigh(6) /\ r[8] = r[7] + Weigh(7)
  BY <1>7
<1>9. r[8] = 0 + Weigh(0) + Weigh(1) + Weigh(2) + Weigh(3) + Weigh(4) + Weigh(5) + Weigh(6) + Weigh(7)
  BY <1>8
<1>10. Value(bits) = r[8]
  BY <1>1, <1>6, Zenon
<1>11. QED
  BY <1>9, <1>10 DEF Weigh

(* The value of eight bits, and the eight bits of a value. *)
LEMMA ValueWeighs ==
  ASSUME NEW bits
  PROVE  Value(bits) = (IF 0 \in bits THEN 1 ELSE 0)  + (IF 1 \in bits THEN 2 ELSE 0)
                     + (IF 2 \in bits THEN 4 ELSE 0)  + (IF 3 \in bits THEN 8 ELSE 0)
                     + (IF 4 \in bits THEN 16 ELSE 0) + (IF 5 \in bits THEN 32 ELSE 0)
                     + (IF 6 \in bits THEN 64 ELSE 0) + (IF 7 \in bits THEN 128 ELSE 0)
<1>1. /\ 2^0 = 1 /\ 2^1 = 2 /\ 2^2 = 4 /\ 2^3 = 8 /\ 2^4 = 16 /\ 2^5 = 32 /\ 2^6 = 64 /\ 2^7 = 128
  OBVIOUS
<1>2. Value(bits) = 0 + (IF 0 \in bits THEN 2^0 ELSE 0) + (IF 1 \in bits THEN 2^1 ELSE 0)
                      + (IF 2 \in bits THEN 2^2 ELSE 0) + (IF 3 \in bits THEN 2^3 ELSE 0)
                      + (IF 4 \in bits THEN 2^4 ELSE 0) + (IF 5 \in bits THEN 2^5 ELSE 0)
                      + (IF 6 \in bits THEN 2^6 ELSE 0) + (IF 7 \in bits THEN 2^7 ELSE 0)
  BY ValueIs
<1>3. QED
  BY <1>1, <1>2

(* x has the bits of the set. *)
HasBits(x, bits) ==
  /\ OddAt(x, 1) <=> 0 \in bits
  /\ OddAt(x, 2) <=> 1 \in bits
  /\ OddAt(x, 4) <=> 2 \in bits
  /\ OddAt(x, 8) <=> 3 \in bits
  /\ OddAt(x, 16) <=> 4 \in bits
  /\ OddAt(x, 32) <=> 5 \in bits
  /\ OddAt(x, 64) <=> 6 \in bits
  /\ OddAt(x, 128) <=> 7 \in bits

LEMMA ValueOctet ==
  ASSUME NEW bits
  PROVE  Value(bits) \in Octets /\ HasBits(Value(bits), bits)
<1>1. PICK a \in 0..1, b \in 0..1, c \in 0..1, d \in 0..1, e \in 0..1, f \in 0..1, g \in 0..1, h \in 0..1 :
        /\ a = IF 0 \in bits THEN 1 ELSE 0
        /\ b = IF 1 \in bits THEN 1 ELSE 0
        /\ c = IF 2 \in bits THEN 1 ELSE 0
        /\ d = IF 3 \in bits THEN 1 ELSE 0
        /\ e = IF 4 \in bits THEN 1 ELSE 0
        /\ f = IF 5 \in bits THEN 1 ELSE 0
        /\ g = IF 6 \in bits THEN 1 ELSE 0
        /\ h = IF 7 \in bits THEN 1 ELSE 0
  OBVIOUS
<1>2. PICK x \in Int : x = Value(bits) /\ x = a + 2 * b + 4 * c + 8 * d + 16 * e + 32 * f + 64 * g + 128 * h
  BY <1>1, ValueWeighs
<1>3. x \in 0..255 /\ OctetBits(x, a, b, c, d, e, f, g, h)
  <2>1. x = a + 2 * b + 4 * c + 8 * d + 16 * e + 32 * f + 64 * g + 128 * h
    BY <1>2
  <2>2. /\ a \in 0..1 /\ b \in 0..1 /\ c \in 0..1 /\ d \in 0..1
        /\ e \in 0..1 /\ f \in 0..1 /\ g \in 0..1 /\ h \in 0..1
    BY <1>1
  <2>3. QED
    BY <2>1, <2>2, SMTT(30) DEF OctetBits
<1>4. /\ OddAt(x, 1) <=> a = 1
      /\ OddAt(x, 2) <=> b = 1
      /\ OddAt(x, 4) <=> c = 1
      /\ OddAt(x, 8) <=> d = 1
      /\ OddAt(x, 16) <=> e = 1
      /\ OddAt(x, 32) <=> f = 1
      /\ OddAt(x, 64) <=> g = 1
      /\ OddAt(x, 128) <=> h = 1
  BY <1>3 DEF OddAt, OctetBits
<1>5. HasBits(x, bits)
  BY <1>1, <1>4 DEF HasBits
<1>6. QED
  BY <1>2, <1>3, <1>5, Zenon DEF Octets

LEMMA OctetRead ==
  ASSUME NEW x \in Octets
  PROVE  Value({b \in 0..7 : (x \div 2^b) % 2 = 1}) = x
<1>1. PICK bits : bits = {b \in 0..7 : (x \div 2^b) % 2 = 1}
  OBVIOUS
<1>2. ASSUME NEW b \in 0..7, NEW w, w = 2^b PROVE OddAt(x, w) <=> b \in bits
  BY <1>1, <1>2 DEF OddAt
<1>3. HasBits(x, bits)
  <2>1. /\ 2^0 = 1 /\ 2^1 = 2 /\ 2^2 = 4 /\ 2^3 = 8 /\ 2^4 = 16 /\ 2^5 = 32 /\ 2^6 = 64 /\ 2^7 = 128
        /\ 0 \in 0..7 /\ 1 \in 0..7 /\ 2 \in 0..7 /\ 3 \in 0..7
        /\ 4 \in 0..7 /\ 5 \in 0..7 /\ 6 \in 0..7 /\ 7 \in 0..7
    OBVIOUS
  <2>2. OddAt(x, 1) <=> 0 \in bits
    BY <1>2, <2>1, Zenon
  <2>3. OddAt(x, 2) <=> 1 \in bits
    BY <1>2, <2>1, Zenon
  <2>4. OddAt(x, 4) <=> 2 \in bits
    BY <1>2, <2>1, Zenon
  <2>5. OddAt(x, 8) <=> 3 \in bits
    BY <1>2, <2>1, Zenon
  <2>6. OddAt(x, 16) <=> 4 \in bits
    BY <1>2, <2>1
  <2>7. OddAt(x, 32) <=> 5 \in bits
    BY <1>2, <2>1, Zenon
  <2>8. OddAt(x, 64) <=> 6 \in bits
    BY <1>2, <2>1, Zenon
  <2>9. OddAt(x, 128) <=> 7 \in bits
    BY <1>2, <2>1, Zenon
  <2>10. QED
    BY <2>2, <2>3, <2>4, <2>5, <2>6, <2>7, <2>8, <2>9 DEF HasBits
<1>4. PICK v \in Octets : v = Value(bits) /\ HasBits(v, bits)
  BY ValueOctet
<1>5. Alike(v, x)
  BY <1>3, <1>4 DEF HasBits, Alike
<1>6. QED
  BY <1>1, <1>4, <1>5, SameBits

(* The bits of octet i of a block. *)
OctetAt(block, i) == {7 - k : k \in {j \in 0..7 : 8 * i + j \in block}}

LEMMA OctetAtBits ==
  ASSUME NEW block, NEW i \in Nat
  PROVE  /\ OctetAt(block, i) \subseteq 0..7
         /\ \A b \in 0..7 : b \in OctetAt(block, i) <=> 8 * i + 7 - b \in block
<1>1. ASSUME NEW b \in OctetAt(block, i) PROVE b \in 0..7 /\ 8 * i + 7 - b \in block
  <2>1. PICK k \in 0..7 : b = 7 - k /\ 8 * i + k \in block
    BY <1>1 DEF OctetAt
  <2>2. b \in 0..7 /\ 8 * i + 7 - b = 8 * i + k
    BY <2>1
  <2>3. QED
    BY <2>1, <2>2
<1>2. ASSUME NEW b \in 0..7, 8 * i + 7 - b \in block PROVE b \in OctetAt(block, i)
  <2>1. PICK k \in 0..7 : k = 7 - b
    OBVIOUS
  <2>2. 8 * i + k = 8 * i + 7 - b /\ b = 7 - k
    BY <2>1
  <2>3. QED
    BY <1>2, <2>1, <2>2 DEF OctetAt
<1>3. QED
  BY <1>1, <1>2

LEMMA VoiceOctetsAre ==
  ASSUME NEW block, NEW dataType
  PROVE  /\ \A i \in 0..8 : VoiceOctets(block, dataType)[i] = Value(OctetAt(block, i))
         /\ \A i \in 9..11 : VoiceOctets(block, dataType)[i]
                                = Value(Sum2(OctetAt(block, i), VoiceMask(dataType)))
BY DEF VoiceOctets, OctetAt, BlockSize, DataSize, ChecksumSize

(* The checksum is of octets. *)
LEMMA ChecksumOctets ==
  ASSUME NEW block, \A i \in 0..8 : block[i] \in Octets, NEW i \in 1..3
  PROVE  CalcChecksum(block)[i] \in Octets
<1>1. PICK c : c = CalcChecksum(block)
  OBVIOUS
<1>2. Root(GaloisExp(1))
  BY Roots
<1>3. Register3(c)
  BY <1>1, <1>2, DataBalanced DEF Balanced
<1>4. i = 1 \/ i = 2 \/ i = 3
  OBVIOUS
<1>5. QED
  BY <1>1, <1>3, <1>4, Zenon DEF Register3

(* The parity's places, octet by octet. *)
LEMMA ParityPlaces ==
  ASSUME NEW written, NEW dataType, NEW i \in 1..3, NEW b \in 0..7, NEW bits,
         bits = {n \in 0..7 : (CalcChecksum(VoiceOctets(written, dataType))[i] \div 2^n) % 2 = 1}
  PROVE  8 * (8 + i) + 7 - b \in VoiceParity(written, dataType) <=> b \in Sum2(bits, VoiceMask(dataType))
<1> DEFINE checksum == CalcChecksum(VoiceOctets(written, dataType))
           Sums(n)  == Sum2({k \in 0..7 : (checksum[n] \div 2^k) % 2 = 1}, VoiceMask(dataType))
<1>1. VoiceParity(written, dataType) = UNION {{8 * (9 + n) - 1 - k : k \in Sums(n)} : n \in 1..3}
  BY Zenon DEF VoiceParity, DataSize
<1>2. \A n : Sums(n) \subseteq 0..7
  BY DEF Sum2, VoiceMask, VoiceHeaderMask, VoiceTerminatorMask
<1>3. Sums(i) = Sum2(bits, VoiceMask(dataType))
  BY Zenon
<1> HIDE DEF Sums
<1>4. PICK x : x = 8 * (8 + i) + 7 - b /\ x = 8 * (9 + i) - 1 - b
  OBVIOUS
<1>5. ASSUME x \in VoiceParity(written, dataType) PROVE b \in Sums(i)
  <2>1. PICK n \in 1..3 : x \in {8 * (9 + n) - 1 - k : k \in Sums(n)}
    BY <1>1, <1>5
  <2>2. PICK k \in 0..7 : k \in Sums(n) /\ x = 8 * (9 + n) - 1 - k
    BY <1>2, <2>1
  <2>3. n = i /\ k = b
    BY <1>4, <2>2
  <2>4. QED
    BY <2>2, <2>3, Zenon
<1>6. ASSUME b \in Sums(i) PROVE x \in VoiceParity(written, dataType)
  BY <1>1, <1>4, <1>6
<1>7. QED
  BY <1>3, <1>4, <1>5, <1>6, Zenon

(***************************************************************************)
(* The parity getBuffer puts behind 9 octets is found right.               *)
(***************************************************************************)
LEMMA ParityHolds ==
  ASSUME NEW written, \A x \in written : x \in Nat /\ x < 72, NEW dataType
  PROVE  VoiceOk(written \cup VoiceParity(written, dataType), dataType)
<1>1. PICK block : block = written \cup VoiceParity(written, dataType)
  OBVIOUS
<1>2. PICK sent, octets : sent = VoiceOctets(written, dataType) /\ octets = VoiceOctets(block, dataType)
  OBVIOUS
<1>3. \A x \in VoiceParity(written, dataType) : x \in 72..95
  BY ParityLast
<1>4. ASSUME NEW i \in 0..8 PROVE octets[i] = sent[i] /\ octets[i] \in Octets
  <2>1. OctetAt(block, i) = OctetAt(written, i)
    <3>1. ASSUME NEW b \in 0..7 PROVE 8 * i + 7 - b \in block <=> 8 * i + 7 - b \in written
      <4>1. 8 * i + 7 - b \notin 72..95
        OBVIOUS
      <4>2. QED
        BY <1>1, <1>3, <4>1
    <3>2. i \in Nat
      OBVIOUS
    <3>3. \A b \in 0..7 : b \in OctetAt(block, i) <=> b \in OctetAt(written, i)
      BY <3>1, <3>2, OctetAtBits
    <3>4. OctetAt(block, i) \subseteq 0..7 /\ OctetAt(written, i) \subseteq 0..7
      BY <3>2, OctetAtBits
    <3>5. QED
      BY <3>3, <3>4
  <2>2. octets[i] = Value(OctetAt(block, i)) /\ sent[i] = Value(OctetAt(written, i))
    BY <1>2, VoiceOctetsAre
  <2>3. QED
    BY <2>1, <2>2, ValueOctet
<1>5. CalcChecksum(octets) = CalcChecksum(sent)
  <2>1. /\ octets[0] = sent[0] /\ octets[1] = sent[1] /\ octets[2] = sent[2] /\ octets[3] = sent[3]
        /\ octets[4] = sent[4] /\ octets[5] = sent[5] /\ octets[6] = sent[6] /\ octets[7] = sent[7]
        /\ octets[8] = sent[8]
    BY <1>4
  <2>2. QED
    BY <2>1, ChecksumIs, Zenon
<1>6. ASSUME NEW i \in 1..3 PROVE octets[8 + i] = CalcChecksum(octets)[i]
  <2>1. PICK bits, mask : /\ bits = {n \in 0..7 : (CalcChecksum(sent)[i] \div 2^n) % 2 = 1}
                          /\ mask = VoiceMask(dataType)
    OBVIOUS
  <2>2. PICK n \in 9..11 : n = 8 + i /\ n \in Nat
    OBVIOUS
  <2>3. octets[n] = Value(Sum2(OctetAt(block, n), mask))
    BY <1>2, <2>1, <2>2, VoiceOctetsAre
  <2>4. ASSUME NEW b \in 0..7 PROVE b \in OctetAt(block, n) <=> b \in Sum2(bits, mask)
    <3>1. PICK x : x = 8 * n + 7 - b /\ x = 8 * (8 + i) + 7 - b /\ x >= 72
      BY <2>2
    <3>2. x \in block <=> x \in VoiceParity(written, dataType)
      BY <1>1, <3>1
    <3>3. x \in VoiceParity(written, dataType) <=> b \in Sum2(bits, mask)
      BY <1>2, <2>1, <3>1, ParityPlaces
    <3>4. b \in OctetAt(block, n) <=> x \in block
      BY <2>2, <3>1, OctetAtBits
    <3>5. QED
      BY <3>2, <3>3, <3>4, Zenon
  <2>5. OctetAt(block, n) \subseteq 0..7 /\ bits \subseteq 0..7 /\ mask \subseteq 0..7
    BY <2>1, <2>2, OctetAtBits DEF VoiceMask, VoiceHeaderMask, VoiceTerminatorMask
  <2>6. PICK octet : octet = OctetAt(block, n)
    OBVIOUS
  <2>7. Sum2(octet, mask) = bits
    BY <2>4, <2>5, <2>6 DEF Sum2
  <2>8. CalcChecksum(sent)[i] \in Octets
    <3>1. \A k \in 0..8 : sent[k] \in Octets
      BY <1>4
    <3>2. QED
      BY <3>1, ChecksumOctets
  <2>9. Value(bits) = CalcChecksum(sent)[i]
    BY <2>1, <2>8, OctetRead
  <2>10. QED
    BY <1>5, <2>2, <2>3, <2>6, <2>7, <2>9, Zenon
<1>7. ~CheckSyndrome(CalcSyndrome(octets))
  BY <1>4, <1>6, ChecksumPasses
<1>8. QED
  BY <1>1, <1>2, <1>7, Zenon DEF VoiceOk

-----------------------------------------------------------------------------
(* What getBuffer puts into a block: the fields, and behind them what      *)
(* checks them.                                                            *)
Block(packet, limit, beyond) ==
  /\ Sound(LayoutOf(packet.class), limit)
  /\ From(limit, beyond)
  /\ PacketBuffer(packet) = WriteFields(LayoutOf(packet.class), packet.fields) \cup beyond

LEMMA PacketBlock ==
  ASSUME NEW packet, WellFormed(packet), packet.class # "Raw"
  PROVE  \E limit \in Nat : \E beyond : Block(packet, limit, beyond)
<1>1. PICK written : written = WriteFields(LayoutOf(packet.class), packet.fields)
  OBVIOUS
<1>2. CASE packet.dataType \in {1, 2}
  <2>1. LayoutOf(packet.class) = LinkControl
    BY <1>2 DEF WellFormed, TellsClass, LayoutOf
  <2>2. PacketBuffer(packet) = written \cup VoiceParity(written, packet.dataType)
    BY <1>1, <1>2 DEF PacketBuffer
  <2>3. From(72, VoiceParity(written, packet.dataType))
    BY ParityLast DEF From
  <2>4. Block(packet, 72, VoiceParity(written, packet.dataType))
    BY <1>1, <2>1, <2>2, <2>3, SoundVoice DEF Block
  <2>5. QED
    BY <2>4
<1>3. CASE packet.dataType \in {0, 3, 6}
  <2>1. Sound(LayoutOf(packet.class), 80)
    BY <1>3, SoundVoice, SoundCSBK, SoundHeaders DEF WellFormed, TellsClass, LayoutOf
  <2>2. PacketBuffer(packet) = written \cup Crc(written, packet.dataType)
    BY <1>1, <1>3 DEF PacketBuffer
  <2>3. From(80, Crc(written, packet.dataType))
    BY <1>3, CrcLast DEF From
  <2>4. Block(packet, 80, Crc(written, packet.dataType))
    BY <1>1, <2>1, <2>2, <2>3 DEF Block
  <2>5. QED
    BY <2>4
<1>4. QED
  BY <1>2, <1>3 DEF WellFormed, TellsClass

(* Every field that is written is read back, by a layout with its rows. *)
LEMMA PacketFieldReads ==
  ASSUME NEW packet, WellFormed(packet), packet.class # "Raw",
         NEW f \in DOMAIN packet.fields, f # "payload",
         NEW part, RowsOf(part, f) = RowsOf(LayoutOf(packet.class), f)
  PROVE  ReadField(part, PacketBuffer(packet), f) = packet.fields[f]
<1>1. PICK limit \in Nat : \E beyond : Block(packet, limit, beyond)
  BY PacketBlock
<1> PICK beyond : Block(packet, limit, beyond)
  BY <1>1
<1>2. packet.fields[f] \subseteq Widths(LayoutOf(packet.class), f)
  BY DEF WellFormed, FieldsFit
<1>3. PICK layout, fields : layout = LayoutOf(packet.class) /\ fields = packet.fields
  OBVIOUS
<1>4. /\ Sound(layout, limit)
      /\ Elsewhere(layout, beyond)
      /\ PacketBuffer(packet) = WriteFields(layout, fields) \cup beyond
  BY <1>1, <1>3, Beyond DEF Block
<1>5. Readable(part, layout, fields, f)
  BY <1>2, <1>3 DEF Readable
<1>6. ReadField(part, WriteFields(layout, fields) \cup beyond, f) = fields[f]
  BY <1>1, <1>4, <1>5, FieldReads
<1>7. QED
  BY <1>3, <1>4, <1>6

-----------------------------------------------------------------------------
(* The fields that tell the class are where its layout has them. *)
LEMMA SameRows ==
  ASSUME NEW part, NEW layout, part \subseteq layout, NEW f,
         \A r \in layout : r[1] = f => r \in part
  PROVE  RowsOf(part, f) = RowsOf(layout, f)
BY DEF RowsOf

LEMMA CSBKRead ==
  ASSUME NEW packet, WellFormed(packet), packet.dataType = 3
  PROVE  CSBKClass(PacketBuffer(packet)) = packet.class
<1>1. PICK layout : layout = LayoutOf(packet.class)
  OBVIOUS
<1>2. packet.class \in {"PreCSBK", "CallAlertACK", "CallEmergency", "CSBKRaw"}
  BY DEF WellFormed, TellsClass
<1>3. CSBK \subseteq layout /\ \A r \in layout : r[1] = "opcode" => r \in CSBK
  <2>1. CASE packet.class = "PreCSBK"
    BY <1>1, <2>1 DEF LayoutOf, PreCSBK, Ids
  <2>2. CASE packet.class = "CallAlertACK"
    BY <1>1, <2>2 DEF LayoutOf, CallAlertACK, Ids
  <2>3. CASE packet.class = "CallEmergency"
    BY <1>1, <2>3 DEF LayoutOf, CallEmergency, Ids
  <2>4. CASE packet.class = "CSBKRaw"
    BY <1>1, <2>4 DEF LayoutOf, CSBKRaw
  <2>5. QED
    BY <1>2, <2>1, <2>2, <2>3, <2>4
<1>4. "opcode" \in DOMAIN packet.fields
  <2>1. << "opcode", 0, 6, 2, 2 >> \in layout
    BY <1>3 DEF CSBK
  <2>2. QED
    BY <1>1, <1>2, <2>1 DEF WellFormed, FieldsFit
<1>5. RowsOf(CSBK, "opcode") = RowsOf(layout, "opcode")
  BY <1>3, SameRows
<1>6. ReadField(CSBK, PacketBuffer(packet), "opcode") = packet.fields["opcode"]
  BY <1>1, <1>2, <1>4, <1>5, PacketFieldReads
<1>7. PICK opcode : opcode = Value(packet.fields["opcode"])
  OBVIOUS
<1>8. QED
  BY <1>6, <1>7 DEF CSBKClass, WellFormed, TellsClass

LEMMA DataHeaderRead ==
  ASSUME NEW packet, WellFormed(packet), packet.dataType = 6
  PROVE  DataHeaderClass(PacketBuffer(packet)) = packet.class
<1>1. PICK layout, block : layout = LayoutOf(packet.class) /\ block = PacketBuffer(packet)
  OBVIOUS
<1>2. packet.class \in {"Unified", "Response", "Unconfirmed", "Confirmed", "ProprietaryCompressed"}
  BY DEF WellFormed, TellsClass
<1>3. DOMAIN packet.fields = {row[1] : row \in layout}
  BY <1>1, <1>2 DEF WellFormed, FieldsFit
<1>4. DataHeader \subseteq layout /\ \A r \in layout : r[1] = "DPF" => r \in DataHeader
  <2>1. CASE packet.class = "Unified"
    BY <1>1, <2>1 DEF LayoutOf, Unified, Ids
  <2>2. CASE packet.class = "Response"
    BY <1>1, <2>2 DEF LayoutOf, Response, Ids
  <2>3. CASE packet.class = "Unconfirmed"
    BY <1>1, <2>3 DEF LayoutOf, Unconfirmed, Ids
  <2>4. CASE packet.class = "Confirmed"
    BY <1>1, <2>4 DEF LayoutOf, Confirmed, Unconfirmed, Ids
  <2>5. CASE packet.class = "ProprietaryCompressed"
    BY <1>1, <2>5 DEF LayoutOf, ProprietaryCompressed, Proprietary
  <2>6. QED
    BY <1>2, <2>1, <2>2, <2>3, <2>4, <2>5
<1>5. ReadField(DataHeader, block, "DPF") = packet.fields["DPF"]
  <2>1. << "DPF", 0, 4, 4, 4 >> \in layout
    BY <1>4 DEF DataHeader
  <2>2. "DPF" \in DOMAIN packet.fields
    BY <1>3, <2>1
  <2>3. RowsOf(DataHeader, "DPF") = RowsOf(layout, "DPF")
    BY <1>4, SameRows
  <2>4. QED
    BY <1>1, <1>2, <2>2, <2>3, PacketFieldReads
<1>6. ASSUME packet.class = "ProprietaryCompressed"
      PROVE  ProprietaryClass(block) = "ProprietaryCompressed"
  <2>1. /\ Proprietary \subseteq layout
        /\ \A r \in layout : r[1] \in {"mfId", "opcode"} => r \in Proprietary
    BY <1>1, <1>6 DEF LayoutOf, ProprietaryCompressed
  <2>2. << "mfId", 0, 8, 8, 8 >> \in Proprietary /\ << "opcode", 0, 4, 20, 20 >> \in Proprietary
    BY DEF Proprietary
  <2>3. {"mfId", "opcode"} \subseteq DOMAIN packet.fields
    BY <1>3, <2>1, <2>2
  <2>4. /\ RowsOf(Proprietary, "mfId") = RowsOf(layout, "mfId")
        /\ RowsOf(Proprietary, "opcode") = RowsOf(layout, "opcode")
    BY <2>1, SameRows
  <2>5. /\ ReadField(Proprietary, block, "mfId") = packet.fields["mfId"]
        /\ ReadField(Proprietary, block, "opcode") = packet.fields["opcode"]
    BY <1>1, <1>2, <2>3, <2>4, PacketFieldReads
  <2>6. {"mfId", "opcode"} \subseteq {row[1] : row \in Proprietary}
    BY <2>2
  <2>7. /\ ReadFields(Proprietary, block).mfId = packet.fields["mfId"]
        /\ ReadFields(Proprietary, block).opcode = packet.fields["opcode"]
    BY <2>5, <2>6 DEF ReadFields
  <2>8. Value(packet.fields["mfId"]) = 16 /\ Value(packet.fields["opcode"]) = 2
    BY <1>6 DEF WellFormed, TellsClass
  <2>9. QED
    BY <2>7, <2>8 DEF ProprietaryClass
<1>7. PICK DPF : DPF = Value(packet.fields["DPF"])
  OBVIOUS
<1>8. \/ packet.class = "Unified" /\ DPF = 0
      \/ packet.class = "Response" /\ DPF = 1
      \/ packet.class = "Unconfirmed" /\ DPF = 2
      \/ packet.class = "Confirmed" /\ DPF = 3
      \/ packet.class = "ProprietaryCompressed" /\ DPF = 15
  BY <1>7 DEF WellFormed, TellsClass
<1>9. DataHeaderClass(block) = packet.class
  BY <1>5, <1>6, <1>7, <1>8 DEF DataHeaderClass
<1>10. QED
  BY <1>1, <1>9, Zenon

LEMMA ClassRead ==
  ASSUME NEW packet, WellFormed(packet)
  PROVE  ClassOf(PacketBuffer(packet), packet.dataType) = packet.class
<1>1. CASE packet.dataType = 3
  <2>1. PICK block : block = PacketBuffer(packet)
    OBVIOUS
  <2>2. CSBKClass(block) = packet.class
    BY <1>1, <2>1, CSBKRead, Zenon
  <2>3. ClassOf(block, 3) = CSBKClass(block)
    BY DEF ClassOf
  <2>4. QED
    BY <1>1, <2>1, <2>2, <2>3
<1>2. CASE packet.dataType = 6
  <2>1. PICK block : block = PacketBuffer(packet)
    OBVIOUS
  <2>2. DataHeaderClass(block) = packet.class
    BY <1>2, <2>1, DataHeaderRead, Zenon
  <2>3. ClassOf(block, 6) = DataHeaderClass(block)
    BY DEF ClassOf
  <2>4. QED
    BY <1>2, <2>1, <2>2, <2>3
<1>3. CASE packet.dataType \notin {3, 6}
  BY <1>3 DEF ClassOf, WellFormed, TellsClass
<1>4. QED
  BY <1>1, <1>2, <1>3

(* The checksum or parity getBuffer writes is the one `from' expects. *)
LEMMA ReadIntact ==
  ASSUME NEW packet, WellFormed(packet)
  PROVE  Intact(PacketBuffer(packet), packet.dataType)
<1>1. PICK written : written = WriteFields(LayoutOf(packet.class), packet.fields)
  OBVIOUS
<1>2. CASE packet.dataType \in {0, 3, 6}
  <2>1. packet.class # "Raw" /\ Sound(LayoutOf(packet.class), 80)
    BY <1>2, SoundVoice, SoundCSBK, SoundHeaders DEF WellFormed, TellsClass, LayoutOf
  <2>2. written \in SUBSET (0..79)
    BY <1>1, <2>1, WrittenBelow
  <2>3. PacketBuffer(packet) = written \cup Crc(written, packet.dataType)
    BY <1>1, <1>2, <2>1 DEF PacketBuffer
  <2>4. CrcOk(PacketBuffer(packet), packet.dataType)
    BY <1>2, <2>2, <2>3, CrcHolds
  <2>5. QED
    BY <1>2, <2>4 DEF Intact
<1>3. CASE packet.dataType \in {1, 2}
  <2>1. packet.class # "Raw" /\ LayoutOf(packet.class) = LinkControl
    BY <1>3 DEF WellFormed, TellsClass, LayoutOf
  <2>2. written \in SUBSET (0..71)
    BY <1>1, <2>1, SoundVoice, WrittenBelow
  <2>3. \A x \in written : x \in Nat /\ x < 72
    BY <2>2
  <2>4. PacketBuffer(packet) = written \cup VoiceParity(written, packet.dataType)
    BY <1>1, <1>3, <2>1 DEF PacketBuffer
  <2>5. VoiceOk(PacketBuffer(packet), packet.dataType)
    BY <2>3, <2>4, ParityHolds
  <2>6. QED
    BY <1>3, <2>5 DEF Intact
<1>4. CASE packet.dataType \notin {0, 1, 2, 3, 6}
  BY <1>4 DEF Intact
<1>5. QED
  BY <1>2, <1>3, <1>4

(***************************************************************************)
(* A PDU of any class, with any values in the widths of its fields, is     *)
(* read from the octets getBuffer makes of it as a PDU of its class with   *)
(* the same fields; none is refused for its checksum or its parity.        *)
(***************************************************************************)
THEOREM PacketReadBack ==
  ASSUME NEW packet, WellFormed(packet)
  PROVE  \E q : /\ PacketFrom(PacketBuffer(packet), packet.dataType) = <<q>>
                /\ SamePacket(packet, q)
<1>1. Intact(PacketBuffer(packet), packet.dataType)
  BY ReadIntact
<1>2. PICK block : block = PacketBuffer(packet)
  OBVIOUS
<1>3. PICK layout : layout = LayoutOf(packet.class)
  OBVIOUS
<1>4. PICK fields : fields = CASE packet.class = "Raw"     -> RawFields(block)
                               [] packet.class = "Unified" -> ReadUnified(block)
                               [] OTHER                    -> ReadFields(layout, block)
  OBVIOUS
<1>5. PICK q : q = [dataType |-> packet.dataType, class |-> packet.class, fields |-> fields]
  OBVIOUS
<1>6. packet.class # "none"
  BY DEF WellFormed, TellsClass
<1>7. PacketFrom(block, packet.dataType) = <<q>>
  <2>1. ClassOf(block, packet.dataType) = packet.class
    BY <1>2, ClassRead
  <2>2. QED
    BY <1>1, <1>2, <1>3, <1>4, <1>5, <1>6, <2>1, Zenon DEF PacketFrom
<1>8. \A f \in DOMAIN packet.fields \ NotCarried : packet.fields[f] = fields[f]
  <2> SUFFICES ASSUME NEW f \in DOMAIN packet.fields, f \notin NotCarried
               PROVE  packet.fields[f] = fields[f]
    OBVIOUS
  <2>1. CASE packet.class = "Raw"
    <3>1. f = "data"
      BY <2>1 DEF WellFormed
    <3>2. block = packet.fields.data
      <4>1. packet.dataType \notin {1, 2}
        BY <2>1 DEF WellFormed, TellsClass
      <4>2. QED
        BY <1>2, <2>1, <4>1, Zenon DEF PacketBuffer
    <3>3. fields = RawFields(block)
      BY <1>4, <2>1, Zenon
    <3>4. QED
      BY <3>1, <3>2, <3>3 DEF RawFields
  <2>2. CASE packet.class # "Raw"
    <3>1. f # "payload" /\ f # "appendedBlocks"
      BY DEF NotCarried
    <3>2. RowsOf(layout, f) = RowsOf(LayoutOf(packet.class), f)
      BY <1>3
    <3>3. ReadField(layout, block, f) = packet.fields[f]
      BY <1>2, <2>2, <3>1, <3>2, PacketFieldReads
    <3>4. f \in {row[1] : row \in layout}
      BY <1>3, <2>2 DEF WellFormed, FieldsFit
    <3>5. ReadFields(layout, block)[f] = packet.fields[f]
      BY <3>3, <3>4 DEF ReadFields
    <3>6. CASE packet.class = "Unified"
      <4>1. layout = Unified /\ fields = ReadUnified(block)
        BY <1>3, <1>4, <3>6 DEF LayoutOf
      <4>2. f \in DOMAIN ReadFields(Unified, block)
        BY <3>4, <4>1 DEF ReadFields
      <4>3. fields[f] = ReadFields(Unified, block)[f]
        BY <3>1, <4>1, <4>2 DEF ReadUnified
      <4>4. QED
        BY <3>5, <4>1, <4>3
    <3>7. CASE packet.class # "Unified"
      BY <1>4, <2>2, <3>5, <3>7, Zenon
    <3>8. QED
      BY <3>6, <3>7
  <2>3. QED
    BY <2>1, <2>2
<1>9. SamePacket(packet, q)
  BY <1>5, <1>8 DEF SamePacket
<1>10. QED
  BY <1>2, <1>7, <1>9, Zenon

-----------------------------------------------------------------------------
(***************************************************************************)
(* The Golay code of the slot type: a division takes away the highest      *)
(* power by adding the generator below it.                                 *)
(***************************************************************************)
Reduced(x, top) ==
  IF top \in x THEN Plus(x, Shifted(Golay2087.generator, top - 11)) ELSE x

Rem(x) ==
  Reduced(Reduced(Reduced(Reduced(Reduced(Reduced(Reduced(Reduced(
    x, 18), 17), 16), 15), 14), 13), 12), 11)

LEMMA SyndromeIs ==
  ASSUME NEW x
  PROVE  Syndrome(Golay2087, x) = Rem(x)
<1> DEFINE IsDivision(r) ==
             r = [top \in 11..19 |->
                    IF top = 19 THEN x
                    ELSE LET p == r[top + 1]
                         IN  IF top \in p THEN Plus(p, Shifted(Golay2087.generator, top - 11)) ELSE p]
<1>1. /\ Golay2087.checks = 11 /\ Golay2087.bits = 19
  BY DEF Golay2087
<1>2. Syndrome(Golay2087, x) = (CHOOSE r : IsDivision(r))[11]
  BY <1>1 DEF Syndrome
<1>3. PICK x18, x17, x16, x15, x14, x13, x12, x11 :
        /\ x18 = Reduced(x, 18)   /\ x17 = Reduced(x18, 17)
        /\ x16 = Reduced(x17, 16) /\ x15 = Reduced(x16, 15)
        /\ x14 = Reduced(x15, 14) /\ x13 = Reduced(x14, 13)
        /\ x12 = Reduced(x13, 12) /\ x11 = Reduced(x12, 11)
  OBVIOUS
<1>4. x11 = Rem(x)
  BY <1>3, Zenon DEF Rem
<1>5. \A r : IsDivision(r) <=>
               r = [top \in 11..19 |-> IF top = 19 THEN x ELSE Reduced(r[top + 1], top)]
  BY Zenon DEF Reduced
<1> DEFINE whole == [top \in 11..19 |->
                       CASE top = 19 -> x   [] top = 18 -> x18 [] top = 17 -> x17 [] top = 16 -> x16
                         [] top = 15 -> x15 [] top = 14 -> x14 [] top = 13 -> x13 [] top = 12 -> x12
                         [] top = 11 -> x11]
<1>6. IsDivision(whole)
  <2>1. ASSUME NEW top \in 11..19
        PROVE  whole[top] = IF top = 19 THEN x ELSE Reduced(whole[top + 1], top)
    BY <1>3
  <2>2. whole = [top \in 11..19 |-> IF top = 19 THEN x ELSE Reduced(whole[top + 1], top)]
    BY <2>1
  <2>3. QED
    BY <1>5, <2>2, Zenon
<1>7. ASSUME NEW r, IsDivision(r) PROVE r[11] = x11
  <2>1. r = [top \in 11..19 |-> IF top = 19 THEN x ELSE Reduced(r[top + 1], top)]
    BY <1>5, <1>7, Zenon
  <2>2. r[19] = x /\ \A top \in 11..18 : r[top] = Reduced(r[top + 1], top)
    BY <2>1
  <2>3. r[18] = x18 /\ r[17] = Reduced(r[18], 17) /\ r[16] = Reduced(r[17], 16)
    BY <1>3, <2>2
  <2>4. r[15] = Reduced(r[16], 15) /\ r[14] = Reduced(r[15], 14) /\ r[13] = Reduced(r[14], 13)
    BY <2>2
  <2>5. r[12] = Reduced(r[13], 12) /\ r[11] = Reduced(r[12], 11)
    BY <2>2
  <2>6. QED
    BY <1>3, <2>3, <2>4, <2>5, ZenonT(60)
<1> HIDE DEF IsDivision, whole
<1>8. IsDivision(CHOOSE r : IsDivision(r))
  BY <1>6, Zenon
<1>9. QED
  BY <1>2, <1>4, <1>7, <1>8, Zenon

(* What a step does to the bits, that it takes the highest one away, and   *)
(* that it respects addition.                                              *)
Divided(x, y, top) ==
  \A k \in 0..18 : k \in y <=> ~(k \in x <=> top \in x /\ k - (top - 11) \in {11, 10, 6, 5, 4, 2, 0})

LEMMA ReducedBits ==
  ASSUME NEW x, NEW top \in 11..18
  PROVE  Divided(x, Reduced(x, top), top)
<1>1. Golay2087.generator = {11, 10, 6, 5, 4, 2, 0}
  BY DEF Golay2087
<1> SUFFICES ASSUME NEW k \in 0..18
             PROVE  k \in Reduced(x, top)
                      <=> ~(k \in x <=> top \in x /\ k - (top - 11) \in {11, 10, 6, 5, 4, 2, 0})
  BY DEF Divided
<1>2. k \in Shifted(Golay2087.generator, top - 11) <=> k - (top - 11) \in {11, 10, 6, 5, 4, 2, 0}
  BY <1>1 DEF Shifted
<1>3. QED
  BY <1>2, Zenon DEF Reduced, Plus

LEMMA ReducedBelow ==
  ASSUME NEW top \in 11..18, NEW x \in SUBSET (0..top)
  PROVE  Reduced(x, top) \in SUBSET (0..top-1)
<1>1. Golay2087.generator = {11, 10, 6, 5, 4, 2, 0}
  BY DEF Golay2087
<1>2. PICK g : g = Shifted(Golay2087.generator, top - 11)
  OBVIOUS
<1>3. g \subseteq 0..top /\ top \in g
  BY <1>1, <1>2 DEF Shifted
<1>4. CASE top \in x
  <2>1. Reduced(x, top) = Plus(x, g)
    BY <1>2, <1>4 DEF Reduced
  <2>2. \A k \in Plus(x, g) : k \in 0..top /\ k # top
    BY <1>3, <1>4 DEF Plus
  <2>3. QED
    BY <2>1, <2>2
<1>5. CASE top \notin x
  <2>1. Reduced(x, top) = x
    BY <1>5 DEF Reduced
  <2>2. \A k \in x : k \in 0..top /\ k # top
    BY <1>5
  <2>3. QED
    BY <2>1, <2>2
<1>6. QED
  BY <1>4, <1>5

LEMMA ReducedAdds ==
  ASSUME NEW top, NEW x, NEW y
  PROVE  Reduced(Plus(x, y), top) = Plus(Reduced(x, top), Reduced(y, top))
<1>1. PICK g : g = Shifted(Golay2087.generator, top - 11)
  OBVIOUS
<1>2. top \in Plus(x, y) <=> ~(top \in x <=> top \in y)
  BY DEF Plus
<1>3. Plus(Plus(x, y), g) = Plus(Plus(x, g), y) /\ Plus(Plus(x, y), g) = Plus(x, Plus(y, g))
      /\ Plus(Plus(x, g), Plus(y, g)) = Plus(x, y)
  BY DEF Plus
<1>4. CASE top \in x /\ top \in y
  BY <1>1, <1>2, <1>3, <1>4, Zenon DEF Reduced
<1>5. CASE top \in x /\ top \notin y
  BY <1>1, <1>2, <1>3, <1>5, Zenon DEF Reduced
<1>6. CASE top \notin x /\ top \in y
  BY <1>1, <1>2, <1>3, <1>6, Zenon DEF Reduced
<1>7. CASE top \notin x /\ top \notin y
  BY <1>1, <1>2, <1>7, Zenon DEF Reduced
<1>8. QED
  BY <1>4, <1>5, <1>6, <1>7, Zenon

LEMMA RemBelow ==
  ASSUME NEW x \in SUBSET (0..18)
  PROVE  Rem(x) \in SUBSET (0..10)
<1>1. PICK x18 : x18 = Reduced(x, 18) /\ x18 \in SUBSET (0..17)
  BY ReducedBelow
<1>2. PICK x17 : x17 = Reduced(x18, 17) /\ x17 \in SUBSET (0..16)
  BY <1>1, ReducedBelow
<1>3. PICK x16 : x16 = Reduced(x17, 16) /\ x16 \in SUBSET (0..15)
  BY <1>2, ReducedBelow
<1>4. PICK x15 : x15 = Reduced(x16, 15) /\ x15 \in SUBSET (0..14)
  BY <1>3, ReducedBelow
<1>5. PICK x14 : x14 = Reduced(x15, 14) /\ x14 \in SUBSET (0..13)
  BY <1>4, ReducedBelow
<1>6. PICK x13 : x13 = Reduced(x14, 13) /\ x13 \in SUBSET (0..12)
  BY <1>5, ReducedBelow
<1>7. PICK x12 : x12 = Reduced(x13, 12) /\ x12 \in SUBSET (0..11)
  BY <1>6, ReducedBelow
<1>8. Reduced(x12, 11) \in SUBSET (0..10)
  BY <1>7, ReducedBelow
<1>9. QED
  BY <1>1, <1>2, <1>3, <1>4, <1>5, <1>6, <1>7, <1>8, Zenon DEF Rem

LEMMA RemAdds ==
  ASSUME NEW x, NEW y
  PROVE  Rem(Plus(x, y)) = Plus(Rem(x), Rem(y))
<1>1. PICK x18, x17, x16, x15, x14, x13, x12, x11 :
        /\ x18 = Reduced(x, 18)   /\ x17 = Reduced(x18, 17)
        /\ x16 = Reduced(x17, 16) /\ x15 = Reduced(x16, 15)
        /\ x14 = Reduced(x15, 14) /\ x13 = Reduced(x14, 13)
        /\ x12 = Reduced(x13, 12) /\ x11 = Reduced(x12, 11)
  OBVIOUS
<1>2. PICK y18, y17, y16, y15, y14, y13, y12, y11 :
        /\ y18 = Reduced(y, 18)   /\ y17 = Reduced(y18, 17)
        /\ y16 = Reduced(y17, 16) /\ y15 = Reduced(y16, 15)
        /\ y14 = Reduced(y15, 14) /\ y13 = Reduced(y14, 13)
        /\ y12 = Reduced(y13, 12) /\ y11 = Reduced(y12, 11)
  OBVIOUS
<1>3. Reduced(Plus(x, y), 18) = Plus(x18, y18)
  BY <1>1, <1>2, ReducedAdds, Zenon
<1>4. Reduced(Plus(x18, y18), 17) = Plus(x17, y17)
  BY <1>1, <1>2, ReducedAdds, Zenon
<1>5. Reduced(Plus(x17, y17), 16) = Plus(x16, y16)
  BY <1>1, <1>2, ReducedAdds, Zenon
<1>6. Reduced(Plus(x16, y16), 15) = Plus(x15, y15)
  BY <1>1, <1>2, ReducedAdds, Zenon
<1>7. Reduced(Plus(x15, y15), 14) = Plus(x14, y14)
  BY <1>1, <1>2, ReducedAdds, ZenonT(60)
<1>8. Reduced(Plus(x14, y14), 13) = Plus(x13, y13)
  BY <1>1, <1>2, ReducedAdds, ZenonT(60)
<1>9. Reduced(Plus(x13, y13), 12) = Plus(x12, y12)
  BY <1>1, <1>2, ReducedAdds, ZenonT(60)
<1>10. Reduced(Plus(x12, y12), 11) = Plus(x11, y11)
  BY <1>1, <1>2, ReducedAdds, ZenonT(60)
<1>11. Rem(Plus(x, y)) = Plus(x11, y11)
  BY <1>3, <1>4, <1>5, <1>6, <1>7, <1>8, <1>9, <1>10, Zenon DEF Rem
<1>12. Rem(x) = x11 /\ Rem(y) = y11
  BY <1>1, <1>2, Zenon DEF Rem
<1>13. QED
  BY <1>11, <1>12, Zenon

LEMMA RemOfLow ==
  ASSUME NEW x \in SUBSET (0..10)
  PROVE  Rem(x) = x
<1>1. \A top \in 11..18 : top \notin x
  OBVIOUS
<1>2. \A top \in 11..18 : Reduced(x, top) = x
  BY <1>1, Zenon DEF Reduced
<1>3. /\ Reduced(x, 18) = x /\ Reduced(x, 17) = x /\ Reduced(x, 16) = x /\ Reduced(x, 15) = x
      /\ Reduced(x, 14) = x /\ Reduced(x, 13) = x /\ Reduced(x, 12) = x /\ Reduced(x, 11) = x
  BY <1>2
<1>4. QED
  BY <1>3, Zenon DEF Rem

-----------------------------------------------------------------------------
(***************************************************************************)
(* No two codewords are less than seven bits apart.                        *)
(***************************************************************************)
One(x, k) == IF k \in x THEN 1 ELSE 0
Five(x, k) == One(x, k) + One(x, k + 1) + One(x, k + 2) + One(x, k + 3) + One(x, k + 4)
Weight(x) == Five(x, 0) + Five(x, 5) + Five(x, 10) + Five(x, 15)

LEMMA Distance ==
  ASSUME NEW x \in SUBSET (0..18), Rem(x) = {}, Weight(x) <= 6
  PROVE  x = {}
<1>1. PICK x18, x17, x16, x15, x14, x13, x12, x11 :
        /\ x18 = Reduced(x, 18)   /\ x17 = Reduced(x18, 17)
        /\ x16 = Reduced(x17, 16) /\ x15 = Reduced(x16, 15)
        /\ x14 = Reduced(x15, 14) /\ x13 = Reduced(x14, 13)
        /\ x12 = Reduced(x13, 12) /\ x11 = Reduced(x12, 11)
  OBVIOUS
<1>2. x11 = {}
  BY <1>1, Zenon DEF Rem
<1>3. /\ Divided(x, x18, 18)   /\ Divided(x18, x17, 17) /\ Divided(x17, x16, 16) /\ Divided(x16, x15, 15)
      /\ Divided(x15, x14, 14) /\ Divided(x14, x13, 13) /\ Divided(x13, x12, 12) /\ Divided(x12, x11, 11)
  BY <1>1, ReducedBits
<1>4. \A k \in 0..18 : k \notin x11
  BY <1>2
<1>5. \A k \in 0..18 : k \notin x
  <2> HIDE <1>1
  <2>1. QED
    BY <1>3, <1>4, SMTT(60) DEF Weight, Five, One, Divided
<1>6. QED
  BY <1>5

LEMMA WeightOfThree ==
  ASSUME NEW a \in 0..18, NEW b \in 0..18, NEW c \in 0..18
  PROVE  Weight({a, b, c}) <= 3
BY SMTT(60) DEF Weight, Five, One

LEMMA FiveOfSum ==
  ASSUME NEW x, NEW y, NEW k \in Nat
  PROVE  /\ Five(x, k) \in Nat /\ Five(y, k) \in Nat /\ Five(Plus(x, y), k) \in Nat
         /\ Five(Plus(x, y), k) <= Five(x, k) + Five(y, k)
BY SMTT(30) DEF Five, One, Plus

LEMMA WeightOfSum ==
  ASSUME NEW x, NEW y
  PROVE  /\ Weight(x) \in Nat /\ Weight(y) \in Nat /\ Weight(Plus(x, y)) \in Nat
         /\ Weight(Plus(x, y)) <= Weight(x) + Weight(y)
BY FiveOfSum DEF Weight

-----------------------------------------------------------------------------
(* The patterns of the table are those of at most three bits. *)
LEMMA PatternBits ==
  ASSUME NEW p \in Patterns(Golay2087)
  PROVE  p \in SUBSET (0..18) /\ Weight(p) \in Nat /\ Weight(p) <= 3
<1>1. Golay2087.radius = 3 /\ Golay2087.bits = 19
  BY DEF Golay2087
<1>2. CASE p = {}
  BY <1>2, SMTT(30) DEF Weight, Five, One
<1>3. CASE \E at \in [1..3 -> 0..18] : p = {at[k] : k \in DOMAIN at}
  <2>1. PICK at \in [1..3 -> 0..18] : p = {at[k] : k \in DOMAIN at}
    BY <1>3
  <2>2. /\ at[1] \in 0..18 /\ at[2] \in 0..18 /\ at[3] \in 0..18
        /\ p = {at[1], at[2], at[3]}
    BY <2>1
  <2>3. PICK a \in 0..18, b \in 0..18, c \in 0..18 : p = {a, b, c}
    BY <2>2, Zenon
  <2>4. QED
    BY <2>2, <2>3, WeightOfThree, WeightOfSum, Zenon
<1>4. QED
  BY <1>1, <1>2, <1>3 DEF Patterns

LEMMA OneLess ==
  ASSUME NEW S, IsFiniteSet(S), NEW n \in Nat, Cardinality(S) <= n + 1, NEW x \in S
  PROVE  IsFiniteSet(S \ {x}) /\ Cardinality(S \ {x}) <= n
<1>1. Cardinality(S) \in Nat
  BY FS_CardinalityType
<1>2. IsFiniteSet(S \ {x}) /\ Cardinality(S \ {x}) = Cardinality(S) - 1
  BY FS_RemoveElement
<1>3. QED
  BY <1>1, <1>2

LEMMA UpToThree ==
  ASSUME NEW S, IsFiniteSet(S), Cardinality(S) <= 3, S # {}
  PROVE  \E a, b, c \in S : S = {a, b, c}
<1>1. PICK a : a \in S
  OBVIOUS
<1>2. PICK q : q = S \ {a} /\ IsFiniteSet(q) /\ Cardinality(q) <= 2
  <2>1. Cardinality(S) <= 2 + 1
    OBVIOUS
  <2>2. QED
    BY <1>1, <2>1, OneLess
<1>3. CASE q = {}
  BY <1>1, <1>2, <1>3
<1>4. CASE q # {}
  <2>1. PICK b : b \in q
    BY <1>4
  <2>2. PICK r : r = q \ {b} /\ IsFiniteSet(r) /\ Cardinality(r) <= 1
    <3>1. Cardinality(q) <= 1 + 1
      BY <1>2
    <3>2. QED
      BY <1>2, <2>1, <3>1, OneLess
  <2>3. CASE r = {}
    BY <1>1, <1>2, <2>1, <2>2, <2>3
  <2>4. CASE r # {}
    <3>1. PICK c : c \in r
      BY <2>4
    <3>2. IsFiniteSet(r \ {c}) /\ Cardinality(r \ {c}) <= 0
      <4>1. Cardinality(r) <= 0 + 1
        BY <2>2
      <4>2. QED
        BY <2>2, <3>1, <4>1, OneLess
    <3>3. r \ {c} = {}
      <4>1. Cardinality(r \ {c}) = 0
        BY <3>2, FS_CardinalityType
      <4>2. QED
        BY <3>2, <4>1, FS_EmptySet
    <3>4. S = {a, b, c} /\ b \in S /\ c \in S
      BY <1>1, <1>2, <2>1, <2>2, <3>1, <3>3
    <3>5. QED
      BY <1>1, <3>4
  <2>5. QED
    BY <2>3, <2>4
<1>5. QED
  BY <1>3, <1>4

(* A codeword leaves no remainder. *)
LEMMA CodeWordDivides ==
  ASSUME NEW value \in SUBSET (0..7)
  PROVE  /\ CodeWord(Golay2087, value) \in SUBSET (0..18)
         /\ Rem(CodeWord(Golay2087, value)) = {}
         /\ \A b \in 0..7 : b + 11 \in CodeWord(Golay2087, value) <=> b \in value
<1>1. PICK data : data = Shifted(value, 11)
  OBVIOUS
<1>2. PICK rest : rest = Rem(data)
  OBVIOUS
<1>3. data \in SUBSET (11..18) /\ \A b \in 0..7 : b + 11 \in data <=> b \in value
  BY <1>1 DEF Shifted
<1>4. rest \in SUBSET (0..10)
  <2>1. data \in SUBSET (0..18)
    BY <1>3
  <2>2. QED
    BY <1>2, <2>1, RemBelow
<1>5. CodeWord(Golay2087, value) = data \cup rest
  <2>1. Golay2087.checks = 11
    BY DEF Golay2087
  <2>2. QED
    BY <1>1, <1>2, <2>1, SyndromeIs, Zenon DEF CodeWord
<1>6. data \cup rest = Plus(data, rest)
  <2>1. \A b \in data : b \notin rest
    BY <1>3, <1>4
  <2>2. QED
    BY <2>1 DEF Plus
<1>7. Rem(data \cup rest) = {}
  <2>1. Rem(Plus(data, rest)) = Plus(Rem(data), Rem(rest))
    BY RemAdds
  <2>2. Rem(rest) = rest
    BY <1>4, RemOfLow
  <2>3. Plus(rest, rest) = {}
    BY DEF Plus
  <2>4. QED
    BY <1>2, <1>6, <2>1, <2>2, <2>3, Zenon
<1>8. QED
  BY <1>3, <1>4, <1>5, <1>7

(***************************************************************************)
(* A word that is three bits or less from a codeword is read as its value. *)
(***************************************************************************)
THEOREM GolayDecodes ==
  ASSUME NEW value \in SUBSET (0..7), NEW p \in Patterns(Golay2087), NEW received,
         {b - 1 : b \in received \ {0}} = Plus(CodeWord(Golay2087, value), p)
  PROVE  CyclicDecode(Golay2087, GolayTable, received) = value
<1>1. PICK code : code = CodeWord(Golay2087, value)
  OBVIOUS
<1>2. PICK word : word = Plus(code, p)
  OBVIOUS
<1>3. /\ code \in SUBSET (0..18) /\ Rem(code) = {}
      /\ \A b \in 0..7 : b + 11 \in code <=> b \in value
  BY <1>1, CodeWordDivides
<1>4. Rem(word) = Rem(p)
  <2>1. Rem(word) = Plus(Rem(code), Rem(p))
    BY <1>2, RemAdds
  <2>2. Plus({}, Rem(p)) = Rem(p)
    BY DEF Plus
  <2>3. QED
    BY <1>3, <2>1, <2>2
<1>5. PICK rows : rows = {row \in GolayTable : row.syndrome = Rem(p)}
  OBVIOUS
<1>6. rows # {}
  <2>1. [syndrome |-> Syndrome(Golay2087, p), pattern |-> p] \in GolayTable
    BY DEF GolayTable, TableOf
  <2>2. [syndrome |-> Syndrome(Golay2087, p), pattern |-> p].syndrome = Rem(p)
    BY SyndromeIs
  <2>3. QED
    BY <1>5, <2>1, <2>2
<1>7. ASSUME NEW row \in rows PROVE row.pattern = p
  <2>1. PICK q \in Patterns(Golay2087) : row = [syndrome |-> Syndrome(Golay2087, q), pattern |-> q]
    BY <1>5 DEF GolayTable, TableOf
  <2>2. Rem(q) = Rem(p)
    BY <1>5, <2>1, SyndromeIs
  <2>3. Rem(Plus(p, q)) = {}
    <3>1. Rem(Plus(p, q)) = Plus(Rem(p), Rem(q))
      BY RemAdds
    <3>2. Plus(Rem(p), Rem(p)) = {}
      BY DEF Plus
    <3>3. QED
      BY <2>2, <3>1, <3>2
  <2>4. /\ p \in SUBSET (0..18) /\ q \in SUBSET (0..18)
        /\ Weight(p) \in Nat /\ Weight(q) \in Nat /\ Weight(p) <= 3 /\ Weight(q) <= 3
    BY PatternBits
  <2>5. Plus(p, q) \in SUBSET (0..18) /\ Weight(Plus(p, q)) <= 6
    <3>1. Plus(p, q) \in SUBSET (0..18)
      BY <2>4 DEF Plus
    <3>2. QED
      BY <2>4, <3>1, WeightOfSum
  <2>6. Plus(p, q) = {}
    BY <2>3, <2>5, Distance
  <2>7. p = q
    BY <2>6 DEF Plus
  <2>8. QED
    BY <2>1, <2>7
<1>8. (CHOOSE row \in rows : TRUE).pattern = p
  BY <1>6, <1>7
<1>9. Plus(word, p) = code
  BY <1>2 DEF Plus
<1>10. {b - 11 : b \in {c \in code : c >= 11}} = value
  <2>1. \A b \in 0..18 : b >= 11 => b - 11 \in 0..7 /\ (b - 11) + 11 = b
    OBVIOUS
  <2>2. \A b \in {c \in code : c >= 11} : b - 11 \in value
    BY <1>3, <2>1
  <2>3. \A v \in value : v + 11 \in {c \in code : c >= 11} /\ (v + 11) - 11 = v
    BY <1>3
  <2>4. QED
    BY <2>2, <2>3
<1>11. CyclicDecode(Golay2087, GolayTable, received)
         = {b - 11 : b \in {c \in Plus(word, (CHOOSE row \in rows : TRUE).pattern) : c >= 11}}
  <2>1. Golay2087.checks = 11
    BY DEF Golay2087
  <2>2. {b - 1 : b \in received \ {0}} = word
    BY <1>1, <1>2
  <2>3. Syndrome(Golay2087, word) = Rem(p)
    BY <1>4, SyndromeIs
  <2>4. QED
    BY <1>5, <1>6, <2>1, <2>2, <2>3, ZenonT(60) DEF CyclicDecode
<1>12. QED
  BY <1>8, <1>9, <1>10, <1>11

-----------------------------------------------------------------------------
(***************************************************************************)
(* The quadratic residue code of embedded signalling is divided likewise,  *)
(* in seven steps.                                                         *)
(***************************************************************************)
ReducedQR(x, top) ==
  IF top \in x THEN Plus(x, Shifted(QR1676.generator, top - 8)) ELSE x

RemQR(x) ==
  ReducedQR(ReducedQR(ReducedQR(ReducedQR(ReducedQR(ReducedQR(ReducedQR(
    x, 14), 13), 12), 11), 10), 9), 8)

LEMMA SyndromeIsQR ==
  ASSUME NEW x
  PROVE  Syndrome(QR1676, x) = RemQR(x)
<1> DEFINE IsDivision(r) ==
             r = [top \in 8..15 |->
                    IF top = 15 THEN x
                    ELSE LET p == r[top + 1]
                         IN  IF top \in p THEN Plus(p, Shifted(QR1676.generator, top - 8)) ELSE p]
<1>1. /\ QR1676.checks = 8 /\ QR1676.bits = 15
  BY DEF QR1676
<1>2. Syndrome(QR1676, x) = (CHOOSE r : IsDivision(r))[8]
  BY <1>1 DEF Syndrome
<1>3. PICK x14, x13, x12, x11, x10, x9, x8 :
        /\ x14 = ReducedQR(x, 14)   /\ x13 = ReducedQR(x14, 13)
        /\ x12 = ReducedQR(x13, 12) /\ x11 = ReducedQR(x12, 11)
        /\ x10 = ReducedQR(x11, 10) /\ x9 = ReducedQR(x10, 9)
        /\ x8 = ReducedQR(x9, 8)
  OBVIOUS
<1>4. x8 = RemQR(x)
  BY <1>3, Zenon DEF RemQR
<1>5. \A r : IsDivision(r) <=>
               r = [top \in 8..15 |-> IF top = 15 THEN x ELSE ReducedQR(r[top + 1], top)]
  BY Zenon DEF ReducedQR
<1> DEFINE whole == [top \in 8..15 |->
                       CASE top = 15 -> x   [] top = 14 -> x14 [] top = 13 -> x13 [] top = 12 -> x12
                         [] top = 11 -> x11 [] top = 10 -> x10 [] top = 9 -> x9   [] top = 8 -> x8]
<1>6. IsDivision(whole)
  <2>1. ASSUME NEW top \in 8..15
        PROVE  whole[top] = IF top = 15 THEN x ELSE ReducedQR(whole[top + 1], top)
    BY <1>3
  <2>2. whole = [top \in 8..15 |-> IF top = 15 THEN x ELSE ReducedQR(whole[top + 1], top)]
    BY <2>1
  <2>3. QED
    BY <1>5, <2>2, Zenon
<1>7. ASSUME NEW r, IsDivision(r) PROVE r[8] = x8
  <2>1. r = [top \in 8..15 |-> IF top = 15 THEN x ELSE ReducedQR(r[top + 1], top)]
    BY <1>5, <1>7, Zenon
  <2>2. r[15] = x /\ \A top \in 8..14 : r[top] = ReducedQR(r[top + 1], top)
    BY <2>1
  <2>3. r[14] = x14 /\ r[13] = ReducedQR(r[14], 13) /\ r[12] = ReducedQR(r[13], 12)
    BY <1>3, <2>2
  <2>4. r[11] = ReducedQR(r[12], 11) /\ r[10] = ReducedQR(r[11], 10)
    BY <2>2
  <2>5. r[9] = ReducedQR(r[10], 9) /\ r[8] = ReducedQR(r[9], 8)
    BY <2>2
  <2>6. QED
    BY <1>3, <2>3, <2>4, <2>5, ZenonT(60)
<1> HIDE DEF IsDivision, whole
<1>8. IsDivision(CHOOSE r : IsDivision(r))
  BY <1>6, Zenon
<1>9. QED
  BY <1>2, <1>4, <1>7, <1>8, Zenon

DividedQR(x, y, top) ==
  \A k \in 0..14 : k \in y <=> ~(k \in x <=> top \in x /\ k - (top - 8) \in {8, 5, 4, 3, 0})

LEMMA ReducedBitsQR ==
  ASSUME NEW x, NEW top \in 8..14
  PROVE  DividedQR(x, ReducedQR(x, top), top)
<1>1. QR1676.generator = {8, 5, 4, 3, 0}
  BY DEF QR1676
<1> SUFFICES ASSUME NEW k \in 0..14
             PROVE  k \in ReducedQR(x, top)
                      <=> ~(k \in x <=> top \in x /\ k - (top - 8) \in {8, 5, 4, 3, 0})
  BY DEF DividedQR
<1>2. k \in Shifted(QR1676.generator, top - 8) <=> k - (top - 8) \in {8, 5, 4, 3, 0}
  BY <1>1 DEF Shifted
<1>3. QED
  BY <1>2, Zenon DEF ReducedQR, Plus

LEMMA ReducedBelowQR ==
  ASSUME NEW top \in 8..14, NEW x \in SUBSET (0..top)
  PROVE  ReducedQR(x, top) \in SUBSET (0..top-1)
<1>1. QR1676.generator = {8, 5, 4, 3, 0}
  BY DEF QR1676
<1>2. PICK g : g = Shifted(QR1676.generator, top - 8)
  OBVIOUS
<1>3. g \subseteq 0..top /\ top \in g
  BY <1>1, <1>2 DEF Shifted
<1>4. CASE top \in x
  <2>1. ReducedQR(x, top) = Plus(x, g)
    BY <1>2, <1>4 DEF ReducedQR
  <2>2. \A k \in Plus(x, g) : k \in 0..top /\ k # top
    BY <1>3, <1>4 DEF Plus
  <2>3. QED
    BY <2>1, <2>2
<1>5. CASE top \notin x
  <2>1. ReducedQR(x, top) = x
    BY <1>5 DEF ReducedQR
  <2>2. \A k \in x : k \in 0..top /\ k # top
    BY <1>5
  <2>3. QED
    BY <2>1, <2>2
<1>6. QED
  BY <1>4, <1>5

LEMMA ReducedAddsQR ==
  ASSUME NEW top, NEW x, NEW y
  PROVE  ReducedQR(Plus(x, y), top) = Plus(ReducedQR(x, top), ReducedQR(y, top))
<1>1. PICK g : g = Shifted(QR1676.generator, top - 8)
  OBVIOUS
<1>2. top \in Plus(x, y) <=> ~(top \in x <=> top \in y)
  BY DEF Plus
<1>3. Plus(Plus(x, y), g) = Plus(Plus(x, g), y) /\ Plus(Plus(x, y), g) = Plus(x, Plus(y, g))
      /\ Plus(Plus(x, g), Plus(y, g)) = Plus(x, y)
  BY DEF Plus
<1>4. CASE top \in x /\ top \in y
  BY <1>1, <1>2, <1>3, <1>4, Zenon DEF ReducedQR
<1>5. CASE top \in x /\ top \notin y
  BY <1>1, <1>2, <1>3, <1>5, Zenon DEF ReducedQR
<1>6. CASE top \notin x /\ top \in y
  BY <1>1, <1>2, <1>3, <1>6, Zenon DEF ReducedQR
<1>7. CASE top \notin x /\ top \notin y
  BY <1>1, <1>2, <1>7, Zenon DEF ReducedQR
<1>8. QED
  BY <1>4, <1>5, <1>6, <1>7, Zenon

LEMMA RemBelowQR ==
  ASSUME NEW x \in SUBSET (0..14)
  PROVE  RemQR(x) \in SUBSET (0..7)
<1>1. PICK x14 : x14 = ReducedQR(x, 14) /\ x14 \in SUBSET (0..13)
  BY ReducedBelowQR
<1>2. PICK x13 : x13 = ReducedQR(x14, 13) /\ x13 \in SUBSET (0..12)
  BY <1>1, ReducedBelowQR
<1>3. PICK x12 : x12 = ReducedQR(x13, 12) /\ x12 \in SUBSET (0..11)
  BY <1>2, ReducedBelowQR
<1>4. PICK x11 : x11 = ReducedQR(x12, 11) /\ x11 \in SUBSET (0..10)
  BY <1>3, ReducedBelowQR
<1>5. PICK x10 : x10 = ReducedQR(x11, 10) /\ x10 \in SUBSET (0..9)
  BY <1>4, ReducedBelowQR
<1>6. PICK x9 : x9 = ReducedQR(x10, 9) /\ x9 \in SUBSET (0..8)
  BY <1>5, ReducedBelowQR
<1>7. ReducedQR(x9, 8) \in SUBSET (0..7)
  BY <1>6, ReducedBelowQR
<1>8. QED
  BY <1>1, <1>2, <1>3, <1>4, <1>5, <1>6, <1>7, Zenon DEF RemQR

LEMMA RemAddsQR ==
  ASSUME NEW x, NEW y
  PROVE  RemQR(Plus(x, y)) = Plus(RemQR(x), RemQR(y))
<1>1. PICK x14, x13, x12, x11, x10, x9, x8 :
        /\ x14 = ReducedQR(x, 14)   /\ x13 = ReducedQR(x14, 13)
        /\ x12 = ReducedQR(x13, 12) /\ x11 = ReducedQR(x12, 11)
        /\ x10 = ReducedQR(x11, 10) /\ x9 = ReducedQR(x10, 9)
        /\ x8 = ReducedQR(x9, 8)
  OBVIOUS
<1>2. PICK y14, y13, y12, y11, y10, y9, y8 :
        /\ y14 = ReducedQR(y, 14)   /\ y13 = ReducedQR(y14, 13)
        /\ y12 = ReducedQR(y13, 12) /\ y11 = ReducedQR(y12, 11)
        /\ y10 = ReducedQR(y11, 10) /\ y9 = ReducedQR(y10, 9)
        /\ y8 = ReducedQR(y9, 8)
  OBVIOUS
<1>3. ReducedQR(Plus(x, y), 14) = Plus(x14, y14)
  BY <1>1, <1>2, ReducedAddsQR, Zenon
<1>4. ReducedQR(Plus(x14, y14), 13) = Plus(x13, y13)
  BY <1>1, <1>2, ReducedAddsQR, Zenon
<1>5. ReducedQR(Plus(x13, y13), 12) = Plus(x12, y12)
  BY <1>1, <1>2, ReducedAddsQR, Zenon
<1>6. ReducedQR(Plus(x12, y12), 11) = Plus(x11, y11)
  BY <1>1, <1>2, ReducedAddsQR, Zenon
<1>7. ReducedQR(Plus(x11, y11), 10) = Plus(x10, y10)
  BY <1>1, <1>2, ReducedAddsQR, ZenonT(60)
<1>8. ReducedQR(Plus(x10, y10), 9) = Plus(x9, y9)
  BY <1>1, <1>2, ReducedAddsQR, ZenonT(60)
<1>9. ReducedQR(Plus(x9, y9), 8) = Plus(x8, y8)
  BY <1>1, <1>2, ReducedAddsQR, ZenonT(60)
<1>10. RemQR(Plus(x, y)) = Plus(x8, y8)
  BY <1>3, <1>4, <1>5, <1>6, <1>7, <1>8, <1>9, Zenon DEF RemQR
<1>11. RemQR(x) = x8 /\ RemQR(y) = y8
  BY <1>1, <1>2, Zenon DEF RemQR
<1>12. QED
  BY <1>10, <1>11, Zenon

LEMMA RemOfLowQR ==
  ASSUME NEW x \in SUBSET (0..7)
  PROVE  RemQR(x) = x
<1>1. \A top \in 8..14 : top \notin x
  OBVIOUS
<1>2. \A top \in 8..14 : ReducedQR(x, top) = x
  BY <1>1, Zenon DEF ReducedQR
<1>3. /\ ReducedQR(x, 14) = x /\ ReducedQR(x, 13) = x /\ ReducedQR(x, 12) = x /\ ReducedQR(x, 11) = x
      /\ ReducedQR(x, 10) = x /\ ReducedQR(x, 9) = x /\ ReducedQR(x, 8) = x
  BY <1>2
<1>4. QED
  BY <1>3, Zenon DEF RemQR

(* No two of its codewords are less than five bits apart. *)
LEMMA DistanceQR ==
  ASSUME NEW x \in SUBSET (0..14), RemQR(x) = {}, Weight(x) <= 4
  PROVE  x = {}
<1>1. PICK x14, x13, x12, x11, x10, x9, x8 :
        /\ x14 = ReducedQR(x, 14)   /\ x13 = ReducedQR(x14, 13)
        /\ x12 = ReducedQR(x13, 12) /\ x11 = ReducedQR(x12, 11)
        /\ x10 = ReducedQR(x11, 10) /\ x9 = ReducedQR(x10, 9)
        /\ x8 = ReducedQR(x9, 8)
  OBVIOUS
<1>2. x8 = {}
  BY <1>1, Zenon DEF RemQR
<1>3. /\ DividedQR(x, x14, 14)   /\ DividedQR(x14, x13, 13) /\ DividedQR(x13, x12, 12)
      /\ DividedQR(x12, x11, 11) /\ DividedQR(x11, x10, 10) /\ DividedQR(x10, x9, 9)
      /\ DividedQR(x9, x8, 8)
  BY <1>1, ReducedBitsQR
<1>4. \A k \in 0..14 : k \notin x8
  BY <1>2
<1>5. \A k \in 15..19 : k \notin x
  OBVIOUS
<1>6. \A k \in 0..14 : k \notin x
  <2> HIDE <1>1
  <2>1. QED
    BY <1>3, <1>4, <1>5, SMTT(60) DEF Weight, Five, One, DividedQR
<1>7. QED
  BY <1>6

LEMMA PatternBitsQR ==
  ASSUME NEW p \in Patterns(QR1676)
  PROVE  p \in SUBSET (0..14) /\ Weight(p) \in Nat /\ Weight(p) <= 2
<1>1. QR1676.radius = 2 /\ QR1676.bits = 15
  BY DEF QR1676
<1>2. CASE p = {}
  BY <1>2, SMTT(30) DEF Weight, Five, One
<1>3. CASE \E at \in [1..2 -> 0..14] : p = {at[k] : k \in DOMAIN at}
  <2>1. PICK at \in [1..2 -> 0..14] : p = {at[k] : k \in DOMAIN at}
    BY <1>3
  <2>2. at[1] \in 0..14 /\ at[2] \in 0..14 /\ p = {at[1], at[2]}
    BY <2>1
  <2>3. PICK a \in 0..14, b \in 0..14 : p = {a, b}
    BY <2>2, Zenon
  <2>4. Weight({a, b}) <= 2
    BY SMTT(60) DEF Weight, Five, One
  <2>5. QED
    BY <2>2, <2>3, <2>4, WeightOfSum, Zenon
<1>4. QED
  BY <1>1, <1>2, <1>3 DEF Patterns

LEMMA CodeWordDividesQR ==
  ASSUME NEW value \in SUBSET (0..6)
  PROVE  /\ CodeWord(QR1676, value) \in SUBSET (0..14)
         /\ RemQR(CodeWord(QR1676, value)) = {}
         /\ \A b \in 0..6 : b + 8 \in CodeWord(QR1676, value) <=> b \in value
<1>1. PICK data : data = Shifted(value, 8)
  OBVIOUS
<1>2. PICK rest : rest = RemQR(data)
  OBVIOUS
<1>3. data \in SUBSET (8..14) /\ \A b \in 0..6 : b + 8 \in data <=> b \in value
  BY <1>1 DEF Shifted
<1>4. rest \in SUBSET (0..7)
  <2>1. data \in SUBSET (0..14)
    BY <1>3
  <2>2. QED
    BY <1>2, <2>1, RemBelowQR
<1>5. CodeWord(QR1676, value) = data \cup rest
  <2>1. QR1676.checks = 8
    BY DEF QR1676
  <2>2. QED
    BY <1>1, <1>2, <2>1, SyndromeIsQR, Zenon DEF CodeWord
<1>6. data \cup rest = Plus(data, rest)
  <2>1. \A b \in data : b \notin rest
    BY <1>3, <1>4
  <2>2. QED
    BY <2>1 DEF Plus
<1>7. RemQR(data \cup rest) = {}
  <2>1. RemQR(Plus(data, rest)) = Plus(RemQR(data), RemQR(rest))
    BY RemAddsQR
  <2>2. RemQR(rest) = rest
    BY <1>4, RemOfLowQR
  <2>3. Plus(rest, rest) = {}
    BY DEF Plus
  <2>4. QED
    BY <1>2, <1>6, <2>1, <2>2, <2>3, Zenon
<1>8. QED
  BY <1>3, <1>4, <1>5, <1>7

(***************************************************************************)
(* A word that is two bits or less from a codeword is read as its value.   *)
(***************************************************************************)
THEOREM QRDecodes ==
  ASSUME NEW value \in SUBSET (0..6), NEW p \in Patterns(QR1676), NEW received,
         {b - 1 : b \in received \ {0}} = Plus(CodeWord(QR1676, value), p)
  PROVE  CyclicDecode(QR1676, QRTable, received) = value
<1>1. PICK code : code = CodeWord(QR1676, value)
  OBVIOUS
<1>2. PICK word : word = Plus(code, p)
  OBVIOUS
<1>3. /\ code \in SUBSET (0..14) /\ RemQR(code) = {}
      /\ \A b \in 0..6 : b + 8 \in code <=> b \in value
  BY <1>1, CodeWordDividesQR
<1>4. RemQR(word) = RemQR(p)
  <2>1. RemQR(word) = Plus(RemQR(code), RemQR(p))
    BY <1>2, RemAddsQR
  <2>2. Plus({}, RemQR(p)) = RemQR(p)
    BY DEF Plus
  <2>3. QED
    BY <1>3, <2>1, <2>2
<1>5. PICK rows : rows = {row \in QRTable : row.syndrome = RemQR(p)}
  OBVIOUS
<1>6. rows # {}
  <2>1. [syndrome |-> Syndrome(QR1676, p), pattern |-> p] \in QRTable
    BY DEF QRTable, TableOf
  <2>2. [syndrome |-> Syndrome(QR1676, p), pattern |-> p].syndrome = RemQR(p)
    BY SyndromeIsQR
  <2>3. QED
    BY <1>5, <2>1, <2>2
<1>7. ASSUME NEW row \in rows PROVE row.pattern = p
  <2>1. PICK q \in Patterns(QR1676) : row = [syndrome |-> Syndrome(QR1676, q), pattern |-> q]
    BY <1>5 DEF QRTable, TableOf
  <2>2. RemQR(q) = RemQR(p)
    BY <1>5, <2>1, SyndromeIsQR
  <2>3. RemQR(Plus(p, q)) = {}
    <3>1. RemQR(Plus(p, q)) = Plus(RemQR(p), RemQR(q))
      BY RemAddsQR
    <3>2. Plus(RemQR(p), RemQR(p)) = {}
      BY DEF Plus
    <3>3. QED
      BY <2>2, <3>1, <3>2
  <2>4. /\ p \in SUBSET (0..14) /\ q \in SUBSET (0..14)
        /\ Weight(p) \in Nat /\ Weight(q) \in Nat /\ Weight(p) <= 2 /\ Weight(q) <= 2
    BY PatternBitsQR
  <2>5. Plus(p, q) \in SUBSET (0..14) /\ Weight(Plus(p, q)) <= 4
    <3>1. Plus(p, q) \in SUBSET (0..14)
      BY <2>4 DEF Plus
    <3>2. QED
      BY <2>4, <3>1, WeightOfSum
  <2>6. Plus(p, q) = {}
    BY <2>3, <2>5, DistanceQR
  <2>7. p = q
    BY <2>6 DEF Plus
  <2>8. QED
    BY <2>1, <2>7
<1>8. (CHOOSE row \in rows : TRUE).pattern = p
  BY <1>6, <1>7
<1>9. Plus(word, p) = code
  BY <1>2 DEF Plus
<1>10. {b - 8 : b \in {c \in code : c >= 8}} = value
  <2>1. \A b \in 0..14 : b >= 8 => b - 8 \in 0..6 /\ (b - 8) + 8 = b
    OBVIOUS
  <2>2. \A b \in {c \in code : c >= 8} : b - 8 \in value
    BY <1>3, <2>1
  <2>3. \A v \in value : v + 8 \in {c \in code : c >= 8} /\ (v + 8) - 8 = v
    BY <1>3
  <2>4. QED
    BY <2>2, <2>3
<1>11. CyclicDecode(QR1676, QRTable, received)
         = {b - 8 : b \in {c \in Plus(word, (CHOOSE row \in rows : TRUE).pattern) : c >= 8}}
  <2>1. QR1676.checks = 8
    BY DEF QR1676
  <2>2. {b - 1 : b \in received \ {0}} = word
    BY <1>1, <1>2
  <2>3. Syndrome(QR1676, word) = RemQR(p)
    BY <1>4, SyndromeIsQR
  <2>4. QED
    BY <1>5, <1>6, <2>1, <2>2, <2>3, ZenonT(60) DEF CyclicDecode
<1>12. QED
  BY <1>8, <1>9, <1>10, <1>11

-----------------------------------------------------------------------------
LEMMA FewHitsQR ==
  ASSUME NEW hits \in SUBSET (0..14), Cardinality(hits) <= 2
  PROVE  {14 - n : n \in hits} \in Patterns(QR1676)
<1>1. QR1676.radius = 2 /\ QR1676.bits = 15
  BY DEF QR1676
<1>2. IsFiniteSet(hits)
  <2>1. 0 \in Int /\ 14 \in Int
    OBVIOUS
  <2>2. IsFiniteSet(0..14)
    BY <2>1, FS_Interval
  <2>3. QED
    BY <2>2, FS_Subset
<1>3. CASE hits = {}
  BY <1>3 DEF Patterns
<1>4. CASE hits # {}
  <2>1. PICK a : a \in hits
    BY <1>4
  <2>2. IsFiniteSet(hits \ {a}) /\ Cardinality(hits \ {a}) <= 1
    <3>1. Cardinality(hits) <= 1 + 1
      OBVIOUS
    <3>2. QED
      BY <1>2, <2>1, <3>1, OneLess
  <2>3. PICK b \in hits : hits = {a, b}
    <3>1. CASE hits \ {a} = {}
      BY <2>1, <3>1
    <3>2. CASE hits \ {a} # {}
      <4>1. PICK b : b \in hits \ {a}
        BY <3>2
      <4>2. PICK rest : rest = (hits \ {a}) \ {b} /\ IsFiniteSet(rest) /\ Cardinality(rest) <= 0
        <5>1. Cardinality(hits \ {a}) <= 0 + 1
          BY <2>2
        <5>2. QED
          BY <2>2, <4>1, <5>1, OneLess
      <4>3. rest = {}
        <5>1. Cardinality(rest) = 0
          BY <4>2, FS_CardinalityType
        <5>2. QED
          BY <4>2, <5>1, FS_EmptySet
      <4>4. QED
        BY <2>1, <4>1, <4>2, <4>3
    <3>3. QED
      BY <3>1, <3>2
  <2>4. PICK x \in 0..14, y \in 0..14 : x = 14 - a /\ y = 14 - b
    <3>1. a \in 0..14 /\ b \in 0..14
      BY <2>1
    <3>2. QED
      BY <3>1
  <2>5. {14 - n : n \in hits} = {x, y}
    BY <2>3, <2>4
  <2>6. {x, y} \in Patterns(QR1676)
    <3>1. PICK at : at = [k \in 1..2 |-> IF k = 1 THEN x ELSE y]
      OBVIOUS
    <3>2. at \in [1..2 -> 0..14] /\ {x, y} = {at[k] : k \in DOMAIN at}
      BY <3>1
    <3>3. QED
      BY <1>1, <3>2 DEF Patterns
  <2>7. QED
    BY <2>5, <2>6, SMTT(30)
<1>5. QED
  BY <1>3, <1>4

-----------------------------------------------------------------------------
(***************************************************************************)
(* The Hamming codes of the rows and columns: what a line needs of its     *)
(* code, and lines that have no bit in common.                             *)
(***************************************************************************)
Flips(code, j, c) == IF j \in code.checks[c] \/ j = code.parity + c - 1 THEN 1 ELSE 0

HammingCode(code, last) ==
  /\ last \in Nat /\ code.parity \in Nat /\ code.parity + 3 = last
  /\ \A c \in 1..4 : code.checks[c] \subseteq 0..code.parity-1
  /\ \A n \in 1..15 : code.cases[n] = None \/ code.cases[n] \in 0..last
  /\ \A j \in 0..last :
       LET n == Flips(code, j, 1) + 2 * Flips(code, j, 2) + 4 * Flips(code, j, 3) + 8 * Flips(code, j, 4)
       IN  n \in 1..15 /\ code.cases[n] = j

Lines(lines, last) ==
  \A l, m \in lines : \A i, j \in 0..last : l[i] = m[j] => l = m /\ i = j

LEMMA ColumnCode == HammingCode(Hamming1393, 12)
<1>1. /\ Hamming1393.checks = << {0,1,3,5,6}, {0,1,2,4,6,7}, {0,1,2,3,5,7,8}, {0,2,4,5,8} >>
      /\ Hamming1393.parity = 9
      /\ Hamming1393.cases = << 9, 10, 6, 11, 3, 7, 1, 12, None, 4, None, 8, 5, 2, 0 >>
  BY DEF Hamming1393
<1>2. \A c \in 1..4 : Hamming1393.checks[c] \subseteq 0..8
  BY <1>1
<1>3. \A n \in 1..15 : Hamming1393.cases[n] = None \/ Hamming1393.cases[n] \in 0..12
  BY <1>1
<1>4. ASSUME NEW j \in 0..12
      PROVE  LET n == Flips(Hamming1393, j, 1) + 2 * Flips(Hamming1393, j, 2)
                        + 4 * Flips(Hamming1393, j, 3) + 8 * Flips(Hamming1393, j, 4)
             IN  n \in 1..15 /\ Hamming1393.cases[n] = j
  BY <1>1, SMTT(30) DEF Flips
<1>5. QED
  BY <1>1, <1>2, <1>3, <1>4 DEF HammingCode

LEMMA RowCode == HammingCode(Hamming15113, 14)
<1>1. /\ Hamming15113.checks = << {0,1,2,3,5,7,8}, {1,2,3,4,6,8,9}, {2,3,4,5,7,9,10}, {0,1,2,4,6,7,10} >>
      /\ Hamming15113.parity = 11
      /\ Hamming15113.cases = << 11, 12, 8, 13, 5, 9, 3, 14, 0, 6, 1, 10, 7, 4, 2 >>
  BY DEF Hamming15113
<1>2. \A c \in 1..4 : Hamming15113.checks[c] \subseteq 0..10
  BY <1>1
<1>3. \A n \in 1..15 : Hamming15113.cases[n] = None \/ Hamming15113.cases[n] \in 0..14
  BY <1>1
<1>4. ASSUME NEW j \in 0..14
      PROVE  LET n == Flips(Hamming15113, j, 1) + 2 * Flips(Hamming15113, j, 2)
                        + 4 * Flips(Hamming15113, j, 3) + 8 * Flips(Hamming15113, j, 4)
             IN  n \in 1..15 /\ Hamming15113.cases[n] = j
  BY <1>1, SMTT(30) DEF Flips
<1>5. QED
  BY <1>1, <1>2, <1>3, <1>4 DEF HammingCode

LEMMA ColumnLines == Lines(Columns, 12)
<1>1. \A c \in 0..14 : \A i \in 0..12 : Column(c)[i] = 15 * i + c + 1
  BY DEF Column
<1> SUFFICES ASSUME NEW l \in Columns, NEW m \in Columns, NEW i \in 0..12, NEW j \in 0..12, l[i] = m[j]
             PROVE  l = m /\ i = j
  BY Zenon DEF Lines
<1>2. PICK c \in 0..14 : l = Column(c)
  BY DEF Columns
<1>3. PICK d \in 0..14 : m = Column(d)
  BY DEF Columns
<1>4. 15 * i + c + 1 = 15 * j + d + 1
  <2>1. l[i] = 15 * i + c + 1
    BY <1>1, <1>2
  <2>2. m[j] = 15 * j + d + 1
    BY <1>1, <1>3
  <2>3. QED
    BY <2>1, <2>2
<1>5. i = j
  BY <1>2, <1>3, <1>4
<1>6. c = d
  BY <1>4, <1>5
<1>7. QED
  BY <1>2, <1>3, <1>5, <1>6

LEMMA RowLines == Lines(Rows, 14)
<1>1. \A r \in 0..8 : \A i \in 0..14 : Row(r)[i] = 15 * r + i + 1
  BY DEF Row
<1> SUFFICES ASSUME NEW l \in Rows, NEW m \in Rows, NEW i \in 0..14, NEW j \in 0..14, l[i] = m[j]
             PROVE  l = m /\ i = j
  BY Zenon DEF Lines
<1>2. PICK r \in 0..8 : l = Row(r)
  BY DEF Rows
<1>3. PICK s \in 0..8 : m = Row(s)
  BY DEF Rows
<1>4. 15 * r + i + 1 = 15 * s + j + 1
  BY <1>1, <1>2, <1>3, ZenonT(60)
<1>5. r = s /\ i = j
  BY <1>2, <1>3, <1>4
<1>6. QED
  BY <1>2, <1>3, <1>5

-----------------------------------------------------------------------------
(* A line that satisfies its checks, and what one wrong bit does to them. *)
Checked(w, line, code) ==
  \A c \in 1..4 : Checksum(w, line, code.checks[c]) <=> line[code.parity + c - 1] \in w

LEMMA OddFlips ==
  ASSUME NEW S, IsFiniteSet(S), NEW T, NEW j, \A i : i # j => (i \in T <=> i \in S), j \in T <=> j \notin S
  PROVE  Odd(T) <=> ~Odd(S)
<1>1. CASE j \in S
  <2>1. T = S \ {j}
    BY <1>1
  <2>2. Cardinality(S) \in Nat /\ Cardinality(T) \in Nat
    BY <2>1, FS_CardinalityType, FS_RemoveElement
  <2>3. Cardinality(S) = Cardinality(T) + 1
    BY <1>1, <2>1, <2>2, FS_RemoveElement
  <2>4. QED
    BY <2>2, <2>3 DEF Odd
<1>2. CASE j \notin S
  <2>1. T = S \cup {j}
    BY <1>2
  <2>2. Cardinality(S) \in Nat /\ Cardinality(T) = Cardinality(S) + 1
    BY <1>2, <2>1, FS_CardinalityType, FS_AddElement
  <2>3. QED
    BY <2>2 DEF Odd
<1>3. QED
  BY <1>1, <1>2

(* A line with one bit wrong: each check it is in, or is the bit of. *)
LEMMA OneWrong ==
  ASSUME NEW code, NEW last, HammingCode(code, last),
         NEW w, NEW line, Checked(w, line, code),
         NEW v, NEW j \in 0..last, line[j] \in v <=> line[j] \notin w,
         \A i \in 0..last : i # j => (line[i] \in v <=> line[i] \in w)
  PROVE  SyndromeOf(v, code, line) \in 1..15 /\ code.cases[SyndromeOf(v, code, line)] = j
<1>1. /\ last \in Nat /\ code.parity \in Nat /\ code.parity + 3 = last
      /\ \A c \in 1..4 : code.checks[c] \subseteq 0..code.parity-1
  BY DEF HammingCode
<1> DEFINE Wrong(c) == Bit(Checksum(v, line, code.checks[c]) # (line[code.parity + c - 1] \in v))
<1>2. ASSUME NEW c \in 1..4 PROVE Wrong(c) = Flips(code, j, c)
  <2>1. PICK S : S = {i \in code.checks[c] : line[i] \in w}
    OBVIOUS
  <2>2. PICK T : T = {i \in code.checks[c] : line[i] \in v}
    OBVIOUS
  <2>3. PICK k \in 0..last : k = code.parity + c - 1 /\ k \notin code.checks[c]
    BY <1>1
  <2>4. code.checks[c] \subseteq 0..last
    BY <1>1
  <2>5. IsFiniteSet(S)
    <3>1. IsFiniteSet(0..last)
      BY <1>1, FS_Interval
    <3>2. S \in SUBSET (0..last)
      BY <2>1, <2>4
    <3>3. QED
      BY <3>1, <3>2, FS_Subset
  <2>6. Odd(S) <=> line[k] \in w
    BY <2>1, <2>3 DEF Checked, Checksum
  <2>7. Checksum(v, line, code.checks[c]) = Odd(T)
    BY <2>2, Zenon DEF Checksum
  <2>8. CASE j \in code.checks[c]
    <3>1. Odd(T) <=> ~Odd(S)
      <4>1. \A i : i # j => (i \in T <=> i \in S)
        BY <2>1, <2>2, <2>4
      <4>2. j \in T <=> j \notin S
        BY <2>1, <2>2, <2>8
      <4>3. QED
        BY <2>5, <4>1, <4>2, OddFlips
    <3>2. line[k] \in v <=> line[k] \in w
      BY <2>3, <2>8
    <3>3. Odd(T) # (line[k] \in v)
      BY <2>6, <3>1, <3>2 DEF Odd
    <3>4. Wrong(c) = 1
      BY <2>3, <2>7, <3>3 DEF Bit
    <3>5. QED
      BY <2>8, <3>4 DEF Flips
  <2>9. CASE j = k
    <3>1. T = S
      BY <2>1, <2>2, <2>3, <2>4, <2>9
    <3>2. line[k] \in v <=> line[k] \notin w
      BY <2>9
    <3>3. Odd(T) # (line[k] \in v)
      BY <2>6, <3>1, <3>2 DEF Odd
    <3>4. Wrong(c) = 1
      BY <2>3, <2>7, <3>3 DEF Bit
    <3>5. QED
      BY <2>3, <2>9, <3>4 DEF Flips
  <2>10. CASE j \notin code.checks[c] /\ j # k
    <3>1. T = S
      BY <2>1, <2>2, <2>4, <2>10
    <3>2. line[k] \in v <=> line[k] \in w
      BY <2>10
    <3>3. Odd(T) = (line[k] \in v)
      BY <2>6, <3>1, <3>2 DEF Odd
    <3>4. Wrong(c) = 0
      BY <2>3, <2>7, <3>3 DEF Bit
    <3>5. QED
      BY <2>3, <2>10, <3>4 DEF Flips
  <2>11. QED
    BY <2>8, <2>9, <2>10
<1>3. SyndromeOf(v, code, line) = Wrong(1) + 2 * Wrong(2) + 4 * Wrong(3) + 8 * Wrong(4)
  BY DEF SyndromeOf
<1> HIDE DEF Wrong
<1>4. SyndromeOf(v, code, line)
        = Flips(code, j, 1) + 2 * Flips(code, j, 2) + 4 * Flips(code, j, 3) + 8 * Flips(code, j, 4)
  BY <1>2, <1>3
<1>5. QED
  BY <1>4 DEF HammingCode

(* A line without a wrong bit has no syndrome. *)
LEMMA NoneWrong ==
  ASSUME NEW code, NEW last, HammingCode(code, last),
         NEW w, NEW line, Checked(w, line, code),
         NEW v, \A i \in 0..last : line[i] \in v <=> line[i] \in w
  PROVE  SyndromeOf(v, code, line) = 0
<1> DEFINE Wrong(c) == Bit(Checksum(v, line, code.checks[c]) # (line[code.parity + c - 1] \in v))
<1>1. ASSUME NEW c \in 1..4 PROVE Wrong(c) = 0
  <2>1. code.checks[c] \subseteq 0..last /\ code.parity + c - 1 \in 0..last
    BY DEF HammingCode
  <2>2. {i \in code.checks[c] : line[i] \in v} = {i \in code.checks[c] : line[i] \in w}
    BY <2>1
  <2>3. Checksum(v, line, code.checks[c]) = Checksum(w, line, code.checks[c])
    BY <2>2, Zenon DEF Checksum
  <2>4. PICK k \in 0..last : k = code.parity + c - 1
    BY <2>1
  <2>5. Checksum(w, line, code.checks[c]) <=> line[k] \in w
    BY <2>4 DEF Checked
  <2>6. Checksum(v, line, code.checks[c]) <=> line[k] \in v
    BY <2>3, <2>4, <2>5
  <2>7. Checksum(v, line, code.checks[c]) \in BOOLEAN
    BY DEF Checksum, Odd
  <2>8. Checksum(v, line, code.checks[c]) = (line[k] \in v)
    BY <2>6, <2>7
  <2>9. QED
    BY <2>4, <2>8 DEF Bit
<1>2. SyndromeOf(v, code, line) = Wrong(1) + 2 * Wrong(2) + 4 * Wrong(3) + 8 * Wrong(4)
  BY DEF SyndromeOf
<1> HIDE DEF Wrong
<1>3. QED
  BY <1>1, <1>2

-----------------------------------------------------------------------------
(* A line in which at most one bit differs from a word it is checked in is  *)
(* that of the word after the pass.                                         *)
Differs(w, e, line, i) == ~(line[i] \in w <=> line[i] \in e)

AtMostOne(w, e, line, last) ==
  \A i, j \in 0..last : Differs(w, e, line, i) /\ Differs(w, e, line, j) => i = j

LEMMA PassFixes ==
  ASSUME NEW code, NEW last, HammingCode(code, last), NEW lines, Lines(lines, last),
         NEW line \in lines, NEW e, Checked(e, line, code),
         NEW w, AtMostOne(w, e, line, last), NEW i \in 0..last
  PROVE  line[i] \in Inverted(w, HammingErrors(w, code, lines)) <=> line[i] \in e
<1> DEFINE S(l) == SyndromeOf(w, code, l)
<1>1. PICK errors : errors = HammingErrors(w, code, lines)
  OBVIOUS
<1>2. \A l : S(l) > 0 /\ code.cases[S(l)] # None /\ S(l) \in 1..15
               => code.cases[S(l)] \in 0..last
  BY DEF HammingCode
<1>3. errors = {l[code.cases[S(l)]] : l \in {m \in lines : S(m) > 0 /\ code.cases[S(m)] # None}}
  BY <1>1, Zenon DEF HammingErrors
<1>4. \A l : S(l) \in 0..15
  <2>1. \A b : Bit(b) \in {0, 1}
    BY DEF Bit
  <2>2. QED
    BY <2>1 DEF SyndromeOf
<1> HIDE DEF S
<1>5. line[i] \in errors <=> S(line) > 0 /\ code.cases[S(line)] = i
  <2>1. ASSUME line[i] \in errors PROVE S(line) > 0 /\ code.cases[S(line)] = i
    <3>1. PICK l \in lines : S(l) > 0 /\ code.cases[S(l)] # None /\ line[i] = l[code.cases[S(l)]]
      BY <1>3, <2>1
    <3>2. S(l) \in 1..15
      BY <1>4, <3>1
    <3>3. code.cases[S(l)] \in 0..last
      BY <1>2, <3>1, <3>2
    <3>4. line = l /\ i = code.cases[S(l)]
      BY <3>1, <3>3 DEF Lines
    <3>5. QED
      BY <3>1, <3>4
  <2>2. ASSUME S(line) > 0, code.cases[S(line)] = i PROVE line[i] \in errors
    <3>1. i # None
      BY DEF HammingCode, None
    <3>2. line \in {m \in lines : S(m) > 0 /\ code.cases[S(m)] # None}
      BY <2>2, <3>1
    <3>3. QED
      BY <1>3, <2>2, <3>2
  <2>3. QED
    BY <2>1, <2>2
<1>6. line[i] \in Inverted(w, errors) <=> ~(line[i] \in w <=> line[i] \in errors)
  BY DEF Inverted
<1>7. CASE \E j \in 0..last : Differs(w, e, line, j)
  <2>1. PICK j \in 0..last : Differs(w, e, line, j)
    BY <1>7
  <2>2. \A k \in 0..last : k # j => (line[k] \in w <=> line[k] \in e)
    BY <2>1 DEF AtMostOne, Differs
  <2>3. line[j] \in w <=> line[j] \notin e
    BY <2>1 DEF Differs
  <2>4. S(line) \in 1..15 /\ code.cases[S(line)] = j
    BY <2>2, <2>3, OneWrong DEF S
  <2>5. S(line) > 0
    BY <2>4
  <2>6. line[i] \in errors <=> i = j
    BY <1>5, <2>4, <2>5
  <2>7. QED
    BY <1>1, <1>6, <2>2, <2>3, <2>6, Zenon
<1>8. CASE ~ \E j \in 0..last : Differs(w, e, line, j)
  <2>1. \A k \in 0..last : line[k] \in w <=> line[k] \in e
    BY <1>8 DEF Differs
  <2>2. S(line) = 0
    BY <2>1, NoneWrong DEF S
  <2>3. line[i] \notin errors
    BY <1>5, <2>2
  <2>4. QED
    BY <1>1, <1>6, <2>1, <2>3
<1>9. QED
  BY <1>7, <1>8

(* A pass touches nothing but its lines. *)
LEMMA PassLocal ==
  ASSUME NEW code, NEW last, HammingCode(code, last), NEW lines, NEW w,
         NEW a, \A line \in lines : \A i \in 0..last : line[i] # a
  PROVE  a \in Inverted(w, HammingErrors(w, code, lines)) <=> a \in w
<1> DEFINE S(l) == SyndromeOf(w, code, l)
<1>1. PICK errors : errors = HammingErrors(w, code, lines)
  OBVIOUS
<1>2. \A l : S(l) \in 1..15 /\ code.cases[S(l)] # None => code.cases[S(l)] \in 0..last
  BY DEF HammingCode
<1>3. errors = {l[code.cases[S(l)]] : l \in {m \in lines : S(m) > 0 /\ code.cases[S(m)] # None}}
  BY <1>1, Zenon DEF HammingErrors
<1>4. \A l : S(l) \in 0..15
  <2>1. \A b : Bit(b) \in {0, 1}
    BY DEF Bit
  <2>2. QED
    BY <2>1 DEF SyndromeOf
<1> HIDE DEF S
<1>5. a \notin errors
  <2> SUFFICES ASSUME NEW l \in lines, S(l) > 0, code.cases[S(l)] # None, a = l[code.cases[S(l)]]
               PROVE  FALSE
    BY <1>3
  <2>1. S(l) \in 1..15
    BY <1>4
  <2>2. code.cases[S(l)] \in 0..last
    BY <1>2, <2>1
  <2>3. QED
    BY <2>2
<1>6. QED
  BY <1>1, <1>5 DEF Inverted

(* A line is checked once its parity has joined it. *)
LEMMA ParityChecks ==
  ASSUME NEW code, NEW last, HammingCode(code, last), NEW lines, Lines(lines, last),
         NEW line \in lines, NEW d, \A c \in 1..4 : line[code.parity + c - 1] \notin d
  PROVE  Checked(d \cup HammingParity(d, code, lines), line, code)
<1>1. /\ last \in Nat /\ code.parity \in Nat /\ code.parity + 3 = last
      /\ \A c \in 1..4 : code.checks[c] \subseteq 0..code.parity-1
  BY DEF HammingCode
<1>2. PICK parity : parity = HammingParity(d, code, lines)
  OBVIOUS
<1> DEFINE Set(l) == {l[code.parity + c - 1] : c \in {k \in 1..4 : Checksum(d, l, code.checks[k])}}
<1>3. \A x : x \in parity <=> \E l \in lines, c \in 1..4 :
                                 Checksum(d, l, code.checks[c]) /\ x = l[code.parity + c - 1]
  <2>1. parity = UNION {Set(l) : l \in lines}
    BY <1>2, Zenon DEF HammingParity
  <2>2. \A l, x : x \in Set(l) <=> \E c \in 1..4 :
                      Checksum(d, l, code.checks[c]) /\ x = l[code.parity + c - 1]
    OBVIOUS
  <2> HIDE DEF Set
  <2>3. \A x : x \in parity <=> \E l \in lines : x \in Set(l)
    BY <2>1
  <2> SUFFICES ASSUME NEW x
               PROVE  x \in parity <=> \E l \in lines, c \in 1..4 :
                        Checksum(d, l, code.checks[c]) /\ x = l[code.parity + c - 1]
    OBVIOUS
  <2>4. x \in parity <=> \E l \in lines : x \in Set(l)
    BY <2>3
  <2>5. \A l : x \in Set(l) <=> \E c \in 1..4 : Checksum(d, l, code.checks[c]) /\ x = l[code.parity + c - 1]
    BY <2>2
  <2>6. QED
    BY <2>4, <2>5
<1> HIDE DEF Set
<1> SUFFICES ASSUME NEW c \in 1..4
             PROVE  Checksum(d \cup parity, line, code.checks[c])
                      <=> line[code.parity + c - 1] \in d \cup parity
  BY <1>2 DEF Checked
<1>4. \A k \in 1..4 : code.parity + k - 1 \in 0..last
  BY <1>1
<1>5. line[code.parity + c - 1] \in parity <=> Checksum(d, line, code.checks[c])
  <2>1. ASSUME line[code.parity + c - 1] \in parity PROVE Checksum(d, line, code.checks[c])
    <3>1. PICK l \in lines, k \in 1..4 :
            Checksum(d, l, code.checks[k]) /\ line[code.parity + c - 1] = l[code.parity + k - 1]
      BY <1>3, <2>1
    <3>2. line = l /\ code.parity + c - 1 = code.parity + k - 1
      BY <1>4, <3>1 DEF Lines
    <3>3. c = k
      BY <1>1, <3>2
    <3>4. QED
      BY <3>1, <3>2, <3>3
  <2>2. QED
    BY <1>3, <2>1
<1>6. \A j \in code.checks[c] : line[j] \notin parity
  <2> SUFFICES ASSUME NEW j \in code.checks[c], line[j] \in parity PROVE FALSE
    OBVIOUS
  <2>1. PICK l \in lines, k \in 1..4 : line[j] = l[code.parity + k - 1]
    BY <1>3
  <2>2. j \in 0..last /\ j < code.parity
    BY <1>1
  <2>3. j = code.parity + k - 1
    BY <1>4, <2>1, <2>2 DEF Lines
  <2>4. QED
    BY <1>1, <2>2, <2>3
<1>7. Checksum(d \cup parity, line, code.checks[c]) = Checksum(d, line, code.checks[c])
  <2>1. {j \in code.checks[c] : line[j] \in d \cup parity} = {j \in code.checks[c] : line[j] \in d}
    BY <1>6
  <2>2. QED
    BY <2>1, Zenon DEF Checksum
<1>8. QED
  BY <1>5, <1>7

LEMMA CheckedSame ==
  ASSUME NEW code, NEW last, HammingCode(code, last), NEW line, NEW w, Checked(w, line, code),
         NEW v, \A i \in 0..last : line[i] \in v <=> line[i] \in w
  PROVE  Checked(v, line, code)
<1>1. /\ last \in Nat /\ code.parity \in Nat /\ code.parity + 3 = last
      /\ \A c \in 1..4 : code.checks[c] \subseteq 0..code.parity-1
  BY DEF HammingCode
<1> SUFFICES ASSUME NEW c \in 1..4
             PROVE  Checksum(v, line, code.checks[c]) <=> line[code.parity + c - 1] \in v
  BY DEF Checked
<1>2. code.checks[c] \subseteq 0..last /\ code.parity + c - 1 \in 0..last
  BY <1>1
<1>3. {j \in code.checks[c] : line[j] \in v} = {j \in code.checks[c] : line[j] \in w}
  BY <1>2
<1>4. Checksum(v, line, code.checks[c]) = Checksum(w, line, code.checks[c])
  BY <1>3, Zenon DEF Checksum
<1>5. Checksum(w, line, code.checks[c]) <=> line[code.parity + c - 1] \in w
  BY DEF Checked
<1>6. QED
  BY <1>2, <1>4, <1>5

-----------------------------------------------------------------------------
(***************************************************************************)
(* A word and the one that was sent, e, in which all columns and rows are  *)
(* checked: Spoilt says that they differ in more than one place in no      *)
(* column but c, Left that they do in the parity of that column only.      *)
(***************************************************************************)
Consistent(e) ==
  /\ \A l \in Columns : Checked(e, l, Hamming1393)
  /\ \A l \in Rows : Checked(e, l, Hamming15113)

Spoilt(w, e, c) == \A d \in 0..14 : d # c => AtMostOne(w, e, Column(d), 12)

Left(w, e, c) ==
  /\ \A a \in 1..135 : a \in w <=> a \in e
  /\ \A a \in 136..195 : (a - 1) % 15 # c => (a \in w <=> a \in e)

LEMMA Divided15 ==
  ASSUME NEW a \in 1..195
  PROVE  \E q \in 0..12, m \in 0..14 : m = (a - 1) % 15 /\ 15 * q + m + 1 = a
<1>1. PICK q \in 0..12 : q = (a - 1) \div 15
  OBVIOUS
<1>2. PICK m \in 0..14 : m = (a - 1) % 15
  OBVIOUS
<1>3. 15 * q + m = a - 1
  BY <1>1, <1>2
<1>4. QED
  BY <1>2, <1>3

LEMMA ColumnPlace ==
  ASSUME NEW c \in 0..14, NEW i \in 0..12
  PROVE  Column(c)[i] = 15 * i + c + 1 /\ Column(c)[i] \in 1..195 /\ (Column(c)[i] - 1) % 15 = c
<1>1. Column(c)[i] = 15 * i + c + 1
  BY DEF Column
<1>2. 15 * i + c + 1 \in 1..195 /\ (15 * i + c) % 15 = c /\ 15 * i + c + 1 - 1 = 15 * i + c
  OBVIOUS
<1>3. QED
  BY <1>1, <1>2

LEMMA RowPlace ==
  ASSUME NEW r \in 0..8, NEW i \in 0..14
  PROVE  Row(r)[i] = 15 * r + i + 1 /\ Row(r)[i] \in 1..135 /\ (Row(r)[i] - 1) % 15 = i
<1>1. Row(r)[i] = 15 * r + i + 1
  BY DEF Row
<1>2. 15 * r + i + 1 \in 1..135 /\ (15 * r + i) % 15 = i /\ 15 * r + i + 1 - 1 = 15 * r + i
  OBVIOUS
<1>3. QED
  BY <1>1, <1>2

LEMMA OnColumn ==
  ASSUME NEW a \in 1..195
  PROVE  \E c \in 0..14, i \in 0..12 : c = (a - 1) % 15 /\ Column(c)[i] = a
<1>1. PICK q \in 0..12, m \in 0..14 : m = (a - 1) % 15 /\ 15 * q + m + 1 = a
  BY Divided15, SMTT(30)
<1>2. Column(m)[q] = a
  BY <1>1, ColumnPlace, Zenon
<1>3. QED
  BY <1>1, <1>2

LEMMA OnRow ==
  ASSUME NEW a \in 1..135
  PROVE  \E r \in 0..8, i \in 0..14 : i = (a - 1) % 15 /\ Row(r)[i] = a
<1>1. PICK q \in 0..12, m \in 0..14 : m = (a - 1) % 15 /\ 15 * q + m + 1 = a
  BY Divided15
<1>2. q \in 0..8
  BY <1>1, SMTT(30)
<1>3. Row(q)[m] = a
  BY <1>1, <1>2, RowPlace
<1>4. QED
  BY <1>1, <1>2, <1>3

(* The columns leave errors in one column, in which each row has one place. *)
LEMMA SweepRepairs ==
  ASSUME NEW e, Consistent(e), NEW c \in 0..14, NEW w, Spoilt(w, e, c)
  PROVE  Left(Sweep(w).word, e, c)
<1>1. PICK v : v = Inverted(w, HammingErrors(w, Hamming1393, Columns))
  OBVIOUS
<1>2. PICK u : u = Inverted(v, HammingErrors(v, Hamming15113, Rows))
  OBVIOUS
<1>3. Sweep(w).word = u
  BY <1>1, <1>2 DEF Sweep
<1>4. ASSUME NEW a \in 1..195, (a - 1) % 15 # c PROVE a \in v <=> a \in e
  <2>1. PICK d \in 0..14, i \in 0..12 : d = (a - 1) % 15 /\ Column(d)[i] = a
    BY OnColumn, Zenon
  <2>2. d # c
    BY <1>4, <2>1
  <2>3. PICK l \in Columns : l = Column(d)
    BY DEF Columns
  <2>4. AtMostOne(w, e, l, 12) /\ Checked(e, l, Hamming1393)
    BY <2>2, <2>3 DEF Spoilt, Consistent
  <2>5. l[i] \in Inverted(w, HammingErrors(w, Hamming1393, Columns)) <=> l[i] \in e
    BY <2>1, <2>4, PassFixes, ColumnCode, ColumnLines
  <2>6. QED
    BY <1>1, <2>1, <2>3, <2>5, SMTT(30)
<1>5. ASSUME NEW a \in 1..135 PROVE a \in u <=> a \in e
  <2>1. PICK r \in 0..8, i \in 0..14 : i = (a - 1) % 15 /\ Row(r)[i] = a
    BY OnRow
  <2>2. PICK l \in Rows : l = Row(r)
    BY DEF Rows
  <2>3. AtMostOne(v, e, l, 14)
    <3> SUFFICES ASSUME NEW m \in 0..14, NEW n \in 0..14, Differs(v, e, l, m), Differs(v, e, l, n)
                 PROVE  m = n
      BY DEF AtMostOne
    <3>1. ASSUME NEW k \in 0..14, Differs(v, e, l, k) PROVE k = c
      <4>1. l[k] \in 1..135 /\ (l[k] - 1) % 15 = k
        <5>1. Row(r)[k] \in 1..135 /\ (Row(r)[k] - 1) % 15 = k
          BY <2>1, RowPlace, Zenon
        <5>2. QED
          BY <2>2, <5>1
      <4>2. PICK b \in 1..195 : b = l[k]
        BY <4>1
      <4>3. (b - 1) % 15 = k
        BY <4>1, <4>2
      <4>4. ~(b \in v <=> b \in e)
        BY <3>1, <4>2 DEF Differs
      <4>5. QED
        BY <1>4, <4>3, <4>4, SMTT(30)
    <3>2. QED
      BY <3>1
  <2>4. Checked(e, l, Hamming15113)
    BY DEF Consistent
  <2>5. l[i] \in Inverted(v, HammingErrors(v, Hamming15113, Rows)) <=> l[i] \in e
    BY <2>1, <2>3, <2>4, PassFixes, RowCode, RowLines
  <2>6. QED
    BY <1>2, <2>1, <2>2, <2>5, SMTT(30)
<1>6. ASSUME NEW a \in 136..195, (a - 1) % 15 # c PROVE a \in u <=> a \in e
  <2>1. \A l \in Rows : \A i \in 0..14 : l[i] # a
    <3> SUFFICES ASSUME NEW l \in Rows, NEW i \in 0..14 PROVE l[i] # a
      OBVIOUS
    <3>1. PICK r \in 0..8 : l = Row(r)
      BY DEF Rows
    <3>2. l[i] \in 1..135
      BY <3>1, RowPlace, Zenon
    <3>3. QED
      BY <3>2, SMTT(30)
  <2>2. a \in u <=> a \in v
    BY <1>2, <2>1, PassLocal, RowCode
  <2>3. QED
    BY <1>4, <1>6, <2>2
<1>7. QED
  BY <1>3, <1>5, <1>6 DEF Left

(* What one sweep has left, another does not make worse. *)
LEMMA LeftIsSpoilt ==
  ASSUME NEW e, NEW c \in 0..14, NEW w, Left(w, e, c)
  PROVE  Spoilt(w, e, c)
<1> SUFFICES ASSUME NEW d \in 0..14, d # c, NEW i \in 0..12 PROVE ~Differs(w, e, Column(d), i)
  BY SMTT(30) DEF Spoilt, AtMostOne
<1>1. PICK a \in 1..195 : a = Column(d)[i] /\ (a - 1) % 15 = d
  BY ColumnPlace, Zenon
<1>2. a \in w <=> a \in e
  <2>1. CASE a \in 1..135
    BY <2>1 DEF Left
  <2>2. CASE a \in 136..195
    BY <1>1, <2>2 DEF Left
  <2>3. QED
    BY <2>1, <2>2
<1>3. QED
  BY <1>1, <1>2 DEF Differs

LEMMA SweepsRepair ==
  ASSUME NEW e, Consistent(e), NEW c \in 0..14, NEW w, Spoilt(w, e, c)
  PROVE  Left(DecodeErrorCheck(w), e, c)
<1> DEFINE More(s) == IF s.fixing THEN Sweep(s.word) ELSE s
           IsRounds(r) ==
             r = [count \in 1..MaxSweeps |->
                    IF count = 1 THEN Sweep(w)
                    ELSE LET before == r[count - 1]
                         IN  IF before.fixing THEN Sweep(before.word) ELSE before]
           rounds == CHOOSE r : IsRounds(r)
<1>1. MaxSweeps = 5
  BY DEF MaxSweeps
<1>2. PICK s1, s2, s3, s4, s5 :
        s1 = Sweep(w) /\ s2 = More(s1) /\ s3 = More(s2) /\ s4 = More(s3) /\ s5 = More(s4)
  OBVIOUS
<1>3. \A r : IsRounds(r) <=>
               r = [count \in 1..5 |-> IF count = 1 THEN Sweep(w) ELSE More(r[count - 1])]
  BY <1>1, Zenon
<1> DEFINE whole == [count \in 1..5 |->
                       CASE count = 1 -> s1 [] count = 2 -> s2 [] count = 3 -> s3
                         [] count = 4 -> s4 [] count = 5 -> s5]
<1> HIDE DEF More
<1>4. IsRounds(rounds)
  <2>1. ASSUME NEW count \in 1..5
        PROVE  whole[count] = IF count = 1 THEN Sweep(w) ELSE More(whole[count - 1])
    BY <1>2
  <2>2. whole = [count \in 1..5 |-> IF count = 1 THEN Sweep(w) ELSE More(whole[count - 1])]
    BY <2>1
  <2>3. IsRounds(whole)
    BY <1>3, <2>2, Zenon
  <2>4. QED
    BY <2>3, Zenon
<1>5. /\ rounds[1] = Sweep(w) /\ rounds[2] = More(rounds[1]) /\ rounds[3] = More(rounds[2])
      /\ rounds[4] = More(rounds[3]) /\ rounds[5] = More(rounds[4])
  <2>1. ASSUME NEW r, IsRounds(r)
        PROVE  /\ r[1] = Sweep(w) /\ r[2] = More(r[1]) /\ r[3] = More(r[2])
               /\ r[4] = More(r[3]) /\ r[5] = More(r[4])
    <3>1. r = [count \in 1..5 |-> IF count = 1 THEN Sweep(w) ELSE More(r[count - 1])]
      BY <1>3, <2>1, Zenon
    <3>2. r[1] = Sweep(w) /\ \A count \in 2..5 : r[count] = More(r[count - 1])
      BY <3>1
    <3>3. QED
      BY <3>2
  <2>2. QED
    BY <1>4, <2>1, Zenon
<1>6. DecodeErrorCheck(w) = rounds[5].word
  BY <1>1, Zenon DEF DecodeErrorCheck
<1> HIDE DEF rounds
<1>7. ASSUME NEW s, Left(s.word, e, c) PROVE Left(More(s).word, e, c)
  <2>1. CASE s.fixing
    <3>1. Spoilt(s.word, e, c)
      BY <1>7, LeftIsSpoilt
    <3>2. Left(Sweep(s.word).word, e, c)
      BY <3>1, SweepRepairs
    <3>3. QED
      BY <2>1, <3>2 DEF More
  <2>2. CASE ~s.fixing
    BY <1>7, <2>2 DEF More
  <2>3. QED
    BY <2>1, <2>2
<1>8. Left(rounds[1].word, e, c)
  BY <1>5, SweepRepairs
<1>9. Left(rounds[5].word, e, c)
  <2>1. Left(rounds[2].word, e, c)
    BY <1>5, <1>7, <1>8
  <2>2. Left(rounds[3].word, e, c)
    BY <1>5, <1>7, <2>1
  <2>3. Left(rounds[4].word, e, c)
    BY <1>5, <1>7, <2>2
  <2>4. QED
    BY <1>5, <1>7, <2>3
<1>10. QED
  BY <1>6, <1>9

-----------------------------------------------------------------------------
(* Where the data are, and where not. *)
LEMMA RowOfFirst ==
  ASSUME NEW p \in 0..95, p < 8
  PROVE  DataPosition(p) = p + 4
BY DEF DataPosition

LEMMA RowOfOthers ==
  ASSUME NEW p \in 0..95, p >= 8
  PROVE  \E q \in 0..7, m \in 0..10 :
           p - 8 = 11 * q + m /\ DataPosition(p) = 15 * q + m + 16
<1>1. PICK k \in 0..87 : k = p - 8
  OBVIOUS
<1>2. PICK q, m : q = k \div 11 /\ m = k % 11
  OBVIOUS
<1>3. q \in 0..7 /\ m \in 0..10 /\ 11 * q + m = k
  BY <1>2
<1>4. DataPosition(p) = 15 * q + m + 16
  BY <1>1, <1>2, <1>3 DEF DataPosition
<1>5. QED
  BY <1>1, <1>3, <1>4

(* The data bits are in the first eleven of each row, no two in one place. *)
LEMMA DataPlace ==
  ASSUME NEW p \in 0..95
  PROVE  DataPosition(p) \in 1..135 /\ (DataPosition(p) - 1) % 15 \in 0..10
<1>1. CASE p < 8
  <2>1. DataPosition(p) = p + 4
    BY <1>1, RowOfFirst
  <2>2. \A n \in 3..10 : n % 15 = n
    OBVIOUS
  <2>3. QED
    BY <1>1, <2>1, <2>2
<1>2. CASE p >= 8
  <2>1. PICK q \in 0..7, m \in 0..10 : DataPosition(p) = 15 * q + m + 16
    BY <1>2, RowOfOthers
  <2>2. (15 * q + m + 15) % 15 = m
    OBVIOUS
  <2>3. QED
    BY <2>1, <2>2
<1>3. QED
  BY <1>1, <1>2

LEMMA DataApart ==
  ASSUME NEW p \in 0..95, NEW n \in 0..95, DataPosition(p) = DataPosition(n)
  PROVE  p = n
<1>1. CASE p < 8 /\ n < 8
  BY <1>1, RowOfFirst
<1>2. CASE p >= 8 /\ n >= 8
  <2>1. PICK q \in 0..7, m \in 0..10 : p - 8 = 11 * q + m /\ DataPosition(p) = 15 * q + m + 16
    BY <1>2, RowOfOthers
  <2>2. PICK r \in 0..7, k \in 0..10 : n - 8 = 11 * r + k /\ DataPosition(n) = 15 * r + k + 16
    BY <1>2, RowOfOthers
  <2>3. 15 * q + m = 15 * r + k
    <3>1. 15 * q + m + 16 = 15 * r + k + 16
      BY <2>1, <2>2, Zenon
    <3>2. QED
      BY <3>1
  <2>4. q = r /\ m = k
    BY <2>3
  <2>5. QED
    BY <2>1, <2>2, <2>4
<1>3. ASSUME NEW u \in 0..95, NEW v \in 0..95, u < 8, v >= 8 PROVE DataPosition(u) # DataPosition(v)
  <2>1. PICK q \in 0..7, m \in 0..10 : DataPosition(v) = 15 * q + m + 16
    BY <1>3, RowOfOthers
  <2>2. DataPosition(u) = u + 4
    BY <1>3, RowOfFirst
  <2>3. QED
    BY <1>3, <2>1, <2>2
<1>4. QED
  BY <1>1, <1>2, <1>3

(* The encoder sets the parity of the rows, then that of the columns. *)
LEMMA EncodedConsistent ==
  ASSUME NEW data \in SUBSET (0..95),
         NEW e, e = EncodeErrorCheck(EncodeExtractData(data))
  PROVE  /\ Consistent(e)
         /\ e \in SUBSET (1..195)
         /\ \A p \in 0..95 : DataPosition(p) \in e <=> p \in data
<1>1. PICK d : d = EncodeExtractData(data)
  OBVIOUS
<1>2. \A a \in d : a \in 1..135 /\ (a - 1) % 15 \in 0..10
  <2> SUFFICES ASSUME NEW a \in d PROVE a \in 1..135 /\ (a - 1) % 15 \in 0..10
    OBVIOUS
  <2>1. PICK p \in data : a = DataPosition(p)
    BY <1>1 DEF EncodeExtractData
  <2>2. p \in 0..95
    OBVIOUS
  <2>3. DataPosition(p) \in 1..135 /\ (DataPosition(p) - 1) % 15 \in 0..10
    BY <2>2, DataPlace
  <2>4. QED
    BY <2>1, <2>3, Zenon
<1>3. PICK pr : pr = HammingParity(d, Hamming15113, Rows)
  OBVIOUS
<1>4. PICK w : w = d \cup pr
  OBVIOUS
<1>5. PICK pc : pc = HammingParity(w, Hamming1393, Columns)
  OBVIOUS
<1>6. e = w \cup pc
  BY <1>1, <1>3, <1>4, <1>5, Zenon DEF EncodeErrorCheck
<1>7. \A a \in pr : a \in 1..135 /\ (a - 1) % 15 \in 11..14
  <2> SUFFICES ASSUME NEW a \in pr PROVE a \in 1..135 /\ (a - 1) % 15 \in 11..14
    OBVIOUS
  <2>1. PICK l \in Rows, k \in 1..4 : a = l[Hamming15113.parity + k - 1]
    BY <1>3 DEF HammingParity
  <2>2. PICK i \in 11..14 : i = Hamming15113.parity + k - 1
    BY DEF Hamming15113
  <2>3. PICK r \in 0..8 : l = Row(r)
    BY DEF Rows
  <2>4. i \in 0..14 /\ a = Row(r)[i]
    BY <2>1, <2>2, <2>3, SMTT(30)
  <2>5. Row(r)[i] \in 1..135 /\ (Row(r)[i] - 1) % 15 = i
    BY <2>4, RowPlace
  <2>6. QED
    BY <2>2, <2>4, <2>5
<1>8. \A a \in pc : a \in 136..195
  <2> SUFFICES ASSUME NEW a \in pc PROVE a \in 136..195
    OBVIOUS
  <2>1. PICK l \in Columns, k \in 1..4 : a = l[Hamming1393.parity + k - 1]
    BY <1>5 DEF HammingParity
  <2>2. PICK i \in 9..12 : i = Hamming1393.parity + k - 1
    BY DEF Hamming1393
  <2>3. PICK c \in 0..14 : l = Column(c)
    BY DEF Columns
  <2>4. i \in 0..12 /\ a = Column(c)[i]
    BY <2>1, <2>2, <2>3, SMTT(30)
  <2>5. a = 15 * i + c + 1
    BY <2>4, ColumnPlace, Zenon
  <2>6. QED
    BY <2>2, <2>5
<1>9. \A l \in Rows : Checked(e, l, Hamming15113)
  <2> SUFFICES ASSUME NEW l \in Rows PROVE Checked(e, l, Hamming15113)
    OBVIOUS
  <2>1. PICK r \in 0..8 : l = Row(r)
    BY DEF Rows
  <2>2. \A k \in 1..4 : l[Hamming15113.parity + k - 1] \notin d
    <3> SUFFICES ASSUME NEW k \in 1..4, l[Hamming15113.parity + k - 1] \in d PROVE FALSE
      OBVIOUS
    <3>1. PICK i \in 11..14 : i = Hamming15113.parity + k - 1
      BY DEF Hamming15113
    <3>2. i \in 0..14 /\ Row(r)[i] \in d
      BY <2>1, <3>1, SMTT(30)
    <3>3. (Row(r)[i] - 1) % 15 = i
      BY <3>2, RowPlace, Zenon
    <3>4. (Row(r)[i] - 1) % 15 \in 0..10
      BY <1>2, <3>2
    <3>5. QED
      BY <3>1, <3>3, <3>4
  <2>3. Checked(d \cup HammingParity(d, Hamming15113, Rows), l, Hamming15113)
    BY <2>2, ParityChecks, RowCode, RowLines
  <2>4. Checked(w, l, Hamming15113)
    BY <1>3, <1>4, <2>3
  <2>5. \A i \in 0..14 : l[i] \in e <=> l[i] \in w
    <3>1. ASSUME NEW i \in 0..14 PROVE l[i] \in 1..135
      <4>1. Row(r)[i] \in 1..135
        BY RowPlace
      <4>2. QED
        BY <2>1, <4>1, SMTT(30)
    <3>2. \A a \in pc : a \notin 1..135
      BY <1>8
    <3>3. \A i \in 0..14 : l[i] \notin pc
      BY <3>1, <3>2, ZenonT(60)
    <3>4. QED
      BY <1>6, <3>3, Zenon
  <2>6. QED
    BY <2>4, <2>5, CheckedSame, RowCode
<1>10. \A l \in Columns : Checked(e, l, Hamming1393)
  <2> SUFFICES ASSUME NEW l \in Columns PROVE Checked(e, l, Hamming1393)
    OBVIOUS
  <2>1. PICK c \in 0..14 : l = Column(c)
    BY DEF Columns
  <2>2. \A k \in 1..4 : l[Hamming1393.parity + k - 1] \notin w
    <3> SUFFICES ASSUME NEW k \in 1..4, l[Hamming1393.parity + k - 1] \in w PROVE FALSE
      OBVIOUS
    <3>1. PICK i \in 9..12 : i = Hamming1393.parity + k - 1
      BY DEF Hamming1393
    <3>2. i \in 0..12 /\ Column(c)[i] \in w
      BY <2>1, <3>1
    <3>3. Column(c)[i] = 15 * i + c + 1
      BY <3>2, ColumnPlace, Zenon
    <3>4. Column(c)[i] \in 1..135
      BY <1>2, <1>4, <1>7, <3>2
    <3>5. QED
      BY <3>1, <3>3, <3>4
  <2>3. Checked(w \cup HammingParity(w, Hamming1393, Columns), l, Hamming1393)
    BY <2>2, ParityChecks, ColumnCode, ColumnLines
  <2>4. QED
    BY <1>5, <1>6, <2>3
<1>11. e \in SUBSET (1..195)
  <2>1. \A a \in d : a \in 1..195
    BY <1>2
  <2>2. \A a \in pr : a \in 1..195
    BY <1>7
  <2>3. \A a \in pc : a \in 1..195
    BY <1>8
  <2>4. QED
    BY <1>4, <1>6, <2>1, <2>2, <2>3
<1>12. ASSUME NEW p \in 0..95 PROVE DataPosition(p) \in e <=> p \in data
  <2>1. PICK a : a = DataPosition(p)
    OBVIOUS
  <2>2. a \in 1..135 /\ (a - 1) % 15 \in 0..10
    BY <2>1, DataPlace
  <2>3. a \notin pr
    BY <1>7, <2>2
  <2>4. a \notin pc
    BY <1>8, <2>2
  <2>5. a \in d <=> p \in data
    <3>1. ASSUME a \in d PROVE p \in data
      <4>1. PICK n \in data : a = DataPosition(n)
        BY <1>1, <3>1 DEF EncodeExtractData
      <4>2. n \in 0..95
        BY <4>1, SMTT(30)
      <4>3. n = p
        BY <2>1, <4>1, <4>2, DataApart
      <4>4. QED
        BY <4>1, <4>3
    <3>2. QED
      BY <1>1, <2>1, <3>1 DEF EncodeExtractData
  <2>6. QED
    BY <1>4, <1>6, <2>1, <2>3, <2>4, <2>5
<1>13. QED
  BY <1>9, <1>10, <1>11, <1>12 DEF Consistent

-----------------------------------------------------------------------------
(* Places in the burst and places in the matrix. *)
Back(x) == (x * 13) % 196

LEMMA InterleavedBack ==
  ASSUME NEW a \in 0..195
  PROVE  /\ Interleaved(a) \in 0..195
         /\ Back(Interleaved(a)) = a
         /\ Interleaved(a) = 0 => a = 0
<1>1. PICK x \in 0..195 : x = (a * 181) % 196
  OBVIOUS
<1>2. (x * 13) % 196 = a
  BY <1>1, SMTT(30)
<1>3. x = 0 => a = 0
  BY <1>2
<1>4. Interleaved(a) = x
  BY <1>1 DEF Interleaved, Bits
<1>5. Back(x) = a
  BY <1>2 DEF Back
<1>6. QED
  BY <1>1, <1>3, <1>4, <1>5

LEMMA InterleavedApart ==
  ASSUME NEW a \in 0..195, NEW b \in 0..195, Interleaved(a) = Interleaved(b)
  PROVE  a = b
<1>1. Back(Interleaved(a)) = a /\ Back(Interleaved(b)) = b
  BY InterleavedBack
<1>2. QED
  BY <1>1, Zenon

LEMMA BackQuotient ==
  ASSUME NEW x \in 0..195
  PROVE  \E q \in 0..13 : 13 * x = 196 * q + Back(x)
<1>1. PICK q \in 0..13 : q = (x * 13) \div 196
  OBVIOUS
<1>2. PICK a : a = (x * 13) % 196
  OBVIOUS
<1>3. 13 * x = 196 * q + a
  BY <1>1, <1>2
<1>4. a = Back(x)
  BY <1>2, Zenon DEF Back
<1>5. QED
  BY <1>1, <1>3, <1>4

LEMMA Multiples ==
  ASSUME NEW d \in 0..7, NEW s \in -13..13, NEW t \in -12..12, t # 0,
         13 * d = 196 * s + 15 * t
  PROVE  d = 7
<1>1. s = 0 \/ s = 1
  OBVIOUS
<1>2. CASE s = 0
  <2>1. 13 * d = 15 * t
    BY <1>2
  <2>2. QED
    BY <2>1
<1>3. CASE s = 1
  <2>1. 13 * d = 196 + 15 * t
    BY <1>3
  <2>2. QED
    BY <2>1
<1>4. QED
  BY <1>1, <1>2, <1>3

(* Two errors in a column, in the order they stand in the burst. *)
TwoHits(hits, c, i, j) ==
  LET x == Interleaved(15 * i + c + 1)
      y == Interleaved(15 * j + c + 1)
  IN  i # j /\ x \in hits /\ y \in hits /\ x <= y

Close(hits) == \A m, n \in hits : m - n < 8

(* Two places of one column within eight bits of the burst are seven apart. *)
LEMMA SameColumn ==
  ASSUME NEW hits \in SUBSET (0..195), Close(hits),
         NEW c \in 0..14, NEW i \in 0..12, NEW j \in 0..12, TwoHits(hits, c, i, j)
  PROVE  Interleaved(15 * j + c + 1) - Interleaved(15 * i + c + 1) = 7
<1>1. PICK a \in 1..195 : a = 15 * i + c + 1
  OBVIOUS
<1>2. PICK b \in 1..195 : b = 15 * j + c + 1
  OBVIOUS
<1>3. PICK x \in 0..195 : x = Interleaved(a) /\ x \in hits
  BY <1>1 DEF TwoHits
<1>4. PICK y \in 0..195 : y = Interleaved(b) /\ y \in hits
  BY <1>2 DEF TwoHits
<1>5. i # j /\ x <= y /\ y - x < 8
  BY <1>1, <1>2, <1>3, <1>4, SMTT(30) DEF TwoHits, Close
<1>6. Back(x) = a /\ Back(y) = b
  <2>1. a \in 0..195 /\ b \in 0..195
    BY <1>1, <1>2
  <2>2. QED
    BY <1>3, <1>4, <2>1, InterleavedBack
<1>7. PICK q \in 0..13 : 13 * x = 196 * q + a
  <2>1. PICK q \in 0..13 : 13 * x = 196 * q + Back(x)
    BY <1>3, BackQuotient, ZenonT(60)
  <2>2. QED
    BY <1>6, <2>1, Zenon
<1>8. PICK r \in 0..13 : 13 * y = 196 * r + b
  <2>1. PICK r \in 0..13 : 13 * y = 196 * r + Back(y)
    BY <1>4, BackQuotient, ZenonT(60)
  <2>2. QED
    BY <1>6, <2>1, Zenon
<1>9. PICK d \in 0..7 : d = y - x
  BY <1>3, <1>4, <1>5, SMTT(30)
<1>10. PICK s \in -13..13 : s = r - q
  BY <1>7, <1>8
<1>11. PICK t \in -12..12 : t = j - i /\ t # 0
  BY <1>5
<1>12. 13 * d = 196 * s + 15 * t
  BY <1>1, <1>2, <1>3, <1>4, <1>7, <1>8, <1>9, <1>10, <1>11
<1>13. d = 7
  BY <1>9, <1>10, <1>11, <1>12, Multiples
<1>14. QED
  BY <1>1, <1>2, <1>3, <1>4, <1>9, <1>13

LEMMA ThreeOfTwo ==
  ASSUME NEW S, IsFiniteSet(S), Cardinality(S) <= 2,
         NEW x \in S, NEW y \in S, NEW z \in S, x # y, y # z, x # z
  PROVE  FALSE
<1>1. Cardinality(S) \in Nat
  BY FS_CardinalityType
<1>2. IsFiniteSet(S \ {x}) /\ Cardinality(S \ {x}) = Cardinality(S) - 1
  BY FS_RemoveElement
<1>3. IsFiniteSet((S \ {x}) \ {y}) /\ Cardinality((S \ {x}) \ {y}) = Cardinality(S \ {x}) - 1
  BY <1>2, FS_RemoveElement
<1>4. Cardinality((S \ {x}) \ {y}) = 0
  BY <1>1, <1>2, <1>3, FS_CardinalityType
<1>5. (S \ {x}) \ {y} = {}
  BY <1>3, <1>4, FS_EmptySet
<1>6. QED
  BY <1>5

LEMMA TwoHitsInColumn ==
  ASSUME NEW hits \in SUBSET (0..195), NEW e, NEW w,
         \A a \in 1..195 : ~(a \in w <=> a \in e) => Interleaved(a) \in hits,
         NEW c \in 0..14, ~AtMostOne(w, e, Column(c), 12)
  PROVE  \E i, j \in 0..12 : TwoHits(hits, c, i, j)
<1>1. PICK i \in 0..12, j \in 0..12 :
        Differs(w, e, Column(c), i) /\ Differs(w, e, Column(c), j) /\ i # j
  BY DEF AtMostOne
<1>2. ASSUME NEW k \in 0..12, Differs(w, e, Column(c), k)
      PROVE  Interleaved(15 * k + c + 1) \in hits
  <2>1. Column(c)[k] = 15 * k + c + 1
    BY ColumnPlace, Zenon
  <2>2. PICK a \in 1..195 : a = 15 * k + c + 1
    OBVIOUS
  <2>3. ~(a \in w <=> a \in e)
    BY <1>2, <2>1, <2>2, Zenon DEF Differs
  <2>4. QED
    BY <2>2, <2>3, SMTT(30)
<1>3. Interleaved(15 * i + c + 1) \in hits /\ Interleaved(15 * j + c + 1) \in hits
  BY <1>1, <1>2
<1>4. PICK x \in 0..195 : x = Interleaved(15 * i + c + 1)
  BY <1>3, Zenon
<1>5. PICK y \in 0..195 : y = Interleaved(15 * j + c + 1)
  BY <1>3, Zenon
<1>6. CASE x <= y
  BY <1>1, <1>3, <1>4, <1>5, <1>6, Zenon DEF TwoHits
<1>7. CASE y <= x
  BY <1>1, <1>3, <1>4, <1>5, <1>7, Zenon DEF TwoHits
<1>8. x <= y \/ y <= x
  BY <1>4, <1>5
<1>9. QED
  BY <1>6, <1>7, <1>8

LEMMA NotTwice ==
  ASSUME NEW hits \in SUBSET (0..195), Correctable(hits),
         NEW c \in 0..14, NEW d \in 0..14, c # d,
         NEW i \in 0..12, NEW j \in 0..12, TwoHits(hits, c, i, j),
         NEW k \in 0..12, NEW l \in 0..12, TwoHits(hits, d, k, l)
  PROVE  FALSE
<1>1. PICK a \in 1..195 : a = 15 * i + c + 1
  OBVIOUS
<1>2. PICK b \in 1..195 : b = 15 * j + c + 1
  OBVIOUS
<1>3. PICK m \in 1..195 : m = 15 * k + d + 1
  OBVIOUS
<1>4. PICK n \in 1..195 : n = 15 * l + d + 1
  OBVIOUS
<1>5. i # j /\ k # l
  BY DEF TwoHits
<1>6. a # b /\ a # m /\ b # m /\ a # n
  BY <1>1, <1>2, <1>3, <1>4, <1>5
<1>7. PICK x \in 0..195 : x = Interleaved(a) /\ x \in hits
  BY <1>1 DEF TwoHits
<1>8. PICK y \in 0..195 : y = Interleaved(b) /\ y \in hits
  BY <1>2 DEF TwoHits
<1>9. PICK u \in 0..195 : u = Interleaved(m) /\ u \in hits
  BY <1>3 DEF TwoHits
<1>10. PICK v \in 0..195 : v = Interleaved(n) /\ v \in hits
  BY <1>4 DEF TwoHits
<1>11. a \in 0..195 /\ b \in 0..195 /\ m \in 0..195 /\ n \in 0..195
  BY <1>1, <1>2, <1>3, <1>4, SMTT(30)
<1>12. x # y /\ x # u /\ y # u /\ x # v
  BY <1>6, <1>7, <1>8, <1>9, <1>10, <1>11, InterleavedApart, ZenonT(60)
<1>13. x <= y /\ u <= v
  BY <1>1, <1>2, <1>3, <1>4, <1>7, <1>8, <1>9, <1>10 DEF TwoHits
<1>14. CASE Cardinality(hits) <= 2
  <2>1. IsFiniteSet(hits)
    <3>1. IsFiniteSet(0..195)
      <4>1. 0 \in Int /\ 195 \in Int
        OBVIOUS
      <4>2. QED
        BY <4>1, FS_Interval, Zenon
    <3>2. QED
      BY <3>1, FS_Subset, Zenon
  <2>2. QED
    BY <1>7, <1>8, <1>9, <1>12, <1>14, <2>1, ThreeOfTwo
<1>15. CASE Close(hits)
  <2>1. y - x < 8 /\ v - u < 8 /\ y - u < 8 /\ v - x < 8
    BY <1>7, <1>8, <1>9, <1>10, <1>15, SMTT(30) DEF Close
  <2>2. Interleaved(15 * j + c + 1) - Interleaved(15 * i + c + 1) = 7
    BY <1>15, SameColumn, ZenonT(60)
  <2>3. Interleaved(15 * l + d + 1) - Interleaved(15 * k + d + 1) = 7
    BY <1>15, SameColumn, ZenonT(60)
  <2>4. y - x = 7
    BY <1>1, <1>2, <1>7, <1>8, <2>2, Zenon
  <2>5. v - u = 7
    BY <1>3, <1>4, <1>9, <1>10, <2>3, Zenon
  <2>6. QED
    BY <1>7, <1>8, <1>9, <1>10, <1>12, <2>1, <2>4, <2>5
<1>16. QED
  BY <1>14, <1>15 DEF Correctable, Close

(* Correctable errors leave at most one column with more than one. *)
LEMMA OneColumn ==
  ASSUME NEW hits \in SUBSET (0..195), Correctable(hits),
         NEW e, NEW w,
         \A a \in 1..195 : ~(a \in w <=> a \in e) => Interleaved(a) \in hits
  PROVE  \E c \in 0..14 : Spoilt(w, e, c)
<1>1. ASSUME NEW c \in 0..14, NEW d \in 0..14, c # d,
             ~AtMostOne(w, e, Column(c), 12), ~AtMostOne(w, e, Column(d), 12)
      PROVE  FALSE
  <2>1. PICK i \in 0..12, j \in 0..12 : TwoHits(hits, c, i, j)
    BY <1>1, TwoHitsInColumn
  <2>2. PICK k \in 0..12, l \in 0..12 : TwoHits(hits, d, k, l)
    BY <1>1, TwoHitsInColumn
  <2>3. QED
    BY <1>1, <2>1, <2>2, NotTwice, Zenon
<1>2. CASE \E c \in 0..14 : ~AtMostOne(w, e, Column(c), 12)
  BY <1>1, <1>2 DEF Spoilt
<1>3. CASE \A c \in 0..14 : AtMostOne(w, e, Column(c), 12)
  <2>1. 0 \in 0..14
    OBVIOUS
  <2>2. QED
    BY <1>3, <2>1 DEF Spoilt
<1>4. QED
  BY <1>2, <1>3

(***************************************************************************)
(* Two wrong bits anywhere in the 196, or any number within eight of them, *)
(* are corrected by the rate 1/2 code, whatever the 96 bits are.           *)
(***************************************************************************)
THEOREM BPTCSurvives ==
  ASSUME NEW data \in SUBSET (0..95), NEW hits \in SUBSET (0..195), Correctable(hits)
  PROVE  BPTCDecode(Inverted(BPTCEncode(data), hits)) = data
<1>1. PICK e : e = EncodeErrorCheck(EncodeExtractData(data))
  OBVIOUS
<1>2. PICK block : block = Inverted(EncodeInterleave(e), hits)
  OBVIOUS
<1>3. PICK w : w = DecodeDeInterleave(block)
  OBVIOUS
<1>4. /\ Consistent(e) /\ e \in SUBSET (1..195)
      /\ \A p \in 0..95 : DataPosition(p) \in e <=> p \in data
  BY <1>1, EncodedConsistent
<1>5. ASSUME NEW a \in 1..195, ~(a \in w <=> a \in e) PROVE Interleaved(a) \in hits
  <2>1. PICK x : x = Interleaved(a)
    BY SMTT(30)
  <2>2. x # 0
    <3>1. a \in 0..195 /\ a # 0
      OBVIOUS
    <3>2. QED
      BY <2>1, <3>1, InterleavedBack
  <2>3. a \in w <=> x \in block
    BY <1>3, <2>1, <2>2 DEF DecodeDeInterleave, Bits
  <2>4. x \in EncodeInterleave(e) <=> a \in e
    <3>1. ASSUME x \in EncodeInterleave(e) PROVE a \in e
      <4>1. PICK b \in e : x = Interleaved(b)
        BY <3>1 DEF EncodeInterleave
      <4>2. b \in 0..195 /\ a \in 0..195
        BY <1>4, <4>1, SMTT(30)
      <4>3. a = b
        BY <2>1, <4>1, <4>2, InterleavedApart, Zenon
      <4>4. QED
        BY <4>1, <4>3
    <3>2. QED
      BY <2>1, <3>1 DEF EncodeInterleave
  <2>5. QED
    BY <1>2, <1>5, <2>1, <2>3, <2>4 DEF Inverted
<1>6. PICK c \in 0..14 : Spoilt(w, e, c)
  BY <1>5, OneColumn
<1>7. PICK v : v = DecodeErrorCheck(w)
  OBVIOUS
<1>8. Left(v, e, c)
  BY <1>4, <1>6, <1>7, SweepsRepair
<1>9. ASSUME NEW p \in 0..95 PROVE DataPosition(p) \in v <=> p \in data
  <2>1. DataPosition(p) \in 1..135
    BY DataPlace, SMTT(30)
  <2>2. DataPosition(p) \in v <=> DataPosition(p) \in e
    BY <1>8, <2>1 DEF Left
  <2>3. QED
    BY <1>4, <2>2, Zenon
<1>10. BPTCDecode(Inverted(BPTCEncode(data), hits)) = DecodeExtractData(v)
  BY <1>1, <1>2, <1>3, <1>7, Zenon DEF BPTCDecode, BPTCEncode
<1>11. DecodeExtractData(v) = data
  <2>1. DecodeExtractData(v) = {p \in 0..95 : DataPosition(p) \in v}
    BY DEF DecodeExtractData, DataBits
  <2>2. \A p : p \in {q \in 0..95 : DataPosition(q) \in v} <=> p \in data
    BY <1>9, ZenonT(60)
  <2>3. QED
    BY <2>1, <2>2, Zenon
<1>12. QED
  BY <1>10, <1>11

-----------------------------------------------------------------------------
(***************************************************************************)
(* The places of a burst: the block, the slot type and the sync pattern    *)
(* share none.                                                             *)
(***************************************************************************)
OfBlock(x)    == x \in 0..97 \/ x \in 166..263
OfSlotType(x) == x \in 98..107 \/ x \in 156..165
OfSync(x)     == x \in 108..155

LEMMA BlockPlace ==
  ASSUME NEW n \in 0..195
  PROVE  OfBlock(BurstBit(n))
BY DEF OfBlock, BurstBit, NumDibits

LEMMA BlockApart ==
  ASSUME NEW m \in 0..195, NEW n \in 0..195, BurstBit(m) = BurstBit(n)
  PROVE  m = n
BY DEF BurstBit, NumDibits

LEMMA SlotPlaceIn ==
  ASSUME NEW n \in 0..19
  PROVE  OfSlotType(SlotPlace(n))
BY DEF OfSlotType, SlotPlace

LEMMA SlotApart ==
  ASSUME NEW m \in 0..19, NEW n \in 0..19, SlotPlace(m) = SlotPlace(n)
  PROVE  m = n
BY DEF SlotPlace

LEMMA SyncPlace ==
  ASSUME NEW x \in {108 + n : n \in SyncData}
  PROVE  OfSync(x)
<1>1. SyncData \subseteq 0..47
  BY DEF SyncData
<1>2. PICK n \in SyncData : x = 108 + n
  OBVIOUS
<1>3. QED
  BY <1>1, <1>2 DEF OfSync

LEMMA OnePart ==
  ASSUME NEW x
  PROVE  ~(OfBlock(x) /\ OfSlotType(x)) /\ ~(OfBlock(x) /\ OfSync(x)) /\ ~(OfSlotType(x) /\ OfSync(x))
BY DEF OfBlock, OfSlotType, OfSync

(* The value of the slot type, and what is made of it. *)
SlotValue(colorCode, dataType) ==
  {b + 4 : b \in colorCode} \cup {b \in 0..3 : (dataType \div 2^b) % 2 = 1}

LEMMA NibbleRead ==
  ASSUME NEW dataType \in 0..15
  PROVE  Value({b \in 0..3 : (dataType \div 2^b) % 2 = 1}) = dataType
<1>1. PICK bits : bits = {b \in 0..3 : (dataType \div 2^b) % 2 = 1}
  OBVIOUS
<1>2. /\ 0 \in bits <=> dataType % 2 = 1
      /\ 1 \in bits <=> (dataType \div 2) % 2 = 1
      /\ 2 \in bits <=> (dataType \div 4) % 2 = 1
      /\ 3 \in bits <=> (dataType \div 8) % 2 = 1
      /\ 4 \notin bits /\ 5 \notin bits /\ 6 \notin bits /\ 7 \notin bits
  <2>1. 2^0 = 1 /\ 2^1 = 2 /\ 2^2 = 4 /\ 2^3 = 8
    OBVIOUS
  <2>2. QED
    BY <1>1, <2>1
<1>3. Value(bits) = (IF 0 \in bits THEN 1 ELSE 0) + (IF 1 \in bits THEN 2 ELSE 0)
                      + (IF 2 \in bits THEN 4 ELSE 0) + (IF 3 \in bits THEN 8 ELSE 0)
  <2>1. 2^0 = 1 /\ 2^1 = 2 /\ 2^2 = 4 /\ 2^3 = 8
    OBVIOUS
  <2>2. Value(bits) = 0 + (IF 0 \in bits THEN 2^0 ELSE 0) + (IF 1 \in bits THEN 2^1 ELSE 0)
                        + (IF 2 \in bits THEN 2^2 ELSE 0) + (IF 3 \in bits THEN 2^3 ELSE 0)
                        + (IF 4 \in bits THEN 2^4 ELSE 0) + (IF 5 \in bits THEN 2^5 ELSE 0)
                        + (IF 6 \in bits THEN 2^6 ELSE 0) + (IF 7 \in bits THEN 2^7 ELSE 0)
    BY ValueIs
  <2>3. QED
    BY <1>2, <2>1, <2>2
<1>4. Value(bits) = dataType
  BY <1>2, <1>3
<1>5. QED
  BY <1>1, <1>4

-----------------------------------------------------------------------------
LEMMA ThreeBits ==
  ASSUME NEW x \in 0..18, NEW y \in 0..18, NEW z \in 0..18
  PROVE  {x, y, z} \in Patterns(Golay2087)
<1>1. Golay2087.radius = 3 /\ Golay2087.bits = 19
  BY DEF Golay2087
<1>2. PICK at : at = [k \in 1..3 |-> IF k = 1 THEN x ELSE IF k = 2 THEN y ELSE z]
  OBVIOUS
<1>3. at \in [1..3 -> 0..18] /\ {x, y, z} = {at[k] : k \in DOMAIN at}
  BY <1>2
<1>4. QED
  BY <1>1, <1>3 DEF Patterns

LEMMA FewHits ==
  ASSUME NEW hits \in SUBSET (0..18), Cardinality(hits) <= 3
  PROVE  {18 - n : n \in hits} \in Patterns(Golay2087)
<1>1. IsFiniteSet(hits)
  <2>1. 0 \in Int /\ 18 \in Int
    OBVIOUS
  <2>2. IsFiniteSet(0..18)
    BY <2>1, FS_Interval
  <2>3. QED
    BY <2>2, FS_Subset
<1>2. CASE hits = {}
  BY <1>2 DEF Patterns
<1>3. CASE hits # {}
  <2>1. PICK a, b, c \in hits : hits = {a, b, c}
    BY <1>1, <1>3, UpToThree, ZenonT(60)
  <2>2. PICK x \in 0..18, y \in 0..18, z \in 0..18 : x = 18 - a /\ y = 18 - b /\ z = 18 - c
    <3>1. a \in 0..18 /\ b \in 0..18 /\ c \in 0..18
      BY <2>1
    <3>2. QED
      BY <3>1
  <2>3. {18 - n : n \in hits} = {x, y, z}
    BY <2>1, <2>2, Zenon
  <2>4. {x, y, z} \in Patterns(Golay2087)
    BY <2>2, ThreeBits
  <2>5. QED
    BY <2>3, <2>4, SMTT(30)
<1>4. QED
  BY <1>2, <1>3

LEMMA EncodedPlaces ==
  ASSUME NEW data
  PROVE  BPTCEncode(data \cap (0..DataBits-1)) \in SUBSET (0..195)
<1>1. PICK bits : bits = data \cap (0..DataBits-1)
  OBVIOUS
<1>2. PICK e : e = EncodeErrorCheck(EncodeExtractData(bits))
  OBVIOUS
<1>3. e \in SUBSET (1..195)
  <2>1. bits \in SUBSET (0..95)
    BY <1>1 DEF DataBits
  <2>2. QED
    BY <1>2, <2>1, EncodedConsistent
<1>4. \A a \in 1..195 : Interleaved(a) \in 0..195
  BY DEF Interleaved, Bits
<1>5. QED
  BY <1>1, <1>2, <1>3, <1>4, ZenonT(60) DEF BPTCEncode, EncodeInterleave

(* A data burst, of the library or of a radio. *)
BurstOf(block, colorCode, dataType) ==
  block \cup EncodeSlotType(colorCode, dataType) \cup {108 + n : n \in SyncData}

(* It has the slot type at its places, whatever its block. *)
LEMMA SlotTypeSent ==
  ASSUME NEW block, \A x \in block : OfBlock(x), NEW colorCode, NEW dataType, NEW b \in 0..19
  PROVE  SlotPlace(19 - b) \in BurstOf(block, colorCode, dataType)
           <=> SlotPlace(19 - b) \in EncodeSlotType(colorCode, dataType)
<1>1. PICK place : place = SlotPlace(19 - b)
  OBVIOUS
<1>2. OfSlotType(place)
  <2>1. 19 - b \in 0..19
    OBVIOUS
  <2>2. QED
    BY <1>1, <2>1, SlotPlaceIn
<1>3. place \notin {108 + n : n \in SyncData}
  BY <1>2, SyncPlace, OnePart
<1>4. place \notin block
  BY <1>2, OnePart
<1>5. QED
  BY <1>1, <1>3, <1>4, Zenon DEF BurstOf

LEMMA SlotValueBits ==
  ASSUME NEW colorCode \in SUBSET (0..3), NEW dataType
  PROVE  SlotValue(colorCode, dataType) \in SUBSET (0..7)
<1>1. \A b \in colorCode : b + 4 \in 0..7
  OBVIOUS
<1>2. QED
  BY <1>1 DEF SlotValue

(* The word of the slot type: the value's codeword and a bit behind it. *)
LEMMA SlotWord ==
  ASSUME NEW colorCode \in SUBSET (0..3), NEW dataType
  PROVE  \E word \in SUBSET (0..19) :
           /\ EncodeSlotType(colorCode, dataType) = {SlotPlace(19 - b) : b \in word}
           /\ \A k \in 0..18 : k + 1 \in word <=> k \in CodeWord(Golay2087, SlotValue(colorCode, dataType))
<1>1. PICK value : value = SlotValue(colorCode, dataType)
  OBVIOUS
<1>2. PICK code : code = CodeWord(Golay2087, value)
  OBVIOUS
<1>3. code \in SUBSET (0..18)
  <2>1. value \in SUBSET (0..7)
    BY <1>1, SlotValueBits
  <2>2. QED
    BY <1>2, <2>1, CodeWordDivides
<1>4. PICK word : word = CyclicEncode(Golay2087, value)
  OBVIOUS
<1>5. EncodeSlotType(colorCode, dataType) = {SlotPlace(19 - b) : b \in word}
  <2>1. colorCode \cap (0..3) = colorCode
    OBVIOUS
  <2>2. QED
    BY <1>1, <1>4, <2>1, Zenon DEF EncodeSlotType, SlotValue
<1>6. word \in SUBSET (0..19) /\ \A k \in 0..18 : k + 1 \in word <=> k \in code
  <2>1. word = Shifted(code, 1) \cup (IF Cardinality(code) % 2 = 1 THEN {0} ELSE {})
    BY <1>2, <1>4 DEF CyclicEncode
  <2>2. PICK parity : parity = (IF Cardinality(code) % 2 = 1 THEN {0} ELSE {}) /\ parity \in {{}, {0}}
    OBVIOUS
  <2>3. word = {b + 1 : b \in code} \cup parity
    BY <2>1, <2>2, Zenon DEF Shifted
  <2>4. QED
    BY <1>3, <2>2, <2>3
<1>7. QED
  BY <1>1, <1>2, <1>5, <1>6, Zenon

(* The slot type is read through three wrong bits.  (The parity bit, which *)
(* the decoder shifts out, is not among its places.)                       *)
LEMMA SlotTypeRead ==
  ASSUME NEW block, \A x \in block : OfBlock(x),
         NEW colorCode \in SUBSET (0..3), NEW dataType \in 0..15,
         NEW at, Cardinality({n \in 0..18 : SlotPlace(n) \in at}) <= 3
  PROVE  DecodeSlotType(Inverted(BurstOf(block, colorCode, dataType), at))
           = SlotValue(colorCode, dataType)
<1>1. PICK value : value = SlotValue(colorCode, dataType)
  OBVIOUS
<1>2. value \in SUBSET (0..7)
  BY <1>1, SlotValueBits
<1>3. PICK sent : sent = BurstOf(block, colorCode, dataType)
  OBVIOUS
<1>4. PICK hits : hits = {n \in 0..18 : SlotPlace(n) \in at}
  OBVIOUS
<1>5. PICK p : p = {18 - n : n \in hits}
  OBVIOUS
<1>6. p \in Patterns(Golay2087)
  BY <1>4, <1>5, FewHits
<1>7. PICK received : received = {b \in 0..19 : SlotPlace(19 - b) \in Inverted(sent, at)}
  OBVIOUS
<1>8. PICK code : code = CodeWord(Golay2087, value)
  OBVIOUS
<1>9. code \in SUBSET (0..18)
  BY <1>2, <1>8, CodeWordDivides
<1>10. PICK word \in SUBSET (0..19) :
         /\ EncodeSlotType(colorCode, dataType) = {SlotPlace(19 - b) : b \in word}
         /\ \A k \in 0..18 : k + 1 \in word <=> k \in code
  BY <1>1, <1>8, SlotWord, Zenon
<1>11. ASSUME NEW k \in 0..18
       PROVE  k + 1 \in received <=> ~(k \in code <=> k \in p)
  <2>1. PICK place : place = SlotPlace(18 - k)
    OBVIOUS
  <2>2. k + 1 \in 0..19 /\ 19 - (k + 1) = 18 - k /\ 18 - k \in 0..18
    OBVIOUS
  <2>3. k + 1 \in received <=> ~(place \in sent <=> place \in at)
    BY <1>7, <2>1, <2>2 DEF Inverted
  <2>4. place \in sent <=> k \in code
    <3>1. place \in sent <=> place \in {SlotPlace(19 - b) : b \in word}
      BY <1>3, <1>10, <2>1, <2>2, SlotTypeSent
    <3>2. ASSUME place \in {SlotPlace(19 - b) : b \in word} PROVE k + 1 \in word
      <4>1. PICK b \in 0..19 : b \in word /\ place = SlotPlace(19 - b)
        BY <1>10, <3>2
      <4>2. 19 - b \in 0..19 /\ 18 - k \in 0..19
        OBVIOUS
      <4>3. 19 - b = 18 - k
        BY <2>1, <4>1, <4>2, SlotApart
      <4>4. b = k + 1
        BY <4>3
      <4>5. QED
        BY <4>1, <4>4
    <3>3. k + 1 \in word => place \in {SlotPlace(19 - b) : b \in word}
      BY <2>1, <2>2
    <3>4. QED
      BY <1>10, <3>1, <3>2, <3>3
  <2>5. place \in at <=> k \in p
    <3>1. place \in at <=> 18 - k \in hits
      BY <1>4, <2>1, <2>2
    <3>2. 18 - k \in hits <=> k \in p
      BY <1>4, <1>5
    <3>3. QED
      BY <3>1, <3>2
  <2>6. QED
    BY <2>3, <2>4, <2>5, Zenon
<1>12. {b - 1 : b \in received \ {0}} = Plus(code, p)
  <2>1. p \in SUBSET (0..18)
    BY <1>4, <1>5
  <2>2. \A b \in received \ {0} : b - 1 \in 0..18 /\ (b - 1) + 1 = b
    BY <1>7
  <2>3. \A k : k \in Plus(code, p) <=> k \in 0..18 /\ ~(k \in code <=> k \in p)
    BY <1>9, <2>1 DEF Plus
  <2>4. ASSUME NEW k \in Plus(code, p) PROVE k \in {b - 1 : b \in received \ {0}}
    <3>1. k \in 0..18 /\ k + 1 \in received
      BY <1>11, <2>3
    <3>2. k + 1 # 0 /\ k = (k + 1) - 1
      BY <3>1
    <3>3. QED
      BY <3>1, <3>2
  <2>5. ASSUME NEW b \in received \ {0} PROVE b - 1 \in Plus(code, p)
    <3>1. PICK k \in 0..18 : k = b - 1 /\ k + 1 = b
      BY <2>2
    <3>2. QED
      BY <1>11, <2>3, <3>1
  <2>6. QED
    BY <2>4, <2>5
<1>13. CyclicDecode(Golay2087, GolayTable, received) = value
  BY <1>2, <1>6, <1>8, <1>12, GolayDecodes
<1>14. QED
  BY <1>1, <1>3, <1>7, <1>13, Zenon DEF DecodeSlotType

LEMMA SlotTypePlaces ==
  ASSUME NEW colorCode \in SUBSET (0..3), NEW dataType
  PROVE  \A x \in EncodeSlotType(colorCode, dataType) : OfSlotType(x)
<1>1. PICK bits \in SUBSET (0..19) : EncodeSlotType(colorCode, dataType) = {SlotPlace(19 - b) : b \in bits}
  BY SlotWord, Zenon
<1>2. ASSUME NEW b \in bits PROVE OfSlotType(SlotPlace(19 - b))
  <2>1. 19 - b \in 0..19
    BY <1>1
  <2>2. QED
    BY <2>1, SlotPlaceIn
<1>3. QED
  BY <1>1, <1>2

(* It has the block at the block's. *)
LEMMA BlockSent ==
  ASSUME NEW block, NEW colorCode \in SUBSET (0..3), NEW dataType, NEW place, OfBlock(place)
  PROVE  place \in BurstOf(block, colorCode, dataType) <=> place \in block
<1>1. place \notin EncodeSlotType(colorCode, dataType)
  BY SlotTypePlaces, OnePart
<1>2. place \notin {108 + k : k \in SyncData}
  BY SyncPlace, OnePart
<1>3. QED
  BY <1>1, <1>2, Zenon DEF BurstOf

(* A burst is 264 bits. *)
LEMMA BurstPlaces ==
  ASSUME NEW block, \A x \in block : OfBlock(x), NEW colorCode \in SUBSET (0..3), NEW dataType
  PROVE  BurstOf(block, colorCode, dataType) \in SUBSET (0..263)
<1>1. \A x : OfBlock(x) \/ OfSlotType(x) \/ OfSync(x) => x \in 0..263
  BY DEF OfBlock, OfSlotType, OfSync
<1>2. \A x \in EncodeSlotType(colorCode, dataType) : OfSlotType(x)
  BY SlotTypePlaces
<1>3. \A x \in {108 + n : n \in SyncData} : OfSync(x)
  BY SyncPlace
<1>4. ASSUME NEW x \in BurstOf(block, colorCode, dataType) PROVE x \in 0..263
  BY <1>1, <1>2, <1>3, Zenon DEF BurstOf
<1>5. QED
  BY <1>4

(* What the library sends. *)
BlockBurst(packet) == {BurstBit(n) : n \in BPTCEncode(PacketBuffer(packet) \cap (0..DataBits-1))}

LEMMA EncodedBurst ==
  ASSUME NEW packet, NEW colorCode
  PROVE  /\ EncodeDMR(packet, colorCode) = BurstOf(BlockBurst(packet), colorCode, packet.dataType)
         /\ \A x \in BlockBurst(packet) : OfBlock(x)
<1>1. PICK word : word = BPTCEncode(PacketBuffer(packet) \cap (0..DataBits-1))
  OBVIOUS
<1>2. word \in SUBSET (0..195)
  BY <1>1, EncodedPlaces
<1>3. ASSUME NEW n \in word PROVE OfBlock(BurstBit(n))
  <2>1. n \in 0..195
    BY <1>2
  <2>2. QED
    BY <2>1, BlockPlace
<1>4. BlockBurst(packet) = {BurstBit(n) : n \in word}
  BY <1>1 DEF BlockBurst
<1>5. EncodeDMR(packet, colorCode) = BurstOf(BlockBurst(packet), colorCode, packet.dataType)
  BY Zenon DEF EncodeDMR, BurstOf, BlockBurst
<1>6. QED
  BY <1>3, <1>4, <1>5

(* The block of a burst is read with the bits inverted that were hit. *)
LEMMA BlockRead ==
  ASSUME NEW packet, NEW colorCode \in SUBSET (0..3), NEW at,
         PacketBuffer(packet) \in SUBSET (0..95)
  PROVE  BlockOf(Inverted(EncodeDMR(packet, colorCode), at))
           = Inverted(BPTCEncode(PacketBuffer(packet)), {n \in 0..195 : BurstBit(n) \in at})
<1>1. PICK word : word = BPTCEncode(PacketBuffer(packet) \cap (0..DataBits-1))
  OBVIOUS
<1>2. word \in SUBSET (0..195)
  BY <1>1, EncodedPlaces, ZenonT(60)
<1>3. PacketBuffer(packet) \cap (0..DataBits-1) = PacketBuffer(packet)
  BY DEF DataBits
<1>4. PICK sent : sent = EncodeDMR(packet, colorCode)
  OBVIOUS
<1>5. ASSUME NEW n \in 0..195 PROVE BurstBit(n) \in sent <=> n \in word
  <2>1. PICK place : place = BurstBit(n)
    OBVIOUS
  <2>2. OfBlock(place)
    BY <2>1, BlockPlace
  <2>3. place \in sent <=> place \in {BurstBit(k) : k \in word}
    <3>1. PICK block : block = BlockBurst(packet) /\ block = {BurstBit(k) : k \in word}
      BY <1>1 DEF BlockBurst
    <3>2. sent = BurstOf(block, colorCode, packet.dataType)
      BY <1>4, <3>1, EncodedBurst
    <3>3. place \in BurstOf(block, colorCode, packet.dataType) <=> place \in block
      BY <2>2, BlockSent
    <3>4. QED
      BY <3>1, <3>2, <3>3, Zenon
  <2>4. ASSUME place \in {BurstBit(k) : k \in word} PROVE n \in word
    <3>1. PICK k \in word : place = BurstBit(k)
      BY <2>4
    <3>2. k \in 0..195
      BY <1>2, <3>1, SMTT(30)
    <3>3. k = n
      BY <2>1, <3>1, <3>2, BlockApart, Zenon
    <3>4. QED
      BY <3>1, <3>3
  <2>5. QED
    BY <2>1, <2>3, <2>4
<1>6. BlockOf(Inverted(sent, at)) = Inverted(word, {n \in 0..195 : BurstBit(n) \in at})
  <2>1. PICK hits : hits = {n \in 0..195 : BurstBit(n) \in at}
    OBVIOUS
  <2>2. BlockOf(Inverted(sent, at)) = {n \in 0..195 : BurstBit(n) \in Inverted(sent, at)}
    BY DEF BlockOf, Bits
  <2>3. \A n \in 0..195 : BurstBit(n) \in Inverted(sent, at) <=> n \in Inverted(word, hits)
    BY <1>5, <2>1, Zenon DEF Inverted
  <2>4. \A n \in Inverted(word, hits) : n \in 0..195
    BY <1>2, <2>1 DEF Inverted
  <2>5. {n \in 0..195 : BurstBit(n) \in Inverted(sent, at)} = Inverted(word, hits)
    BY <2>3, <2>4, ZenonT(60)
  <2>6. QED
    BY <2>1, <2>2, <2>5
<1>7. QED
  BY <1>1, <1>3, <1>4, <1>6

LEMMA Halves ==
  ASSUME NEW limit \in 1..95, NEW first \in SUBSET (0..limit-1), NEW last \in SUBSET (limit..95)
  PROVE  first \cup last \in SUBSET (0..95)
OBVIOUS

(* What getBuffer makes of a packet are 96 bits. *)
LEMMA PacketBits ==
  ASSUME NEW packet, WellFormed(packet)
  PROVE  PacketBuffer(packet) \in SUBSET (0..95)
<1>1. PICK written : written = WriteFields(LayoutOf(packet.class), packet.fields)
  OBVIOUS
<1>2. CASE packet.class = "Raw"
  <2>1. packet.fields.data \in SUBSET (0..95)
    BY <1>2 DEF WellFormed, BlockBits
  <2>2. packet.dataType \notin {1, 2}
    BY <1>2 DEF WellFormed, TellsClass
  <2>3. PacketBuffer(packet) = packet.fields.data
    BY <1>2, <2>2, Zenon DEF PacketBuffer
  <2>4. QED
    BY <2>1, <2>3
<1>3. CASE packet.class # "Raw" /\ packet.dataType \in {1, 2}
  <2>1. LayoutOf(packet.class) = LinkControl
    BY <1>3 DEF WellFormed, TellsClass, LayoutOf
  <2>2. written \in SUBSET (0..72-1)
    BY <1>1, <2>1, SoundVoice, WrittenBelow
  <2>3. VoiceParity(written, packet.dataType) \in SUBSET (72..95)
    BY ParityLast
  <2>4. PacketBuffer(packet) = written \cup VoiceParity(written, packet.dataType)
    BY <1>1, <1>3 DEF PacketBuffer
  <2>5. PICK parity : PacketBuffer(packet) = written \cup parity /\ parity \in SUBSET (72..95)
    BY <2>3, <2>4
  <2>6. 72 \in 1..95
    OBVIOUS
  <2>7. written \cup parity \in SUBSET (0..95)
    BY <2>2, <2>5, <2>6, Halves
  <2>8. QED
    BY <2>5, <2>7
<1>4. CASE packet.class # "Raw" /\ packet.dataType \in {0, 3, 6}
  <2>1. Sound(LayoutOf(packet.class), 80)
    BY <1>4, SoundVoice, SoundCSBK, SoundHeaders DEF WellFormed, TellsClass, LayoutOf
  <2>2. written \in SUBSET (0..80-1)
    BY <1>1, <2>1, WrittenBelow
  <2>3. Crc(written, packet.dataType) \in SUBSET (80..95)
    BY <1>4, CrcLast
  <2>4. PacketBuffer(packet) = written \cup Crc(written, packet.dataType)
    BY <1>1, <1>4 DEF PacketBuffer
  <2>5. PICK parity : PacketBuffer(packet) = written \cup parity /\ parity \in SUBSET (80..95)
    BY <2>3, <2>4
  <2>6. 80 \in 1..95
    OBVIOUS
  <2>7. written \cup parity \in SUBSET (0..95)
    BY <2>2, <2>5, <2>6, Halves
  <2>8. QED
    BY <2>5, <2>7
<1>5. QED
  BY <1>2, <1>3, <1>4 DEF WellFormed, TellsClass

(* Of the slot type, the colour code and the data type. *)
LEMMA SlotValueRead ==
  ASSUME NEW colorCode \in SUBSET (0..3), NEW dataType \in 0..15,
         NEW code, code = SlotValue(colorCode, dataType)
  PROVE  /\ Value(code \cap (0..3)) = dataType
         /\ {b - 4 : b \in code \ (0..3)} = colorCode
         /\ code # Undecided
<1>1. PICK nibble : nibble = {b \in 0..3 : (dataType \div 2^b) % 2 = 1} /\ nibble \subseteq 0..3
  OBVIOUS
<1>2. PICK colours : colours = {b + 4 : b \in colorCode} /\ colours \subseteq 4..7
  <2>1. \A b \in colorCode : b + 4 \in 4..7
    OBVIOUS
  <2>2. QED
    BY <2>1
<1>3. code = colours \cup nibble
  BY <1>1, <1>2, Zenon DEF SlotValue
<1>4. code \cap (0..3) = nibble /\ code \ (0..3) = colours
  BY <1>1, <1>2, <1>3
<1>5. Value(code \cap (0..3)) = dataType
  BY <1>1, <1>4, NibbleRead
<1>6. {b - 4 : b \in colours} = colorCode
  <2>1. \A b \in colorCode : (b + 4) - 4 = b
    OBVIOUS
  <2>2. QED
    BY <1>2, <2>1, ZenonT(60)
<1>7. code # Undecided
  <2>1. -1 \notin code
    BY <1>1, <1>2, <1>3
  <2>2. QED
    BY <2>1 DEF Undecided
<1>8. QED
  BY <1>4, <1>5, <1>6, <1>7

(***************************************************************************)
(* A burst is read as the packet it carries, whatever the packet and the   *)
(* colour code, through three wrong bits of its slot type and those of its *)
(* block the rate 1/2 code corrects.                                       *)
(***************************************************************************)
LEMMA BurstRead ==
  ASSUME NEW packet, WellFormed(packet), NEW colorCode \in SUBSET (0..3), NEW at,
         Cardinality({n \in 0..18 : SlotPlace(n) \in at}) <= 3,
         Correctable({n \in 0..195 : BurstBit(n) \in at}),
         NEW q, PacketFrom(PacketBuffer(packet), packet.dataType) = <<q>>
  PROVE  DecodeDMR(Inverted(EncodeDMR(packet, colorCode), at))
           = [kind |-> "dmr", colorCode |-> colorCode, packet |-> q]
<1>1. PICK burst : burst = Inverted(EncodeDMR(packet, colorCode), at)
  OBVIOUS
<1>2. PICK dataType \in (0..15) \ {8} : dataType = packet.dataType
  BY DEF WellFormed, TellsClass
<1>3. PICK code : code = DecodeSlotType(burst)
  OBVIOUS
<1>4. code = SlotValue(colorCode, dataType)
  <2>1. PICK block : block = BlockBurst(packet) /\ \A x \in block : OfBlock(x)
    BY EncodedBurst
  <2>2. burst = Inverted(BurstOf(block, colorCode, dataType), at)
    BY <1>1, <1>2, <2>1, EncodedBurst
  <2>3. DecodeSlotType(Inverted(BurstOf(block, colorCode, dataType), at)) = SlotValue(colorCode, dataType)
    BY <1>2, <2>1, SlotTypeRead
  <2>4. QED
    BY <1>3, <2>2, <2>3
<1>5. /\ Value(code \cap (0..3)) = dataType
      /\ {b - 4 : b \in code \ (0..3)} = colorCode
      /\ code # Undecided
  BY <1>2, <1>4, SlotValueRead
<1>6. BPTCDecode(BlockOf(burst)) = PacketBuffer(packet)
  <2>1. PICK data : data = PacketBuffer(packet) /\ data \in SUBSET (0..95)
    BY PacketBits
  <2>2. PICK hits : hits = {n \in 0..195 : BurstBit(n) \in at} /\ hits \in SUBSET (0..195)
    OBVIOUS
  <2>3. BlockOf(burst) = Inverted(BPTCEncode(data), hits)
    BY <1>1, <2>1, <2>2, BlockRead
  <2>4. Correctable(hits)
    BY <2>2
  <2>5. BPTCDecode(Inverted(BPTCEncode(data), hits)) = data
    BY <2>1, <2>2, <2>4, BPTCSurvives
  <2>6. QED
    BY <2>1, <2>3, <2>5
<1>7. PICK packets : packets = PacketFrom(BPTCDecode(BlockOf(burst)), dataType)
  OBVIOUS
<1>8. packets = <<q>> /\ packets # << >> /\ packets[1] = q
  BY <1>2, <1>6, <1>7
<1>9. PICK decoded : decoded = << BPTCDecode(BlockOf(burst)) >>
  OBVIOUS
<1>10. decoded # << >> /\ decoded[1] = BPTCDecode(BlockOf(burst))
  BY <1>9
<1>11. DecodeDMR(burst) = [kind |-> "dmr", colorCode |-> colorCode, packet |-> packets[1]]
  <2>1. dataType # 8
    BY <1>2
  <2>2. QED
    BY <1>3, <1>5, <1>7, <1>8, <1>9, <1>10, <2>1, Zenon DEF DecodeDMR
<1>12. QED
  BY <1>1, <1>8, <1>11

-----------------------------------------------------------------------------
(* The burst lies between the fields of its frame. *)
LEMMA SoundFrame == Sound(VoiceData, 408) /\ Elsewhere(VoiceData, 128..391)
<1>1. Sound(VoiceData, 408)
  BY SMT DEF Sound, RowFits, Apart, NotWritten, VoiceData
<1>2. \A r \in VoiceData : r[4] \in Nat /\ r[3] \in Nat /\ (r[4] + r[3] <= 128 \/ r[4] >= 392)
  BY SMT DEF VoiceData
<1>3. ASSUME NEW r \in VoiceData, NEW x \in 128..391 PROVE x \notin r[4]..r[4]+r[3]-1
  BY <1>2, SMTT(30)
<1>4. QED
  BY <1>1, <1>3 DEF Elsewhere

LEMMA FieldsBeside ==
  ASSUME NEW fields, NEW x \in 128..391
  PROVE  x \notin WriteFields(VoiceData, fields)
<1> SUFFICES ASSUME x \in WriteFields(VoiceData, fields) PROVE FALSE
  OBVIOUS
<1>1. PICK s \in VoiceData : /\ s[5] # NotWritten
                             /\ \E k \in fields[s[1]] \cap (s[2]..s[2]+s[3]-1) :
                                  x = s[5] + s[3] - 1 - (k - s[2])
  BY Written
<1>2. RowFits(s, 408)
  BY <1>1, SoundFrame DEF Sound
<1>3. x \in s[4]..s[4]+s[3]-1
  BY <1>1, <1>2 DEF RowFits
<1>4. QED
  BY <1>1, <1>3, SoundFrame, Zenon DEF Elsewhere

(* The places of a burst, in its frame. *)
InFrame(places) == {128 + n : n \in places}

LEMMA FramePlaces ==
  ASSUME NEW places \in SUBSET (0..263)
  PROVE  /\ InFrame(places) \in SUBSET (128..391)
         /\ \A n \in 0..263 : 128 + n \in InFrame(places) <=> n \in places
<1>1. ASSUME NEW x \in InFrame(places) PROVE x \in 128..391
  BY DEF InFrame
<1>2. ASSUME NEW n \in 0..263 PROVE 128 + n \in InFrame(places) <=> n \in places
  BY DEF InFrame
<1>3. QED
  BY <1>1, <1>2

(* Inverting bits of a burst leaves it a burst. *)
LEMMA StillBurst ==
  ASSUME NEW burst \in SUBSET (0..263), NEW at \in SUBSET (0..263)
  PROVE  Inverted(burst, at) \in SUBSET (0..263)
<1>1. ASSUME NEW x \in Inverted(burst, at) PROVE x \in 0..263
  BY <1>1, Zenon DEF Inverted
<1>2. QED
  BY <1>1

(* What is inverted in the burst is inverted in the frame, and nothing else. *)
DamageMoves(fields, burst, at) ==
    Inverted(WriteFields(VoiceData, fields) \cup InFrame(burst), InFrame(at))
        = WriteFields(VoiceData, fields) \cup InFrame(Inverted(burst, at))

LEMMA FrameDamaged ==
  ASSUME NEW fields, NEW burst \in SUBSET (0..263), NEW at \in SUBSET (0..263)
  PROVE  DamageMoves(fields, burst, at)
<1>1. PICK written : written = WriteFields(VoiceData, fields)
  OBVIOUS
<1>2. \A x \in 128..391 : x \notin written
  BY <1>1, FieldsBeside
<1>3. PICK moved, places : moved = InFrame(burst) /\ places = InFrame(at)
  OBVIOUS
<1>4. PICK wrong : wrong = Inverted(burst, at) /\ wrong \in SUBSET (0..263)
  BY StillBurst
<1>5. /\ moved \in SUBSET (128..391) /\ places \in SUBSET (128..391)
      /\ InFrame(wrong) \in SUBSET (128..391)
  BY <1>3, <1>4, FramePlaces
<1>6. ASSUME NEW x \in 128..391 PROVE x \in InFrame(wrong) <=> ~(x \in moved <=> x \in places)
  <2>1. PICK n \in 0..263 : x = 128 + n
    <3>1. x - 128 \in 0..263 /\ x = 128 + (x - 128)
      OBVIOUS
    <3>2. QED
      BY <3>1
  <2>2. (x \in moved <=> n \in burst) /\ (x \in places <=> n \in at) /\ (x \in InFrame(wrong) <=> n \in wrong)
    BY <1>3, <1>4, <2>1, FramePlaces, SMTT(30)
  <2>3. n \in wrong <=> ~(n \in burst <=> n \in at)
    BY <1>4 DEF Inverted
  <2>4. QED
    BY <2>2, <2>3, Zenon
<1>7. Inverted(written \cup moved, places) = written \cup InFrame(wrong)
  <2>1. PICK after : after = InFrame(wrong)
    OBVIOUS
  <2>2. \A x : x \in places => x \in 128..391
    BY <1>5
  <2>3. \A x : x \in moved => x \in 128..391
    BY <1>5
  <2>4. \A x : x \in after => x \in 128..391
    BY <1>5, <2>1
  <2>5. \A x \in 128..391 : x \in after <=> ~(x \in moved <=> x \in places)
    BY <1>6, <2>1
  <2>6. \A x : x \in Inverted(written \cup moved, places) <=> x \in written \cup after
    BY <1>2, <2>2, <2>3, <2>4, <2>5 DEF Inverted
  <2>7. QED
    BY <2>1, <2>6, Zenon
<1>8. QED
  BY <1>1, <1>3, <1>4, <1>7, Zenon DEF DamageMoves

(* Fields and burst of a frame are read as they were written. *)
LEMMA FrameRead ==
  ASSUME NEW fields, FieldsFit(VoiceData, fields), NEW burst \in SUBSET (0..263),
         NEW buffer, buffer = WriteFields(VoiceData, fields) \cup InFrame(burst)
  PROVE  ReadFields(VoiceData, buffer) = fields /\ Cut(buffer, BurstStart, BurstBits) = burst
<1>1. PICK beyond : beyond = InFrame(burst)
  OBVIOUS
<1>2. /\ beyond \in SUBSET (128..391)
      /\ \A n \in 0..263 : 128 + n \in beyond <=> n \in burst
  BY <1>1, FramePlaces
<1>3. Elsewhere(VoiceData, beyond)
  BY <1>2, SoundFrame DEF Elsewhere
<1>4. ASSUME NEW f \in {row[1] : row \in VoiceData}
      PROVE  ReadField(VoiceData, buffer, f) = fields[f]
  <2>1. f # "payload"
    BY DEF VoiceData
  <2>2. f \in DOMAIN fields
    BY DEF FieldsFit
  <2>3. Readable(VoiceData, VoiceData, fields, f)
    BY <2>1, <2>2 DEF Readable, FieldsFit
  <2>4. QED
    BY <1>1, <1>3, <2>3, SoundFrame, FieldReads
<1>5. ReadFields(VoiceData, buffer) = fields
  <2>1. fields = [f \in {row[1] : row \in VoiceData} |-> fields[f]]
    BY DEF FieldsFit
  <2>2. QED
    BY <1>4, <2>1 DEF ReadFields
<1>6. Cut(buffer, BurstStart, BurstBits) = burst
  <2>1. PICK written : written = WriteFields(VoiceData, fields)
    OBVIOUS
  <2>2. \A x \in 128..391 : x \notin written
    BY <2>1, FieldsBeside
  <2>3. written \in SUBSET (0..408-1)
    BY <2>1, SoundFrame, WrittenBelow
  <2>4. buffer = written \cup beyond
    BY <1>1, <2>1
  <2>5. \A x : x \in Cut(buffer, 128, 264) <=> \E p \in buffer : p >= 128 /\ p < 128 + 264 /\ x = p - 128
    BY DEF Cut
  <2>6. ASSUME NEW x \in Cut(buffer, 128, 264) PROVE x \in burst
    <3>1. PICK p \in buffer : p >= 128 /\ p < 128 + 264 /\ x = p - 128
      BY <2>5, <2>6
    <3>2. p \in 128..391
      BY <1>2, <2>3, <2>4, <3>1
    <3>3. p \in beyond
      BY <2>2, <2>4, <3>1, <3>2
    <3>4. x \in 0..263 /\ 128 + x = p
      BY <3>1, <3>2
    <3>5. QED
      BY <1>2, <3>3, <3>4
  <2>7. ASSUME NEW x \in burst PROVE x \in Cut(buffer, 128, 264)
    <3>1. PICK p \in 128..391 : p = 128 + x /\ p >= 128 /\ p < 128 + 264 /\ x = p - 128
      <4>1. x \in 0..263
        OBVIOUS
      <4>2. QED
        BY <4>1
    <3>2. p \in beyond
      BY <1>2, <3>1
    <3>3. QED
      BY <2>4, <2>5, <3>1, <3>2, SMTT(30)
  <2>8. QED
    BY <2>6, <2>7, ZenonT(60) DEF BurstStart, BurstBits
<1>7. QED
  BY <1>5, <1>6

(* A frame with a data burst is read as its fields and what the burst is   *)
(* read as, with the bits inverted that were hit.                          *)
LEMMA FrameArrives ==
  ASSUME message \in Messages, Carried, got # <<>>, message.kind \in {"data", "rate34"},
         NEW sent \in SUBSET (0..263),
         Encoded = WriteFields(VoiceData, message.frame.fields) \cup InFrame(sent)
  PROVE  /\ hit \in SUBSET (0..263)
         /\ got[1] = [fields |-> message.frame.fields, data |-> DecodeDMR(Inverted(sent, hit))]
<1>1. PICK fields : fields = message.frame.fields
  OBVIOUS
<1>2. /\ FieldsFit(VoiceData, fields) /\ Value(fields.frame_type) = 2
      /\ \A places \in Damages(message) : places \subseteq 0..BurstBits-1
  BY <1>1, MessagesAssumption, ZenonT(60)
<1>3. hit \in SUBSET (0..263)
  <2>1. hit = {} \/ hit \in Damages(message)
    BY DEF Carried
  <2>2. BurstBits - 1 = 263
    BY DEF BurstBits
  <2>3. QED
    BY <1>2, <2>1, <2>2
<1>4. DamageStart = 128
  BY DEF DamageStart, HasBurst, BurstStart
<1>5. PICK burst : burst = Inverted(sent, hit) /\ burst \in SUBSET (0..263)
  <2>1. PICK at \in SUBSET (0..263) : at = hit
    BY <1>3
  <2>2. QED
    BY <2>1, StillBurst
<1>6. PICK buffer : buffer = air[1] /\ buffer = WriteFields(VoiceData, fields) \cup InFrame(burst)
  <2>1. air[1] = Inverted(Encoded, InFrame(hit))
    BY <1>4 DEF Carried, Damaged, InFrame
  <2>2. PICK at \in SUBSET (0..263) : at = hit
    BY <1>3
  <2>3. DamageMoves(fields, sent, at)
    BY <2>2, FrameDamaged
  <2>4. InFrame(at) = InFrame(hit) /\ Inverted(sent, at) = burst
    BY <1>5, <2>2, Zenon
  <2>5. QED
    BY <1>1, <2>1, <2>3, <2>4, Zenon DEF DamageMoves
<1>7. ReadFields(VoiceData, buffer) = fields /\ Cut(buffer, BurstStart, BurstBits) = burst
  BY <1>2, <1>5, <1>6, FrameRead
<1>8. got[1] = [fields |-> fields, data |-> DecodeDMR(burst)]
  <2>1. got[1] = VoiceDataFrom(buffer)
    <3>1. Decoded = VoiceDataFrom(air[1])
      BY Zenon DEF Decoded
    <3>2. got = <<Decoded>>
      BY Zenon DEF Carried
    <3>3. QED
      BY <1>6, <3>1, <3>2
  <2>2. QED
    BY <1>2, <1>7, <2>1, Zenon DEF VoiceDataFrom
<1>9. QED
  BY <1>1, <1>3, <1>5, <1>8

-----------------------------------------------------------------------------
(***************************************************************************)
(* A PDU of any class, with any values in the widths of its fields, in a   *)
(* frame with any fields, arrives as it was sent through three wrong bits  *)
(* in its slot type and, in its block, two anywhere or any within eight:   *)
(* the frame's fields and the colour code too, whatever else is hit of the *)
(* burst.                                                                  *)
(***************************************************************************)
THEOREM DataSurvivesAlways == Spec => []DataSurvives
<1>1. message \in Messages /\ Carried => DataSurvives
  <2> SUFFICES ASSUME message \in Messages, Carried,
                      Received("data"), SlotTypeHolds, Correctable(PayloadHits)
               PROVE  SamePDU
    BY DEF DataSurvives
  <2>1. PICK fields, packet, colorCode :
          /\ fields = message.frame.fields
          /\ packet = message.frame.data.packet
          /\ colorCode = message.frame.data.colorCode
    OBVIOUS
  <2>2. message.kind = "data" /\ got # <<>>
    BY DEF Received
  <2>3. message.frame.data.kind = "dmr" /\ colorCode \in SUBSET (0..3) /\ WellFormed(packet)
    BY <2>1, <2>2, MessagesAssumption, ZenonT(60)
  <2>4. PICK sent : sent = EncodeDMR(packet, colorCode) /\ sent \in SUBSET (0..263)
    BY <2>3, EncodedBurst, BurstPlaces
  <2>5. Encoded = WriteFields(VoiceData, fields) \cup InFrame(sent)
    <3>1. Encoded = VoiceDataBuffer(message.frame)
      BY <2>2, Zenon DEF Encoded
    <3>2. EncodeBurst(message.frame.data) = sent
      BY <2>1, <2>3, <2>4 DEF EncodeBurst
    <3>3. QED
      BY <2>1, <3>1, <3>2 DEF VoiceDataBuffer, BurstStart, InFrame
  <2>6. got[1] = [fields |-> fields, data |-> DecodeDMR(Inverted(sent, hit))]
    BY <2>1, <2>2, <2>4, <2>5, FrameArrives
  <2>7. PICK q : PacketFrom(PacketBuffer(packet), packet.dataType) = <<q>> /\ SamePacket(packet, q)
    BY <2>3, PacketReadBack
  <2>8. DecodeDMR(Inverted(sent, hit)) = [kind |-> "dmr", colorCode |-> colorCode, packet |-> q]
    <3>1. Cardinality({n \in 0..18 : SlotPlace(n) \in hit}) <= 3
      BY DEF SlotTypeHolds, SlotHits
    <3>2. Correctable({n \in 0..195 : BurstBit(n) \in hit})
      BY DEF PayloadHits, Bits
    <3>3. QED
      BY <2>3, <2>4, <2>7, <3>1, <3>2, BurstRead
  <2>9. QED
    BY <2>1, <2>3, <2>6, <2>7, <2>8 DEF SamePDU, Sent
<1>2. QED
  BY <1>1, LinkCarries, PTL

-----------------------------------------------------------------------------
(***************************************************************************)
(* Values computed one from the other: induction over an interval.         *)
(***************************************************************************)
(* Induction from m to n, over a set. *)
LEMMA IntervalInduction ==
  ASSUME NEW m \in Nat, NEW n \in Nat, NEW T, m \in T, \A k \in m+1..n : k - 1 \in T => k \in T
  PROVE  \A k \in m..n : k \in T
<1> SUFFICES ASSUME (m..n) \ T # {} PROVE FALSE
  OBVIOUS
<1> DEFINE left == (m..n) \ T
<1>1. left \subseteq Nat
  OBVIOUS
<1>2. PICK x \in left : \A y \in left : <<y, x>> \notin OpToRel(<, Nat)
  BY <1>1, WFMin, NatLessThanWellFounded
<1>3. x # m /\ x \in m+1..n
  BY <1>1
<1>4. x - 1 \in m..n /\ <<x - 1, x>> \in OpToRel(<, Nat)
  BY <1>1, <1>3 DEF OpToRel
<1>5. x - 1 \in T
  BY <1>1, <1>2, <1>4
<1>6. QED
  BY <1>1, <1>3, <1>5

(* A value that is computed from the one before, from m to n. *)
Steps(r, first, step, m, n) ==
  r[m] = first /\ \A k \in m+1..n : r[k] = step[<<k, r[k - 1]>>]

Keeps(S, first, step, m, n) ==
  /\ m \in Nat /\ n \in Nat /\ m <= n
  /\ first \in S
  /\ \A k \in m+1..n, v \in S : step[<<k, v>>] \in S

LEMMA Iterated ==
  ASSUME NEW m, NEW n, NEW S, NEW first, NEW step, Keeps(S, first, step, m, n)
  PROVE  \E r \in [m..n -> S] : Steps(r, first, step, m, n)
<1> USE DEF Keeps
<1>1. PICK T : T = {k \in m..n : \E r \in [m..k -> S] : Steps(r, first, step, m, k)}
  OBVIOUS
<1>2. m \in T
  <2>1. PICK r : r = [k \in m..m |-> first]
    OBVIOUS
  <2>2. r \in [m..m -> S] /\ Steps(r, first, step, m, m)
    BY <2>1 DEF Steps
  <2>3. QED
    BY <1>1, <2>2
<1>3. ASSUME NEW k \in m+1..n, k - 1 \in T PROVE k \in T
  <2>1. PICK r \in [m..k-1 -> S] : Steps(r, first, step, m, k - 1)
    BY <1>1, <1>3
  <2>2. PICK s : s = [i \in m..k |-> IF i = k THEN step[<<k, r[k - 1]>>] ELSE r[i]]
    OBVIOUS
  <2>3. s \in [m..k -> S]
    BY <2>2
  <2>4. s[m] = first
    BY <2>1, <2>2 DEF Steps
  <2>5. ASSUME NEW i \in m+1..k PROVE s[i] = step[<<i, s[i - 1]>>]
    <3>1. CASE i = k
      <4>1. k \in m..k /\ k - 1 \in m..k /\ k - 1 # k
        OBVIOUS
      <4>2. s[k] = step[<<k, r[k - 1]>>] /\ s[k - 1] = r[k - 1]
        BY <2>2, <4>1
      <4>3. QED
        BY <3>1, <4>2, Zenon
    <3>2. CASE i # k
      <4>1. i \in m+1..k-1 /\ i \in m..k /\ i - 1 \in m..k /\ i - 1 # k
        BY <3>2
      <4>2. r[i] = step[<<i, r[i - 1]>>]
        BY <2>1, <4>1 DEF Steps
      <4>3. QED
        BY <2>2, <3>2, <4>1, <4>2
    <3>3. QED
      BY <3>1, <3>2
  <2>6. Steps(s, first, step, m, k)
    BY <2>4, <2>5 DEF Steps
  <2>7. QED
    BY <1>1, <2>3, <2>6
<1>4. n \in T
  BY <1>2, <1>3, IntervalInduction
<1>5. QED
  BY <1>1, <1>4

-----------------------------------------------------------------------------
(***************************************************************************)
(* The words of a vocoder frame: their checks, and the bits that key the   *)
(* scrambling of the second.                                               *)
(***************************************************************************)
(* The checks of a Golay word are above its data. *)
Shift2312(cw) == {b - 1 : b \in (IF 0 \in cw THEN BitSum(cw, GolayPoly) ELSE cw) \ {0}}

LEMMA GolayAbove ==
  ASSUME NEW c \in SUBSET (0..11)
  PROVE  \E checks \in SUBSET Nat : Golay2312(c) = c \cup {b + 12 : b \in checks}
<1> DEFINE Is(r) == r = [i \in 0..12 |->
                           IF i = 0 THEN c
                           ELSE LET cw == r[i - 1]
                                IN  {b - 1 : b \in (IF 0 \in cw THEN BitSum(cw, GolayPoly) ELSE cw) \ {0}}]
           after == CHOOSE r : Is(r)
<1>1. Golay2312(c) = c \cup {b + 12 : b \in after[12]}
  BY DEF Golay2312
<1>2. \A r : Is(r) <=> r = [i \in 0..12 |-> IF i = 0 THEN c ELSE Shift2312(r[i - 1])]
  BY Zenon DEF Shift2312
<1>3. ASSUME NEW cw \in SUBSET Nat PROVE Shift2312(cw) \in SUBSET Nat
  <2>1. PICK sum : sum = (IF 0 \in cw THEN BitSum(cw, GolayPoly) ELSE cw)
    OBVIOUS
  <2>2. BitSum(cw, GolayPoly) \in SUBSET Nat
    BY DEF BitSum, GolayPoly
  <2>3. sum \in SUBSET Nat
    BY <2>1, <2>2
  <2>4. \A b \in sum \ {0} : b - 1 \in Nat
    BY <2>3
  <2>5. QED
    BY <2>1, <2>4 DEF Shift2312
<1> HIDE DEF Is
<1>4. PICK step : step = [p \in (1..12) \X SUBSET Nat |-> Shift2312(p[2])]
  OBVIOUS
<1>5. Keeps(SUBSET Nat, c, step, 0, 12)
  <2>1. ASSUME NEW k \in 0+1..12, NEW v \in SUBSET Nat PROVE step[<<k, v>>] \in SUBSET Nat
    <3>1. k \in 1..12 /\ <<k, v>> \in (1..12) \X SUBSET Nat
      <4>1. k \in 1..12
        OBVIOUS
      <4>2. QED
        BY <4>1, Zenon
    <3>2. step[<<k, v>>] = Shift2312(v)
      BY <1>4, <3>1
    <3>3. QED
      BY <1>3, <3>2
  <2>2. c \in SUBSET Nat
    OBVIOUS
  <2>3. QED
    BY <2>1, <2>2 DEF Keeps
<1>6. PICK r \in [0..12 -> SUBSET Nat] : Steps(r, c, step, 0, 12)
  BY <1>5, Iterated
<1>7. Is(r)
  <2>1. ASSUME NEW k \in 0..12 PROVE r[k] = IF k = 0 THEN c ELSE Shift2312(r[k - 1])
    BY <1>4, <1>6 DEF Steps
  <2>2. r = [k \in 0..12 |-> IF k = 0 THEN c ELSE Shift2312(r[k - 1])]
    BY <2>1
  <2>3. QED
    BY <1>2, <2>2, Zenon
<1>8. after = [i \in 0..12 |-> IF i = 0 THEN c ELSE Shift2312(after[i - 1])]
  BY <1>2, <1>7, Zenon
<1> HIDE DEF after
<1>9. \A k \in 0..12 : k \in {i \in 0..12 : after[i] \in SUBSET Nat}
  <2>1. PICK T : T = {i \in 0..12 : after[i] \in SUBSET Nat}
    OBVIOUS
  <2>2. 0 \in T
    BY <1>8, <2>1
  <2>3. ASSUME NEW k \in 0+1..12, k - 1 \in T PROVE k \in T
    BY <1>3, <1>8, <2>1, <2>3
  <2>4. QED
    BY <2>1, <2>2, <2>3, IntervalInduction
<1>10. QED
  BY <1>1, <1>9

(* What demodulateAmbe3600x2450 takes from the first word. *)
Key(frame) ==
  LET f[i \in 11..23] == IF i = 11 THEN 0
                         ELSE f[i - 1] + (IF <<0, i>> \in frame THEN 2^(i - 12) ELSE 0)
  IN  f[23]

Noise(k, before) ==
  LET pr == (173 * before.pr + 13849) % 65536
  IN  [pr |-> pr, ones |-> IF pr >= 32768 THEN before.ones \cup {<<1, 23 - k>>} ELSE before.ones]

Scrambled(key) ==
  LET after[k \in 0..23] ==
        IF k = 0 THEN [pr |-> 16 * key, ones |-> {}]
        ELSE LET before == after[k - 1]
                 pr     == (173 * before.pr + 13849) % 65536
             IN  [pr |-> pr, ones |-> IF pr >= 32768 THEN before.ones \cup {<<1, 23 - k>>} ELSE before.ones]
  IN  after[23].ones

LEMMA Demodulated ==
  ASSUME NEW frame
  PROVE  Demodulate(frame) = BitSum(frame, Scrambled(Key(frame)))
BY DEF Demodulate, Scrambled, Key

LEMMA Powers == \A i \in 12..23 : 2^(i - 12) \in Nat
<1>1. /\ 2^0 \in Nat /\ 2^1 \in Nat /\ 2^2 \in Nat /\ 2^3 \in Nat /\ 2^4 \in Nat /\ 2^5 \in Nat
      /\ 2^6 \in Nat /\ 2^7 \in Nat /\ 2^8 \in Nat /\ 2^9 \in Nat /\ 2^10 \in Nat /\ 2^11 \in Nat
  OBVIOUS
<1>2. ASSUME NEW i \in 12..23 PROVE 2^(i - 12) \in Nat
  <2>1. PICK e : e = i - 12
    OBVIOUS
  <2>2. \/ e = 0 \/ e = 1 \/ e = 2 \/ e = 3 \/ e = 4 \/ e = 5
        \/ e = 6 \/ e = 7 \/ e = 8 \/ e = 9 \/ e = 10 \/ e = 11
    BY <2>1
  <2>3. 2^e \in Nat
    BY <1>1, <2>2, Zenon
  <2>4. QED
    BY <2>1, <2>3, Zenon
<1>3. QED
  BY <1>2

(* The sum, step by step. *)
KeySum(f, frame) ==
  /\ f[11] = 0
  /\ \A i \in 12..23 : f[i] = f[i - 1] + (IF <<0, i>> \in frame THEN 2^(i - 12) ELSE 0)

LEMMA KeyIs ==
  ASSUME NEW frame
  PROVE  \E f \in [11..23 -> Nat] : KeySum(f, frame) /\ Key(frame) = f[23]
<1> DEFINE Is(r) == r = [i \in 11..23 |->
                           IF i = 11 THEN 0
                           ELSE r[i - 1] + (IF <<0, i>> \in frame THEN 2^(i - 12) ELSE 0)]
           f == CHOOSE r : Is(r)
           Share(i) == IF <<0, i>> \in frame THEN 2^(i - 12) ELSE 0
<1>1. Key(frame) = f[23]
  BY DEF Key
<1>2. \A i \in 12..23 : Share(i) \in Nat
  BY Powers
<1>3. \A r : Is(r) <=> r = [i \in 11..23 |-> IF i = 11 THEN 0 ELSE r[i - 1] + Share(i)]
  BY Zenon
<1> HIDE DEF Is
<1>4. KeySum(f, frame) <=> f[11] = 0 /\ \A i \in 12..23 : f[i] = f[i - 1] + Share(i)
  BY Zenon DEF KeySum
<1> HIDE DEF Share
<1>5. PICK step : step = [p \in (12..23) \X Nat |-> p[2] + Share(p[1])]
  OBVIOUS
<1>6. Keeps(Nat, 0, step, 11, 23)
  BY <1>2, <1>5 DEF Keeps
<1>7. PICK r \in [11..23 -> Nat] : Steps(r, 0, step, 11, 23)
  BY <1>6, Iterated
<1>8. Is(r)
  <2>1. ASSUME NEW k \in 11..23 PROVE r[k] = IF k = 11 THEN 0 ELSE r[k - 1] + Share(k)
    BY <1>5, <1>7 DEF Steps
  <2>2. r = [k \in 11..23 |-> IF k = 11 THEN 0 ELSE r[k - 1] + Share(k)]
    BY <2>1
  <2>3. QED
    BY <1>3, <2>2, Zenon
<1>9. f = [i \in 11..23 |-> IF i = 11 THEN 0 ELSE f[i - 1] + Share(i)]
  BY <1>3, <1>8, Zenon
<1> HIDE DEF f
<1>10. \A k \in 11..23 : f[k] \in Nat
  <2>1. PICK T : T = {i \in 11..23 : f[i] \in Nat}
    OBVIOUS
  <2>2. 11 \in T
    BY <1>9, <2>1
  <2>3. ASSUME NEW k \in 11+1..23, k - 1 \in T PROVE k \in T
    BY <1>2, <1>9, <2>1, <2>3
  <2>4. \A k \in 11..23 : k \in T
    BY <2>2, <2>3, IntervalInduction
  <2>5. QED
    BY <2>1, <2>4
<1>11. f \in [11..23 -> Nat]
  BY <1>9, <1>10
<1>12. KeySum(f, frame)
  BY <1>4, <1>9
<1>13. QED
  BY <1>1, <1>11, <1>12

LEMMA KeySame ==
  ASSUME NEW frame, NEW other, \A place \in KeyPlaces : place \in frame <=> place \in other
  PROVE  Key(frame) = Key(other) /\ Key(frame) \in Nat
<1>1. PICK f \in [11..23 -> Nat] : KeySum(f, frame) /\ Key(frame) = f[23]
  BY KeyIs
<1>2. PICK g \in [11..23 -> Nat] : KeySum(g, other) /\ Key(other) = g[23]
  BY KeyIs
<1>3. PICK T : T = {i \in 11..23 : f[i] = g[i]}
  OBVIOUS
<1>4. 11 \in T
  BY <1>1, <1>2, <1>3 DEF KeySum
<1>5. ASSUME NEW k \in 11+1..23, k - 1 \in T PROVE k \in T
  <2>1. <<0, k>> \in KeyPlaces
    BY DEF KeyPlaces
  <2>2. f[k - 1] = g[k - 1] /\ k \in 12..23
    BY <1>3, <1>5
  <2>3. f[k] = g[k]
    BY <1>1, <1>2, <2>1, <2>2, Zenon DEF KeySum
  <2>4. QED
    BY <1>3, <2>3
<1>6. 23 \in T
  BY <1>4, <1>5, IntervalInduction
<1>7. QED
  BY <1>1, <1>2, <1>3, <1>6

(* The sequence is that of the second word. *)
SecondWord == {<<1, j>> : j \in 0..22}

LEMMA NoiseIn ==
  ASSUME NEW key \in Nat
  PROVE  Scrambled(key) \in SUBSET SecondWord
<1> DEFINE Is(r) == r = [k \in 0..23 |-> IF k = 0 THEN [pr |-> 16 * key, ones |-> {}]
             ELSE LET before == r[k - 1]
                      pr     == (173 * before.pr + 13849) % 65536
                  IN  [pr |-> pr, ones |-> IF pr >= 32768 THEN before.ones \cup {<<1, 23 - k>>}
                                           ELSE before.ones]]
           after == CHOOSE r : Is(r)
           S == [pr : Int, ones : SUBSET SecondWord]
<1>1. Scrambled(key) = after[23].ones
  BY DEF Scrambled
<1>2. \A r : Is(r) <=> r = [k \in 0..23 |-> IF k = 0 THEN [pr |-> 16 * key, ones |-> {}]
                                                ELSE Noise(k, r[k - 1])]
  BY DEF Noise
<1> HIDE DEF Is
<1>3. ASSUME NEW k \in 1..23, NEW before \in S PROVE Noise(k, before) \in S
  <2>1. PICK pr \in Int : pr = (173 * before.pr + 13849) % 65536
    OBVIOUS
  <2>2. <<1, 23 - k>> \in SecondWord
    BY DEF SecondWord
  <2>3. Noise(k, before) = [pr |-> pr, ones |-> IF pr >= 32768 THEN before.ones \cup {<<1, 23 - k>>}
                                                ELSE before.ones]
    BY <2>1 DEF Noise
  <2>4. QED
    BY <2>2, <2>3
<1>4. PICK first \in S : first = [pr |-> 16 * key, ones |-> {}]
  <2>1. 16 * key \in Int
    OBVIOUS
  <2>2. QED
    BY <2>1, Zenon
<1>5. PICK step : step = [p \in (1..23) \X S |-> Noise(p[1], p[2])]
  OBVIOUS
<1> HIDE DEF S
<1>6. Keeps(S, first, step, 0, 23)
  <2>1. ASSUME NEW k \in 0+1..23, NEW v \in S PROVE step[<<k, v>>] \in S
    <3>1. k \in 1..23 /\ <<k, v>> \in (1..23) \X S
      OBVIOUS
    <3>2. step[<<k, v>>] = Noise(k, v)
      BY <1>5, <3>1
    <3>3. QED
      BY <1>3, <3>1, <3>2
  <2>2. \A k \in 0+1..23, v \in S : step[<<k, v>>] \in S
    BY <2>1
  <2>3. 0 \in Nat /\ 23 \in Nat /\ 0 <= 23
    OBVIOUS
  <2>4. QED
    BY <2>2, <2>3, Zenon DEF Keeps
<1>7. PICK r \in [0..23 -> S] : Steps(r, first, step, 0, 23)
  BY <1>6, Iterated
<1>8. Is(r)
  <2>1. ASSUME NEW k \in 0..23 PROVE r[k] = IF k = 0 THEN first ELSE Noise(k, r[k - 1])
    BY <1>5, <1>7 DEF Steps
  <2>2. r = [k \in 0..23 |-> IF k = 0 THEN first ELSE Noise(k, r[k - 1])]
    BY <2>1
  <2>3. QED
    BY <1>4, <1>2, <2>2, Zenon
<1>9. after = [k \in 0..23 |-> IF k = 0 THEN first ELSE Noise(k, after[k - 1])]
  <2>1. Is(after)
    BY <1>8, Zenon
  <2>2. QED
    BY <1>4, <1>2, <2>1, Zenon
<1> HIDE DEF after
<1>10. PICK T : T = {i \in 0..23 : after[i] \in S}
  OBVIOUS
<1>11. 0 \in T
  BY <1>9, <1>10
<1>12. ASSUME NEW k \in 0+1..23, k - 1 \in T PROVE k \in T
  BY <1>3, <1>9, <1>10, <1>12
<1>13. 23 \in T
  BY <1>11, <1>12, IntervalInduction
<1>14. after[23] \in [pr : Int, ones : SUBSET SecondWord]
  BY <1>10, <1>13 DEF S
<1>15. QED
  BY <1>1, <1>14

-----------------------------------------------------------------------------
(***************************************************************************)
(* The 72 bits of the air go through the words in their order, every       *)
(* eighteenth behind the last: what bit c of the four words is.            *)
(***************************************************************************)
WordBit(c) ==
  CASE c < 24       -> << 0, 23 - c >>
    [] c \in 24..46 -> << 1, 46 - c >>
    [] c \in 47..57 -> << 2, 57 - c >>
    [] OTHER        -> << 3, 71 - c >>

LEMMA EvenPlaces ==
  ASSUME NEW i \in 1..36, NEW c, c = 36 * ((i - 1) % 2) + (i - 1) \div 2
  PROVE  /\ rW[i] = (IF c < 24 THEN 0 ELSE IF c < 47 THEN 1 ELSE IF c < 58 THEN 2 ELSE 3)
         /\ rX[i] = (IF c < 24 THEN 23 - c ELSE IF c < 47 THEN 46 - c ELSE IF c < 58 THEN 57 - c ELSE 71 - c)
BY SMTT(100) DEF rW, rX

LEMMA OddPlaces ==
  ASSUME NEW i \in 1..36, NEW c, c = 36 * ((i - 1) % 2) + 18 + (i - 1) \div 2
  PROVE  /\ rY[i] = (IF c < 24 THEN 0 ELSE IF c < 47 THEN 1 ELSE IF c < 58 THEN 2 ELSE 3)
         /\ rZ[i] = (IF c < 24 THEN 23 - c ELSE IF c < 47 THEN 46 - c ELSE IF c < 58 THEN 57 - c ELSE 71 - c)
<1>1. rY[i] = (IF c < 24 THEN 0 ELSE IF c < 47 THEN 1 ELSE IF c < 58 THEN 2 ELSE 3)
  BY SMTT(100) DEF rY
<1>2. rZ[i] = (IF c < 24 THEN 23 - c ELSE IF c < 47 THEN 46 - c ELSE IF c < 58 THEN 57 - c ELSE 71 - c)
  BY SMTT(100) DEF rZ
<1>3. QED
  BY <1>1, <1>2

LEMMA PlaceIs ==
  ASSUME NEW b \in 0..71
  PROVE  PlaceOf(b) = WordBit(18 * (b % 4) + b \div 4)
<1>1. PICK c \in 0..71 : c = 18 * (b % 4) + b \div 4
  OBVIOUS
<1>2. PICK i \in 1..36 : i = (b \div 2) + 1
  OBVIOUS
<1>3. CASE b % 2 = 0
  <2>1. c = 36 * ((i - 1) % 2) + (i - 1) \div 2
    BY <1>1, <1>2, <1>3
  <2>2. PlaceOf(b) = << rW[i], rX[i] >>
    BY <1>2, <1>3 DEF PlaceOf
  <2>3. WordBit(c) = << rW[i], rX[i] >>
    BY <2>1, EvenPlaces DEF WordBit
  <2>4. QED
    BY <1>1, <2>2, <2>3
<1>4. CASE b % 2 # 0
  <2>1. c = 36 * ((i - 1) % 2) + 18 + (i - 1) \div 2
    BY <1>1, <1>2, <1>4
  <2>2. PlaceOf(b) = << rY[i], rZ[i] >>
    BY <1>2, <1>4 DEF PlaceOf
  <2>3. WordBit(c) = << rY[i], rZ[i] >>
    BY <2>1, OddPlaces DEF WordBit
  <2>4. QED
    BY <1>1, <2>2, <2>3
<1>5. QED
  BY <1>3, <1>4

LEMMA WordBitApart ==
  ASSUME NEW c \in 0..71, NEW d \in 0..71, WordBit(c) = WordBit(d)
  PROVE  c = d
BY DEF WordBit

LEMMA PlaceApart ==
  ASSUME NEW b \in 0..71, NEW d \in 0..71, PlaceOf(b) = PlaceOf(d)
  PROVE  b = d
<1>1. PICK m \in 0..71 : m = 18 * (b % 4) + b \div 4
  OBVIOUS
<1>2. PICK n \in 0..71 : n = 18 * (d % 4) + d \div 4
  OBVIOUS
<1>3. m = n
  BY <1>1, <1>2, PlaceIs, WordBitApart
<1>4. QED
  BY <1>1, <1>2, <1>3, SMTT(30)

LEMMA EveryPlace ==
  ASSUME NEW c \in 0..71
  PROVE  \E b \in 0..71 : PlaceOf(b) = WordBit(c)
<1>1. PICK b \in 0..71 : b = 4 * (c % 18) + c \div 18
  OBVIOUS
<1>2. 18 * (b % 4) + b \div 4 = c
  BY <1>1
<1>3. QED
  BY <1>2, PlaceIs

LEMMA WordPlaceIs ==
  ASSUME NEW n \in 0..48
  PROVE  \E c \in 0..71 : /\ c = (IF n < 12 THEN n ELSE IF n < 24 THEN n + 12 ELSE n + 23)
                          /\ WordPlace(n) = WordBit(c)
BY DEF WordPlace, WordBit

LEMMA WordPlaceApart ==
  ASSUME NEW m \in 0..48, NEW n \in 0..48, WordPlace(m) = WordPlace(n)
  PROVE  m = n
BY WordPlaceIs, WordBitApart

LEMMA KeyPlaceIs ==
  ASSUME NEW place \in KeyPlaces
  PROVE  \E c \in 0..71 : place = WordBit(c)
<1>1. PICK n \in 12..23 : place = <<0, n>>
  BY DEF KeyPlaces
<1>2. 23 - n \in 0..71 /\ WordBit(23 - n) = <<0, n>>
  BY DEF WordBit
<1>3. QED
  BY <1>1, <1>2

(* On the air and back: what is inverted there is inverted in the words. *)
OnAir(place) == \E b \in 0..71 : PlaceOf(b) = place

LEMMA ThroughAir ==
  ASSUME NEW frame, NEW hits \in SUBSET (0..71), NEW place, OnAir(place)
  PROVE  place \in DeinterleaveAmbe(Inverted(InterleaveAmbe(frame), hits))
           <=> ~(place \in frame <=> place \in {PlaceOf(n) : n \in hits})
<1>1. PICK b \in 0..71 : PlaceOf(b) = place
  BY DEF OnAir
<1>2. PICK wave : wave = Inverted(InterleaveAmbe(frame), hits)
  OBVIOUS
<1>3. b \in InterleaveAmbe(frame) <=> place \in frame
  BY <1>1 DEF InterleaveAmbe, AirBits
<1>4. wave \in SUBSET (0..71)
  <2>1. InterleaveAmbe(frame) \in SUBSET (0..71)
    BY DEF InterleaveAmbe, AirBits
  <2>2. QED
    BY <1>2, <2>1 DEF Inverted
<1>5. ASSUME NEW S \in SUBSET (0..71) PROVE place \in {PlaceOf(n) : n \in S} <=> b \in S
  <2>1. ASSUME place \in {PlaceOf(n) : n \in S} PROVE b \in S
    <3>1. PICK n \in S : place = PlaceOf(n)
      BY <2>1
    <3>2. n \in 0..71
      OBVIOUS
    <3>3. b = n
      BY <1>1, <3>1, <3>2, PlaceApart
    <3>4. QED
      BY <3>1, <3>3
  <2>2. b \in S => place \in {PlaceOf(n) : n \in S}
    BY <1>1
  <2>3. QED
    BY <2>1, <2>2
<1>6. place \in DeinterleaveAmbe(wave) <=> b \in wave
  BY <1>4, <1>5, Zenon DEF DeinterleaveAmbe
<1>7. place \in {PlaceOf(n) : n \in hits} <=> b \in hits
  BY <1>5, Zenon
<1>8. b \in wave <=> ~(b \in InterleaveAmbe(frame) <=> b \in hits)
  BY <1>2, Zenon DEF Inverted
<1>9. QED
  BY <1>2, <1>3, <1>6, <1>7, <1>8, Zenon

(* The parity of the first word. *)
Uneven(word0) ==
  LET odd[b \in 0..23] == IF b = 0 THEN FALSE ELSE odd[b - 1] # (b - 1 \in word0)
  IN  odd[23]

(* The data bits are in the words as they are. *)
LEMMA RawInFrames ==
  ASSUME NEW raw \in SUBSET (0..48), NEW n \in 0..48
  PROVE  WordPlace(n) \in Convert49BitAmbeTo72BitFrames(raw) <=> n \in raw
<1>1. PICK low : low = raw \cap (0..11) /\ low \in SUBSET (0..11)
  OBVIOUS
<1>2. PICK mid : mid = {k - 12 : k \in raw \cap (12..23)}
  OBVIOUS
<1>3. mid \in SUBSET (0..11)
  BY <1>2
<1>4. PICK lowChecks \in SUBSET Nat : Golay2312(low) = low \cup {b + 12 : b \in lowChecks}
  BY <1>1, GolayAbove
<1>5. PICK midChecks \in SUBSET Nat : Golay2312(mid) = mid \cup {b + 12 : b \in midChecks}
  BY <1>3, GolayAbove
<1>6. PICK word0, word1 : word0 = Golay2312(low) /\ word1 = Golay2312(mid)
  OBVIOUS
<1>7. /\ word0 \in SUBSET Nat /\ word1 \in SUBSET Nat
      /\ \A b \in 0..11 : b \in word0 <=> b \in low
      /\ \A b \in 0..11 : b \in word1 <=> b \in mid
  <2>1. ASSUME NEW c \in SUBSET (0..11), NEW checks \in SUBSET Nat,
               NEW word, word = c \cup {b + 12 : b \in checks}
        PROVE  word \in SUBSET Nat /\ \A b \in 0..11 : b \in word <=> b \in c
    <3>1. \A x \in word : x \in c \/ \E b \in checks : x = b + 12
      BY <2>1
    <3>2. \A b \in checks : b \in Nat
      OBVIOUS
    <3>3. \A b \in c : b \in 0..11 /\ b \in word
      BY <2>1
    <3>4. word \in SUBSET Nat
      <4>1. ASSUME NEW x \in word PROVE x \in Nat
        <5>1. CASE x \in c
          BY <5>1
        <5>2. CASE \E b \in checks : x = b + 12
          BY <3>2, <5>2
        <5>3. QED
          BY <3>1, <5>1, <5>2
      <4>2. QED
        BY <4>1
    <3>5. \A b \in 0..11 : b \in word => b \in c
      BY <3>1, <3>2
    <3>6. QED
      BY <3>3, <3>4, <3>5
  <2>2. word0 = low \cup {b + 12 : b \in lowChecks} /\ word1 = mid \cup {b + 12 : b \in midChecks}
    BY <1>4, <1>5, <1>6
  <2>3. word0 \in SUBSET Nat /\ \A b \in 0..11 : b \in word0 <=> b \in low
    BY <1>1, <2>1, <2>2
  <2>4. word1 \in SUBSET Nat /\ \A b \in 0..11 : b \in word1 <=> b \in mid
    BY <1>3, <1>5, <2>1, <2>2, SMTT(30)
  <2>5. QED
    BY <2>3, <2>4
<1>8. PICK first, parity, second, last :
        /\ first = {<< 0, 23 - b >> : b \in word0}
        /\ parity \in {{}, {<< 0, 0 >>}}
        /\ second = {<< 1, 22 - b >> : b \in word1}
        /\ last = {WordPlace(k) : k \in raw \cap (24..48)}
        /\ Convert49BitAmbeTo72BitFrames(raw) = first \cup parity \cup second \cup last
  <2>1. Convert49BitAmbeTo72BitFrames(raw) =
          {<< 0, 23 - b >> : b \in Golay2312(raw \cap (0..11))}
            \cup (IF Uneven(Golay2312(raw \cap (0..11))) THEN {<< 0, 0 >>} ELSE {})
            \cup {<< 1, 22 - b >> : b \in Golay2312({k - 12 : k \in raw \cap (12..23)})}
            \cup {WordPlace(k) : k \in raw \cap (24..48)}
    BY DEF Convert49BitAmbeTo72BitFrames, Uneven
  <2>2. PICK parity : parity = (IF Uneven(word0) THEN {<< 0, 0 >>} ELSE {}) /\ parity \in {{}, {<< 0, 0 >>}}
    OBVIOUS
  <2>3. Convert49BitAmbeTo72BitFrames(raw) =
          {<< 0, 23 - b >> : b \in word0} \cup parity \cup {<< 1, 22 - b >> : b \in word1}
            \cup {WordPlace(k) : k \in raw \cap (24..48)}
    BY <1>1, <1>2, <1>6, <2>1, <2>2, Zenon
  <2>4. QED
    BY <2>2, <2>3, ZenonT(60)
<1>9. /\ \A x \in first : \E b \in word0 : x = << 0, 23 - b >>
      /\ \A x \in second : \E b \in word1 : x = << 1, 22 - b >>
      /\ \A x \in last : \E k \in raw \cap (24..48) : x = WordPlace(k)
  BY <1>8
<1>10. CASE n \in 0..11
  <2>1. WordPlace(n) = << 0, 23 - n >>
    BY <1>10 DEF WordPlace
  <2>2. WordPlace(n) \notin second /\ WordPlace(n) \notin parity
    BY <1>8, <1>9, <1>10, <2>1
  <2>3. WordPlace(n) \notin last
    BY <1>9, <1>10, WordPlaceApart
  <2>4. WordPlace(n) \in first <=> n \in word0
    BY <1>7, <1>8, <1>9, <1>10, <2>1
  <2>5. QED
    BY <1>1, <1>7, <1>8, <1>10, <2>2, <2>3, <2>4
<1>11. CASE n \in 12..23
  <2>1. WordPlace(n) = << 1, 34 - n >>
    BY <1>11 DEF WordPlace
  <2>2. WordPlace(n) \notin first /\ WordPlace(n) \notin parity
    BY <1>8, <1>9, <1>11, <2>1
  <2>3. WordPlace(n) \notin last
    BY <1>9, <1>11, WordPlaceApart
  <2>4. PICK b \in 0..11 : b = n - 12
    BY <1>11
  <2>5. WordPlace(n) = << 1, 22 - b >>
    BY <2>1, <2>4
  <2>6. WordPlace(n) \in second <=> b \in word1
    BY <1>7, <1>8, <1>9, <2>5
  <2>7. b \in mid <=> n \in raw
    BY <1>2, <1>11, <2>4
  <2>8. QED
    BY <1>7, <1>8, <2>2, <2>3, <2>6, <2>7
<1>12. CASE n \in 24..48
  <2>1. WordPlace(n) = << 2, 34 - n >> \/ WordPlace(n) = << 3, 48 - n >>
    BY <1>12 DEF WordPlace
  <2>2. WordPlace(n) \notin first /\ WordPlace(n) \notin parity /\ WordPlace(n) \notin second
    BY <1>8, <1>9, <2>1
  <2>3. WordPlace(n) \in last <=> n \in raw
    BY <1>8, <1>9, <1>12, WordPlaceApart
  <2>4. QED
    BY <1>8, <2>2, <2>3
<1>13. QED
  BY <1>10, <1>11, <1>12

(***************************************************************************)
(* A vocoder frame is read with the bits wrong that were hit, while those  *)
(* that key the scrambling were not.                                       *)
(***************************************************************************)
LEMMA FrameSurvives ==
  ASSUME NEW raw \in SUBSET (0..48), NEW hits \in SUBSET (0..71),
         {PlaceOf(n) : n \in hits} \cap KeyPlaces = {}
  PROVE  BitSum(raw, Convert72BitTo49BitAMBE(Inverted(Convert49BitTo72BitAMBE(raw), hits)))
           = {n \in 0..48 : WordPlace(n) \in {PlaceOf(k) : k \in hits}}
<1>1. PICK wrong : wrong = {PlaceOf(n) : n \in hits}
  OBVIOUS
<1>2. PICK words : words = Convert49BitAmbeTo72BitFrames(raw)
  OBVIOUS
<1>3. PICK noise : noise = Scrambled(Key(words)) /\ noise \in SUBSET SecondWord
  <2>1. Key(words) \in Nat
    BY KeySame
  <2>2. QED
    BY <2>1, NoiseIn
<1>4. PICK sent : sent = Demodulate(words) /\ sent = BitSum(words, noise)
  BY <1>3, Demodulated
<1>5. PICK heard : heard = DeinterleaveAmbe(Inverted(InterleaveAmbe(sent), hits))
  OBVIOUS
<1>6. \A place : OnAir(place) => (place \in heard <=> ~(place \in sent <=> place \in wrong))
  BY <1>1, <1>5, ThroughAir
<1>7. \A place \in KeyPlaces : place \in words <=> place \in heard
  <2>1. ASSUME NEW place \in KeyPlaces PROVE place \in words <=> place \in heard
    <3>1. OnAir(place)
      BY KeyPlaceIs, EveryPlace DEF OnAir
    <3>2. place \notin wrong
      BY <1>1
    <3>3. place \notin noise
      BY <1>3 DEF KeyPlaces, SecondWord
    <3>4. place \in sent <=> place \in words
      BY <1>4, <3>3 DEF BitSum
    <3>5. QED
      BY <1>6, <3>1, <3>2, <3>4
  <2>2. QED
    BY <2>1
<1>8. Key(heard) = Key(words)
  BY <1>7, KeySame
<1>9. Demodulate(heard) = BitSum(heard, noise)
  BY <1>3, <1>8, Demodulated, Zenon
<1>10. PICK got49 : got49 = Convert72BitTo49BitAMBE(Inverted(Convert49BitTo72BitAMBE(raw), hits))
  OBVIOUS
<1>11. got49 = {n \in 0..48 : WordPlace(n) \in BitSum(heard, noise)}
  <2>1. RawBits - 1 = 48
    BY DEF RawBits
  <2>2. Convert49BitTo72BitAMBE(raw) = InterleaveAmbe(sent)
    BY <1>2, <1>4 DEF Convert49BitTo72BitAMBE
  <2>3. got49 = EccData(Demodulate(heard))
    BY <1>5, <1>10, <2>2, Zenon DEF Convert72BitTo49BitAMBE
  <2>4. QED
    BY <1>9, <2>1, <2>3, Zenon DEF EccData
<1>12. ASSUME NEW n \in 0..48 PROVE n \in BitSum(raw, got49) <=> WordPlace(n) \in wrong
  <2>1. PICK place : place = WordPlace(n)
    OBVIOUS
  <2>2. OnAir(place)
    BY <2>1, WordPlaceIs, EveryPlace DEF OnAir
  <2>3. n \in got49 <=> ~(place \in heard <=> place \in noise)
    BY <1>11, <2>1, Zenon DEF BitSum
  <2>4. place \in sent <=> ~(place \in words <=> place \in noise)
    BY <1>4, Zenon DEF BitSum
  <2>5. place \in words <=> n \in raw
    BY <1>2, <2>1, RawInFrames
  <2>6. place \in heard <=> ~(place \in sent <=> place \in wrong)
    BY <1>6, <2>2
  <2>7. n \in BitSum(raw, got49) <=> ~(n \in raw <=> n \in got49)
    BY DEF BitSum
  <2>8. QED
    BY <2>1, <2>3, <2>4, <2>5, <2>6, <2>7, Zenon
<1>13. \A n \in BitSum(raw, got49) : n \in 0..48
  BY <1>11 DEF BitSum
<1>14. BitSum(raw, got49) = {n \in 0..48 : WordPlace(n) \in wrong}
  BY <1>12, <1>13
<1>15. QED
  BY <1>1, <1>10, <1>14, Zenon

(* And so no more of them than were hit. *)
LEMMA NoMoreWrong ==
  ASSUME NEW hits \in SUBSET (0..71), NEW wrong, wrong = {PlaceOf(k) : k \in hits}
  PROVE  Cardinality({n \in 0..48 : WordPlace(n) \in wrong}) <= Cardinality(wrong)
<1>1. PICK S : S = {n \in 0..48 : WordPlace(n) \in wrong}
  OBVIOUS
<1>2. IsFiniteSet(wrong)
  <2>1. 0 \in Int /\ 71 \in Int
    OBVIOUS
  <2>2. IsFiniteSet(0..71)
    BY <2>1, FS_Interval
  <2>3. IsFiniteSet(hits)
    BY <2>2, FS_Subset
  <2>4. PICK g : g = [n \in hits |-> PlaceOf(n)]
    OBVIOUS
  <2>5. g \in Surjection(hits, wrong)
    BY <2>4 DEF Surjection, Range
  <2>6. QED
    BY <2>3, <2>5, FS_Surjection
<1>3. PICK f : f = [n \in S |-> WordPlace(n)]
  OBVIOUS
<1>4. f \in Injection(S, wrong)
  <2>1. f \in [S -> wrong]
    BY <1>1, <1>3
  <2>2. ASSUME NEW m \in S, NEW n \in S, f[m] = f[n] PROVE m = n
    BY <1>1, <1>3, <2>2, WordPlaceApart
  <2>3. QED
    BY <2>1, <2>2 DEF Injection, IsInjective
<1>5. Cardinality(S) <= Cardinality(wrong)
  BY <1>2, <1>4, FS_Injection
<1>6. QED
  BY <1>1, <1>5

-----------------------------------------------------------------------------
(***************************************************************************)
(* The places of a voice burst: vocoder, signalling, and what is between   *)
(* the halves of the signalling.                                           *)
(***************************************************************************)
OfVocoder(x)   == x \in 0..107 \/ x \in 156..263
OfSignal(x)    == x \in 108..115 \/ x \in 148..155
Middle(x)      == x \in 108..155

LEMMA VoicePlaceIn ==
  ASSUME NEW n \in 0..215
  PROVE  OfVocoder(VoicePlace(n)) /\ ~Middle(VoicePlace(n))
BY DEF OfVocoder, VoicePlace, Middle

LEMMA VoiceApart ==
  ASSUME NEW m \in 0..215, NEW n \in 0..215, VoicePlace(m) = VoicePlace(n)
  PROVE  m = n
BY DEF VoicePlace

LEMMA EmbPlaceIn ==
  ASSUME NEW n \in 0..15
  PROVE  OfSignal(EmbPlace(n)) /\ Middle(EmbPlace(n))
BY DEF OfSignal, EmbPlace, Middle

LEMMA EmbApart ==
  ASSUME NEW m \in 0..15, NEW n \in 0..15, EmbPlace(m) = EmbPlace(n)
  PROVE  m = n
BY DEF EmbPlace

(* The places of the vocoder frames, and those in the middle. *)
VocoderOf(ambe) == UNION {{VoicePlace(72 * (i - 1) + n) : n \in ambe[i]} : i \in 1..3}

MiddleOf(voice) ==
  IF voice.isSync THEN {108 + n : n \in voice.center}
  ELSE {EmbPlace(15 - b) : b \in CyclicEncode(QR1676, EmbWord(voice))}
         \cup {116 + n : n \in voice.center}

LEMMA VocoderPlaces ==
  ASSUME NEW ambe \in [1..3 -> SUBSET (0..71)]
  PROVE  /\ \A x \in VocoderOf(ambe) : OfVocoder(x)
         /\ \A i \in 1..3, n \in 0..71 :
              VoicePlace(72 * (i - 1) + n) \in VocoderOf(ambe) <=> n \in ambe[i]
<1>1. ASSUME NEW i \in 1..3, NEW n \in 0..71 PROVE 72 * (i - 1) + n \in 0..215
  OBVIOUS
<1>2. ASSUME NEW i \in 1..3, NEW n \in 0..71, NEW j \in 1..3, NEW m \in 0..71,
             72 * (i - 1) + n = 72 * (j - 1) + m
      PROVE  i = j /\ n = m
  BY <1>2
<1>3. ASSUME NEW x \in VocoderOf(ambe)
      PROVE  \E i \in 1..3 : \E n \in ambe[i] : n \in 0..71 /\ x = VoicePlace(72 * (i - 1) + n)
  <2>1. PICK i \in 1..3 : x \in {VoicePlace(72 * (i - 1) + n) : n \in ambe[i]}
    BY DEF VocoderOf
  <2>2. ambe[i] \in SUBSET (0..71)
    OBVIOUS
  <2>3. QED
    BY <2>1, <2>2
<1>4. ASSUME NEW x \in VocoderOf(ambe) PROVE OfVocoder(x)
  <2>1. PICK i \in 1..3, n \in 0..71 : x = VoicePlace(72 * (i - 1) + n)
    BY <1>3
  <2>2. PICK k \in 0..215 : k = 72 * (i - 1) + n
    BY <1>1
  <2>3. QED
    BY <2>1, <2>2, VoicePlaceIn
<1>5. ASSUME NEW i \in 1..3, NEW n \in 0..71
      PROVE  VoicePlace(72 * (i - 1) + n) \in VocoderOf(ambe) <=> n \in ambe[i]
  <2>1. PICK k \in 0..215 : k = 72 * (i - 1) + n
    BY <1>1
  <2>2. ASSUME VoicePlace(k) \in VocoderOf(ambe) PROVE n \in ambe[i]
    <3>1. PICK j \in 1..3 : \E m \in ambe[j] : m \in 0..71 /\ VoicePlace(k) = VoicePlace(72 * (j - 1) + m)
      BY <1>3, <2>2
    <3>2. PICK m \in ambe[j] : m \in 0..71 /\ VoicePlace(k) = VoicePlace(72 * (j - 1) + m)
      BY <3>1
    <3>3. PICK l \in 0..215 : l = 72 * (j - 1) + m
      BY <1>1, <3>2
    <3>4. k = l
      BY <3>2, <3>3, VoiceApart, Zenon
    <3>5. i = j /\ n = m
      BY <1>2, <2>1, <3>2, <3>3, <3>4
    <3>6. QED
      BY <3>2, <3>5
  <2>3. n \in ambe[i] => VoicePlace(k) \in VocoderOf(ambe)
    BY <2>1 DEF VocoderOf
  <2>4. QED
    BY <2>1, <2>2, <2>3
<1>6. QED
  BY <1>4, <1>5

(* What VoicePayload is given. *)
VoiceBursts ==
  [kind : {"voice"}, isSync : BOOLEAN, colorCode : SUBSET (0..3), PI : BOOLEAN,
   LCSS : SUBSET {0, 1}, ambe : [1..3 -> SUBSET (0..71)], center : SUBSET (0..47)]

CenterFits(voice) == ~voice.isSync => voice.center \subseteq 0..31

(* The signalling's word: the value's codeword and a bit behind it. *)
LEMMA EmbWordSent ==
  ASSUME NEW voice \in VoiceBursts
  PROVE  /\ EmbWord(voice) \in SUBSET (0..6)
         /\ \E word \in SUBSET (0..15) :
              /\ CyclicEncode(QR1676, EmbWord(voice)) = word
              /\ \A k \in 0..14 : k + 1 \in word <=> k \in CodeWord(QR1676, EmbWord(voice))
<1>1. PICK value : value = EmbWord(voice)
  OBVIOUS
<1>2. value \in SUBSET (0..6)
  BY <1>1 DEF EmbWord
<1>3. PICK code : code = CodeWord(QR1676, value) /\ code \in SUBSET (0..14)
  BY <1>2, CodeWordDividesQR
<1>4. PICK word : word = CyclicEncode(QR1676, value)
  OBVIOUS
<1>5. word = Shifted(code, 1) \cup (IF Cardinality(code) % 2 = 1 THEN {0} ELSE {})
  BY <1>3, <1>4 DEF CyclicEncode
<1>6. PICK parity : parity = (IF Cardinality(code) % 2 = 1 THEN {0} ELSE {}) /\ parity \in {{}, {0}}
  OBVIOUS
<1>7. word = {b + 1 : b \in code} \cup parity
  BY <1>5, <1>6, Zenon DEF Shifted
<1>8. word \in SUBSET (0..15) /\ \A k \in 0..14 : k + 1 \in word <=> k \in code
  BY <1>3, <1>6, <1>7
<1>9. QED
  BY <1>1, <1>2, <1>3, <1>4, <1>8, Zenon

(* The middle of a voice burst. *)
LEMMA MiddlePlaces ==
  ASSUME NEW voice \in VoiceBursts, CenterFits(voice)
  PROVE  /\ \A x \in MiddleOf(voice) : Middle(x)
         /\ ~voice.isSync =>
              \A k \in 0..14 : EmbPlace(14 - k) \in MiddleOf(voice)
                                 <=> k \in CodeWord(QR1676, EmbWord(voice))
<1>1. PICK word \in SUBSET (0..15) :
        /\ CyclicEncode(QR1676, EmbWord(voice)) = word
        /\ \A k \in 0..14 : k + 1 \in word <=> k \in CodeWord(QR1676, EmbWord(voice))
  BY EmbWordSent
<1>2. PICK center : center = voice.center /\ center \in SUBSET (0..47)
  BY DEF VoiceBursts
<1>3. PICK signal : signal = {EmbPlace(15 - b) : b \in word}
  OBVIOUS
<1>4. MiddleOf(voice) = IF voice.isSync THEN {108 + n : n \in center}
                        ELSE signal \cup {116 + n : n \in center}
  BY <1>1, <1>2, <1>3 DEF MiddleOf
<1>5. ASSUME NEW x \in signal PROVE \E b \in word : 15 - b \in 0..15 /\ x = EmbPlace(15 - b)
  BY <1>3
<1>6. ASSUME NEW x \in signal PROVE OfSignal(x) /\ Middle(x)
  BY <1>5, EmbPlaceIn
<1>7. CASE voice.isSync
  <2>1. \A n \in center : Middle(108 + n)
    BY <1>2 DEF Middle
  <2>2. QED
    BY <1>4, <1>7, <2>1
<1>8. CASE ~voice.isSync
  <2>1. MiddleOf(voice) = signal \cup {116 + n : n \in center}
    BY <1>4, <1>8
  <2>2. center \in SUBSET (0..31)
    BY <1>2, <1>8 DEF CenterFits
  <2>3. \A n \in center : Middle(116 + n) /\ ~OfSignal(116 + n)
    BY <2>2 DEF Middle, OfSignal
  <2>4. \A x \in MiddleOf(voice) : Middle(x)
    BY <1>6, <2>1, <2>3
  <2>5. ASSUME NEW k \in 0..14 PROVE EmbPlace(14 - k) \in MiddleOf(voice) <=> k + 1 \in word
    <3>1. PICK n \in 0..15 : n = 14 - k /\ n = 15 - (k + 1)
      OBVIOUS
    <3>2. OfSignal(EmbPlace(n))
      BY EmbPlaceIn
    <3>3. EmbPlace(n) \in MiddleOf(voice) <=> EmbPlace(n) \in signal
      BY <2>1, <2>3, <3>2
    <3>4. ASSUME EmbPlace(n) \in signal PROVE k + 1 \in word
      <4>1. PICK b \in word : 15 - b \in 0..15 /\ EmbPlace(n) = EmbPlace(15 - b)
        BY <1>5, <3>4
      <4>2. n = 15 - b
        BY <4>1, EmbApart, Zenon
      <4>3. b \in 0..15
        BY <4>1
      <4>4. b = k + 1
        BY <3>1, <4>2, <4>3
      <4>5. QED
        BY <4>1, <4>4
    <3>5. k + 1 \in word => EmbPlace(n) \in signal
      BY <1>3, <3>1
    <3>6. QED
      BY <3>1, <3>3, <3>4, <3>5
  <2>6. QED
    BY <1>1, <2>4, <2>5
<1>9. QED
  BY <1>7, <1>8

LEMMA VoiceSent ==
  ASSUME NEW voice \in VoiceBursts
  PROVE  EncodeVoice(voice) = VocoderOf(voice.ambe) \cup MiddleOf(voice)
BY Zenon DEF EncodeVoice, VocoderOf, MiddleOf

LEMMA VoiceBits ==
  ASSUME NEW voice \in VoiceBursts, CenterFits(voice)
  PROVE  EncodeVoice(voice) \in SUBSET (0..263)
<1>1. voice.ambe \in [1..3 -> SUBSET (0..71)]
  BY DEF VoiceBursts
<1>2. \A x \in VocoderOf(voice.ambe) : x \in 0..263
  BY <1>1, VocoderPlaces DEF OfVocoder
<1>3. \A x \in MiddleOf(voice) : x \in 0..263
  BY MiddlePlaces DEF Middle
<1>4. QED
  BY <1>2, <1>3, VoiceSent

(* The signalling is read through two wrong bits. *)
LEMMA SignalRead ==
  ASSUME NEW voice \in VoiceBursts, CenterFits(voice), ~voice.isSync,
         NEW at, Cardinality({n \in 0..14 : EmbPlace(n) \in at}) <= 2,
         NEW burst, burst = Inverted(EncodeVoice(voice), at)
  PROVE  CyclicDecode(QR1676, QRTable, {b \in 0..15 : EmbPlace(15 - b) \in burst}) = EmbWord(voice)
<1>1. PICK value : value = EmbWord(voice) /\ value \in SUBSET (0..6)
  BY EmbWordSent
<1>2. PICK hits : hits = {n \in 0..14 : EmbPlace(n) \in at}
  OBVIOUS
<1>3. PICK p : p = {14 - n : n \in hits}
  OBVIOUS
<1>4. p \in Patterns(QR1676)
  BY <1>2, <1>3, FewHitsQR
<1>5. PICK received : received = {b \in 0..15 : EmbPlace(15 - b) \in burst}
  OBVIOUS
<1>6. PICK code : code = CodeWord(QR1676, value) /\ code \in SUBSET (0..14)
  BY <1>1, CodeWordDividesQR
<1>7. PICK sent : sent = EncodeVoice(voice)
  OBVIOUS
<1>8. ASSUME NEW k \in 0..14
      PROVE  k + 1 \in received <=> ~(k \in code <=> k \in p)
  <2>1. PICK place : place = EmbPlace(14 - k)
    OBVIOUS
  <2>2. k + 1 \in 0..15 /\ 15 - (k + 1) = 14 - k /\ 14 - k \in 0..15 /\ 14 - k \in 0..14
    OBVIOUS
  <2>3. k + 1 \in received <=> ~(place \in sent <=> place \in at)
    BY <1>5, <1>7, <2>1, <2>2 DEF Inverted
  <2>4. place \in sent <=> k \in code
    <3>1. place \in MiddleOf(voice) <=> k \in code
      BY <1>1, <1>6, <2>1, MiddlePlaces
    <3>2. place \notin VocoderOf(voice.ambe)
      <4>1. OfSignal(place)
        BY <2>1, <2>2, EmbPlaceIn
      <4>2. voice.ambe \in [1..3 -> SUBSET (0..71)]
        BY DEF VoiceBursts
      <4>3. ~OfVocoder(place)
        BY <4>1 DEF OfSignal, OfVocoder
      <4>4. QED
        BY <4>2, <4>3, VocoderPlaces
    <3>3. QED
      BY <1>7, <3>1, <3>2, VoiceSent
  <2>5. place \in at <=> k \in p
    <3>1. place \in at <=> 14 - k \in hits
      BY <1>2, <2>1, <2>2
    <3>2. 14 - k \in hits <=> k \in p
      BY <1>2, <1>3
    <3>3. QED
      BY <3>1, <3>2
  <2>6. QED
    BY <2>3, <2>4, <2>5, Zenon
<1>9. {b - 1 : b \in received \ {0}} = Plus(code, p)
  <2>1. p \in SUBSET (0..14)
    BY <1>2, <1>3
  <2>2. \A b \in received \ {0} : b - 1 \in 0..14 /\ (b - 1) + 1 = b
    BY <1>5
  <2>3. \A k : k \in Plus(code, p) <=> k \in 0..14 /\ ~(k \in code <=> k \in p)
    BY <1>6, <2>1 DEF Plus
  <2>4. ASSUME NEW k \in Plus(code, p) PROVE k \in {b - 1 : b \in received \ {0}}
    <3>1. k \in 0..14 /\ k + 1 \in received
      BY <1>8, <2>3
    <3>2. k + 1 # 0 /\ k = (k + 1) - 1
      BY <3>1
    <3>3. QED
      BY <3>1, <3>2
  <2>5. ASSUME NEW b \in received \ {0} PROVE b - 1 \in Plus(code, p)
    <3>1. PICK k \in 0..14 : k = b - 1 /\ k + 1 = b
      BY <2>2
    <3>2. QED
      BY <1>8, <2>3, <3>1
  <2>6. QED
    BY <2>4, <2>5
<1>10. CyclicDecode(QR1676, QRTable, received) = value
  BY <1>1, <1>4, <1>6, <1>9, QRDecodes
<1>11. QED
  BY <1>1, <1>5, <1>10

FrameHits(at, i) == {n \in 0..71 : VoicePlace(72 * (i - 1) + n) \in at}
FrameOf(burst, i) == Cut({n \in 0..215 : VoicePlace(n) \in burst}, 72 * (i - 1), 72)

(* The frames of the vocoder are read with the bits inverted that were hit. *)
LEMMA VocoderRead ==
  ASSUME NEW voice \in VoiceBursts, CenterFits(voice), NEW at,
         NEW burst, burst = Inverted(EncodeVoice(voice), at),
         NEW i \in 1..3
  PROVE  FrameOf(burst, i) = Inverted(voice.ambe[i], FrameHits(at, i))
<1>1. PICK ambe : ambe = voice.ambe /\ ambe \in [1..3 -> SUBSET (0..71)]
  BY DEF VoiceBursts
<1>2. PICK frame : frame = ambe[i] /\ frame \in SUBSET (0..71)
  BY <1>1
<1>3. PICK hits : hits = FrameHits(at, i) /\ hits = {n \in 0..71 : VoicePlace(72 * (i - 1) + n) \in at}
  BY DEF FrameHits
<1>4. PICK payload : payload = {n \in 0..215 : VoicePlace(n) \in burst}
  OBVIOUS
<1>5. ASSUME NEW n \in 0..71 PROVE 72 * (i - 1) + n \in payload <=> n \in Inverted(frame, hits)
  <2>1. PICK k \in 0..215 : k = 72 * (i - 1) + n
    <3>1. 72 * (i - 1) + n \in 0..215
      OBVIOUS
    <3>2. QED
      BY <3>1
  <2>2. VoicePlace(k) \in VocoderOf(ambe) <=> n \in frame
    BY <1>1, <1>2, <2>1, VocoderPlaces
  <2>3. VoicePlace(k) \notin MiddleOf(voice)
    BY VoicePlaceIn, MiddlePlaces
  <2>4. VoicePlace(k) \in EncodeVoice(voice) <=> n \in frame
    BY <1>1, <2>2, <2>3, VoiceSent
  <2>5. VoicePlace(k) \in at <=> n \in hits
    BY <1>3, <2>1
  <2>6. VoicePlace(k) \in burst <=> n \in Inverted(frame, hits)
    BY <2>4, <2>5, Zenon DEF Inverted
  <2>7. QED
    BY <1>4, <2>1, <2>6
<1>6. PICK first \in Nat : first = 72 * (i - 1)
  OBVIOUS
<1>7. \A x : x \in Cut(payload, first, 72) <=> \E p \in payload : p >= first /\ p < first + 72 /\ x = p - first
  BY DEF Cut
<1>8. ASSUME NEW x \in Cut(payload, first, 72) PROVE x \in Inverted(frame, hits)
  <2>1. PICK p \in payload : p >= first /\ p < first + 72 /\ x = p - first
    BY <1>7, <1>8
  <2>2. p \in 0..215
    BY <1>4
  <2>3. x \in 0..71 /\ first + x = p
    BY <2>1, <2>2
  <2>4. QED
    BY <1>5, <1>6, <2>1, <2>3
<1>9. ASSUME NEW x \in Inverted(frame, hits) PROVE x \in Cut(payload, first, 72)
  <2>1. x \in 0..71
    BY <1>2, <1>3 DEF Inverted
  <2>2. first + x \in payload
    BY <1>5, <1>6, <2>1
  <2>3. first + x >= first /\ first + x < first + 72 /\ x = (first + x) - first
    BY <2>1
  <2>4. QED
    BY <1>7, <2>2, <2>3
<1>10. Cut(payload, first, 72) = Inverted(frame, hits)
  BY <1>8, <1>9
<1>11. QED
  BY <1>1, <1>2, <1>3, <1>4, <1>6, <1>10, Zenon DEF FrameOf

(* What of a voice burst is to arrive. *)
SameVoice(voice, data, at) ==
  /\ data.kind = "voice" /\ data.isSync = voice.isSync
  /\ ~voice.isSync => /\ data.PI = voice.PI /\ data.LCSS = voice.LCSS
                      /\ data.colorCode = voice.colorCode \cap {0}
  /\ \A i \in 1..3 :
       data.ambe[i] = Inverted(voice.ambe[i], FrameHits(at, i))

LEMMA VoiceRead ==
  ASSUME NEW voice \in VoiceBursts, CenterFits(voice), NEW at,
         Cardinality({n \in 0..14 : EmbPlace(n) \in at}) <= 2
  PROVE  SameVoice(voice, DecodeVoice(Inverted(EncodeVoice(voice), at), voice.isSync), at)
<1>1. PICK burst : burst = Inverted(EncodeVoice(voice), at)
  OBVIOUS
<1>2. PICK payload : payload = {n \in 0..215 : VoicePlace(n) \in burst}
  OBVIOUS
<1>3. PICK ambe : ambe = [i \in 1..3 |-> Cut(payload, 72 * (i - 1), 72)]
  OBVIOUS
<1>4. \A i \in 1..3 : ambe[i] = Inverted(voice.ambe[i], FrameHits(at, i))
  <2>1. ASSUME NEW i \in 1..3
        PROVE  ambe[i] = Inverted(voice.ambe[i], FrameHits(at, i))
    <3>1. ambe[i] = Cut(payload, 72 * (i - 1), 72)
      BY <1>3
    <3>2. FrameOf(burst, i) = Inverted(voice.ambe[i], FrameHits(at, i))
      BY <1>1, VocoderRead
    <3>3. QED
      BY <1>2, <3>1, <3>2, Zenon DEF FrameOf
  <2>2. QED
    BY <2>1
<1>5. CASE voice.isSync
  <2>1. DecodeVoice(burst, voice.isSync) =
          [kind |-> "voice", isSync |-> TRUE, colorCode |-> {}, PI |-> FALSE, LCSS |-> {},
           ambe |-> ambe, center |-> Cut(burst, 108, 48)]
    BY <1>2, <1>3, <1>5, Zenon DEF DecodeVoice
  <2>2. voice.isSync = TRUE
    BY <1>5 DEF VoiceBursts
  <2>3. PICK data : data = DecodeVoice(burst, voice.isSync)
    OBVIOUS
  <2>4. data.kind = "voice" /\ data.isSync = TRUE /\ data.ambe = ambe
    BY <2>1, <2>3
  <2>5. SameVoice(voice, data, at)
    BY <1>4, <2>2, <2>4, Zenon DEF SameVoice
  <2>6. QED
    BY <1>1, <2>3, <2>5, Zenon
<1>6. CASE ~voice.isSync
  <2>1. PICK dec : dec = CyclicDecode(QR1676, QRTable, {b \in 0..15 : EmbPlace(15 - b) \in burst})
    OBVIOUS
  <2>2. dec = EmbWord(voice)
    BY <1>1, <1>6, <2>1, SignalRead
  <2>3. dec # Undecided
    <3>1. dec \in SUBSET (0..6)
      BY <2>2, EmbWordSent
    <3>2. QED
      BY <3>1 DEF Undecided
  <2>4. DecodeVoice(burst, voice.isSync) =
          [kind |-> "voice", isSync |-> FALSE, colorCode |-> {b - 3 : b \in dec \cap (3..6)},
           PI |-> 2 \in dec, LCSS |-> dec \cap {0, 1}, ambe |-> ambe, center |-> Cut(burst, 116, 32)]
    BY <1>2, <1>3, <1>6, <2>1, <2>3, Zenon DEF DecodeVoice
  <2>5. voice.isSync = FALSE /\ voice.PI \in BOOLEAN /\ voice.LCSS \in SUBSET {0, 1}
    BY <1>6 DEF VoiceBursts
  <2>6. PICK code : code = voice.colorCode \cap {0} /\ code \in SUBSET {0}
    OBVIOUS
  <2>7. dec = {3 + b : b \in code} \cup voice.LCSS \cup (IF voice.PI THEN {2} ELSE {})
    <3>1. voice.LCSS \cap {0, 1} = voice.LCSS
      BY <2>5
    <3>2. QED
      BY <2>2, <2>6, <3>1 DEF EmbWord
  <2>8. {b - 3 : b \in dec \cap (3..6)} = code
    BY <2>5, <2>6, <2>7
  <2>9. (2 \in dec) <=> voice.PI
    BY <2>5, <2>6, <2>7
  <2>10. (2 \in dec) = voice.PI
    BY <2>5, <2>9
  <2>11. dec \cap {0, 1} = voice.LCSS
    BY <2>5, <2>6, <2>7
  <2>12. PICK data : data = DecodeVoice(burst, voice.isSync)
    OBVIOUS
  <2>13. /\ data.kind = "voice" /\ data.isSync = FALSE /\ data.ambe = ambe
         /\ data.colorCode = code /\ data.PI = (2 \in dec) /\ data.LCSS = dec \cap {0, 1}
    BY <2>4, <2>8, <2>12
  <2>14. SameVoice(voice, data, at)
    BY <1>4, <2>5, <2>6, <2>10, <2>11, <2>13, Zenon DEF SameVoice
  <2>15. QED
    BY <1>1, <2>12, <2>14, Zenon
<1>7. QED
  BY <1>5, <1>6

-----------------------------------------------------------------------------
(* What is put into a voice frame, coded for the air. *)
VoiceCoded(voice) == [voice EXCEPT !.ambe = Vocoded(voice.ambe)]

LEMMA VoiceCodedIn ==
  ASSUME NEW voice, VoiceFits(voice)
  PROVE  /\ VoiceCoded(voice) \in VoiceBursts /\ CenterFits(VoiceCoded(voice))
         /\ VoiceCoded(voice).isSync = voice.isSync
         /\ VoiceCoded(voice).colorCode = voice.colorCode
         /\ VoiceCoded(voice).PI = voice.PI /\ VoiceCoded(voice).LCSS = voice.LCSS
         /\ \A i \in 1..3 : /\ voice.ambe[i] \in SUBSET (0..48)
                            /\ VoiceCoded(voice).ambe[i] = Convert49BitTo72BitAMBE(voice.ambe[i])
<1>1. voice \in [kind : {"voice"}, isSync : BOOLEAN, colorCode : SUBSET (0..3), PI : BOOLEAN,
                 LCSS : SUBSET {0, 1}, ambe : [1..3 -> SUBSET (0..48)], center : SUBSET (0..47)]
  BY DEF VoiceFits, RawBits
<1>2. PICK words : words = voice.ambe /\ words \in [1..3 -> SUBSET (0..48)]
  BY <1>1
<1>3. PICK waves : waves = Vocoded(words)
  OBVIOUS
<1>4. waves = [i \in 1..3 |-> Convert49BitTo72BitAMBE(words[i])]
  BY <1>3 DEF Vocoded
<1>5. \A x : Convert49BitTo72BitAMBE(x) \in SUBSET (0..71)
  BY DEF Convert49BitTo72BitAMBE, InterleaveAmbe, AirBits
<1>6. waves \in [1..3 -> SUBSET (0..71)]
  BY <1>4, <1>5
<1>7. VoiceCoded(voice) = [voice EXCEPT !.ambe = waves]
  BY <1>2, <1>3 DEF VoiceCoded
<1>8. /\ VoiceCoded(voice) \in VoiceBursts
      /\ VoiceCoded(voice).isSync = voice.isSync /\ VoiceCoded(voice).colorCode = voice.colorCode
      /\ VoiceCoded(voice).PI = voice.PI /\ VoiceCoded(voice).LCSS = voice.LCSS
      /\ VoiceCoded(voice).center = voice.center /\ VoiceCoded(voice).ambe = waves
  BY <1>1, <1>6, <1>7 DEF VoiceBursts
<1>9. CenterFits(VoiceCoded(voice))
  BY <1>8 DEF CenterFits, VoiceFits
<1>10. QED
  BY <1>2, <1>4, <1>8, <1>9

(***************************************************************************)
(* A voice frame with any fields, vocoder frames and signalling is read    *)
(* with its signalling, through two wrong bits in it, and with no more     *)
(* wrong bits in a vocoder frame than hit it, as long as none of those     *)
(* that key the scrambling of its second word was hit.                     *)
(***************************************************************************)
THEOREM VoiceSurvivesAlways == Spec => []VoiceSurvives
<1>1. message \in Messages /\ Carried => VoiceSurvives
  <2> SUFFICES ASSUME message \in Messages, Carried,
                      Received("voice"), Cardinality(EmbHits) <= 2
               PROVE  LET sent == Sent.data
                          data == got[1].data
                          wrong(i) == BitSum(sent.ambe[i], Convert72BitTo49BitAMBE(data.ambe[i]))
                      IN  /\ data.kind = "voice" /\ data.isSync = sent.isSync
                          /\ ~sent.isSync => /\ data.PI = sent.PI /\ data.LCSS = sent.LCSS
                                             /\ data.colorCode = sent.colorCode \cap {0}
                          /\ \A i \in 1..3 : WordHits(i) \cap KeyPlaces = {}
                                               => Cardinality(wrong(i)) <= Cardinality(WordHits(i))
    BY Zenon DEF VoiceSurvives
  <2>1. PICK fields, voice : fields = message.frame.fields /\ voice = message.frame.data
    OBVIOUS
  <2>2. message.kind = "voice" /\ got # <<>>
    BY DEF Received
  <2>3. /\ message.frame = [fields |-> fields, data |-> voice]
        /\ FieldsFit(VoiceData, fields) /\ VoiceFits(voice)
        /\ Value(fields.frame_type) # 2
        /\ voice.isSync <=> Value(fields.frame_type) = 1
        /\ \A places \in Damages(message) : places \subseteq 0..BurstBits-1
    BY <2>1, <2>2, MessagesAssumption
  <2>4. PICK at \in SUBSET (0..263) : at = hit
    <3>1. hit = {} \/ hit \in Damages(message)
      BY DEF Carried
    <3>2. BurstBits - 1 = 263
      BY DEF BurstBits
    <3>3. QED
      BY <2>3, <3>1, <3>2
  <2>5. PICK coded : coded = VoiceCoded(voice)
    OBVIOUS
  <2>6. /\ coded \in VoiceBursts /\ CenterFits(coded)
        /\ coded.isSync = voice.isSync /\ coded.colorCode = voice.colorCode
        /\ coded.PI = voice.PI /\ coded.LCSS = voice.LCSS
        /\ \A i \in 1..3 : /\ voice.ambe[i] \in SUBSET (0..48)
                           /\ coded.ambe[i] = Convert49BitTo72BitAMBE(voice.ambe[i])
    BY <2>3, <2>5, VoiceCodedIn
  <2>7. PICK sent : sent = EncodeVoice(coded) /\ sent \in SUBSET (0..263)
    BY <2>6, VoiceBits
  <2>8. DamageStart = 128
    BY <2>2 DEF DamageStart, HasBurst, BurstStart
  <2>9. Encoded = WriteFields(VoiceData, fields) \cup InFrame(sent)
    <3>1. Encoded = VoiceDataBuffer([message.frame EXCEPT !.data.ambe = Vocoded(@)])
      BY <2>2, Zenon DEF Encoded
    <3>2. [message.frame EXCEPT !.data.ambe = Vocoded(@)] = [fields |-> fields, data |-> coded]
      BY <2>3, <2>5 DEF VoiceCoded
    <3>3. coded.kind = "voice"
      BY <2>6 DEF VoiceBursts
    <3>4. EncodeBurst(coded) = sent
      BY <2>7, <3>3 DEF EncodeBurst
    <3>5. VoiceDataBuffer([fields |-> fields, data |-> coded])
            = WriteFields(VoiceData, fields) \cup {BurstStart + n : n \in EncodeBurst(coded)}
      BY DEF VoiceDataBuffer
    <3>6. QED
      BY <3>1, <3>2, <3>4, <3>5, Zenon DEF BurstStart, InFrame
  <2>10. PICK burst : burst = Inverted(sent, at) /\ burst \in SUBSET (0..263)
    BY <2>7, StillBurst
  <2>11. PICK buffer : buffer = air[1] /\ buffer = WriteFields(VoiceData, fields) \cup InFrame(burst)
    <3>1. air[1] = Inverted(Encoded, InFrame(at))
      BY <2>2, <2>4, <2>8 DEF Carried, Damaged, InFrame
    <3>2. DamageMoves(fields, sent, at)
      BY <2>7, FrameDamaged
    <3>3. QED
      BY <2>9, <2>10, <3>1, <3>2, Zenon DEF DamageMoves
  <2>12. ReadFields(VoiceData, buffer) = fields /\ Cut(buffer, BurstStart, BurstBits) = burst
    BY <2>3, <2>10, <2>11, FrameRead
  <2>13. PICK data : data = got[1].data /\ data = DecodeVoice(burst, coded.isSync)
    <3>1. Decoded = VoiceDataFrom(air[1])
      BY <2>2, Zenon DEF Decoded
    <3>2. got = <<Decoded>>
      BY <2>2, Zenon DEF Carried
    <3>3. got[1] = VoiceDataFrom(buffer)
      BY <2>11, <3>1, <3>2
    <3>4. (Value(fields.frame_type) = 1) = coded.isSync
      <4>1. coded.isSync \in BOOLEAN
        BY <2>6 DEF VoiceBursts
      <4>2. QED
        BY <2>3, <2>6, <4>1, Zenon
    <3>5. VoiceDataFrom(buffer) = [fields |-> fields, data |-> DecodeVoice(burst, coded.isSync)]
      BY <2>3, <2>12, <3>4, Zenon DEF VoiceDataFrom
    <3>6. QED
      BY <3>3, <3>5
  <2>14. SameVoice(coded, data, at)
    <3>1. Cardinality({n \in 0..14 : EmbPlace(n) \in at}) <= 2
      BY <2>4 DEF EmbHits
    <3>2. QED
      BY <2>6, <2>7, <2>10, <2>13, <3>1, VoiceRead, Zenon
  <2>15. ASSUME NEW i \in 1..3, WordHits(i) \cap KeyPlaces = {}
         PROVE  Cardinality(BitSum(voice.ambe[i], Convert72BitTo49BitAMBE(data.ambe[i])))
                  <= Cardinality(WordHits(i))
    <3>1. PICK hits \in SUBSET (0..71) : hits = FrameHits(at, i)
      BY DEF FrameHits
    <3>2. PICK wrong : wrong = WordHits(i) /\ wrong = {PlaceOf(n) : n \in hits}
      <4>1. AirBits - 1 = 71
        BY DEF AirBits
      <4>2. QED
        BY <2>4, <3>1, <4>1, ZenonT(60) DEF WordHits, FrameHits
    <3>3. PICK raw \in SUBSET (0..48) : raw = voice.ambe[i]
      BY <2>6
    <3>4. data.ambe[i] = Inverted(Convert49BitTo72BitAMBE(raw), hits)
      BY <2>6, <2>14, <3>1, <3>3, Zenon DEF SameVoice
    <3>5. BitSum(raw, Convert72BitTo49BitAMBE(Inverted(Convert49BitTo72BitAMBE(raw), hits)))
            = {n \in 0..48 : WordPlace(n) \in {PlaceOf(k) : k \in hits}}
      <4>1. {PlaceOf(n) : n \in hits} \cap KeyPlaces = {}
        BY <2>15, <3>2, Zenon
      <4>2. QED
        BY <4>1, FrameSurvives
    <3>6. Cardinality({n \in 0..48 : WordPlace(n) \in wrong}) <= Cardinality(wrong)
      BY <3>2, NoMoreWrong
    <3>7. QED
      BY <3>2, <3>3, <3>4, <3>5, <3>6, ZenonT(60)
  <2>16. /\ data.kind = "voice" /\ data.isSync = voice.isSync
         /\ ~voice.isSync => /\ data.PI = voice.PI /\ data.LCSS = voice.LCSS
                             /\ data.colorCode = voice.colorCode \cap {0}
    BY <2>6, <2>14, Zenon DEF SameVoice
  <2>17. Sent.data = voice
    BY <2>1 DEF Sent
  <2>18. QED
    BY <2>13, <2>15, <2>16, <2>17, Zenon
<1>2. QED
  BY <1>1, LinkCarries, PTL

-----------------------------------------------------------------------------
(***************************************************************************)
(* The trellis code.  Its points, by state and tribit.                     *)
(***************************************************************************)
PointOf(state, tribit) == EncodeTable[state + 1][tribit + 1]

OddState(s) == IF s \in {2, 3, 4, 5} THEN 1 ELSE 0

LEMMA PointIn ==
  ASSUME NEW s \in 0..7, NEW j \in 0..7
  PROVE  PointOf(s, j) \in 0..15 /\ PointOf(s, j) % 2 = OddState(s)
BY SMTT(60) DEF PointOf, EncodeTable, OddState

LEMMA RowApart ==
  ASSUME NEW s \in 0..7, NEW j \in 0..7, NEW k \in 0..7, PointOf(s, j) = PointOf(s, k)
  PROVE  j = k
BY SMTT(60) DEF PointOf, EncodeTable

LEMMA StatesApart ==
  ASSUME NEW s \in 0..7, NEW u \in 0..7, NEW j \in 0..7, PointOf(s, j) = PointOf(u, j)
  PROVE  s = u
BY SMTT(60) DEF PointOf, EncodeTable

LEMMA TribitIn ==
  ASSUME NEW s, NEW p
  PROVE  TribitOf(s, p) \in 0..7 \cup {9}
BY DEF TribitOf, NoTribit

LEMMA TribitBack ==
  ASSUME NEW s \in 0..7, NEW j \in 0..7
  PROVE  TribitOf(s, PointOf(s, j)) = j
<1>1. PICK tribits : tribits = {k \in 0..7 : EncodeTable[s + 1][k + 1] = PointOf(s, j)}
  OBVIOUS
<1>2. j \in tribits /\ \A k \in tribits : k = j
  BY <1>1, RowApart DEF PointOf
<1>3. (CHOOSE k \in tribits : TRUE) = j /\ tribits # {}
  BY <1>2
<1>4. s # NoTribit
  BY DEF NoTribit
<1>5. QED
  BY <1>1, <1>3, <1>4, Zenon DEF TribitOf

(* A tribit tells its point, from a given state. *)
LEMMA TribitTells ==
  ASSUME NEW s \in 0..7, NEW p, TribitOf(s, p) # 9
  PROVE  PointOf(s, TribitOf(s, p)) = p
<1>1. PICK tribits : tribits = {k \in 0..7 : EncodeTable[s + 1][k + 1] = p}
  OBVIOUS
<1>2. TribitOf(s, p) = (CHOOSE k \in tribits : TRUE) /\ tribits # {}
  BY <1>1, Zenon DEF TribitOf, NoTribit
<1>3. TribitOf(s, p) \in tribits
  BY <1>2, Zenon
<1>4. QED
  BY <1>1, <1>3 DEF PointOf

-----------------------------------------------------------------------------
(* The path through any points, state by state. *)
IsPath(points, path) ==
  /\ path \in [1..50 -> 0..9]
  /\ path[1] = 0
  /\ \A i \in 1..49 : path[i + 1] = TribitOf(path[i], points[i])

LEMMA Longer ==
  ASSUME NEW n \in 1..49, NEW s \in [1..n -> 0..9], NEW x \in 0..9
  PROVE  /\ Append(s, x) \in [1..n+1 -> 0..9]
         /\ Append(s, x)[n + 1] = x
         /\ \A i \in 1..n : Append(s, x)[i] = s[i]
<1>1. s \in Seq(0..9) /\ Len(s) = n
  OBVIOUS
<1>2. PICK longer : longer = Append(s, x)
  OBVIOUS
<1>3. /\ longer \in Seq(0..9) /\ Len(longer) = n + 1 /\ longer[n + 1] = x
      /\ \A i \in 1..n : longer[i] = s[i]
  BY <1>1, <1>2, AppendProperties
<1>4. longer \in [1..n+1 -> 0..9]
  <2>1. longer \in [1..Len(longer) -> 0..9]
    BY <1>3, LenProperties, Zenon
  <2>2. QED
    BY <1>3, <2>1, Zenon
<1>5. QED
  BY <1>2, <1>3, <1>4, Zenon

(* The first n tribits of it. *)
Begun(points, path, n) ==
  /\ path \in [1..n+1 -> 0..9]
  /\ path[1] = 0
  /\ \A i \in 1..n : path[i + 1] = TribitOf(path[i], points[i])

LEMMA Onward ==
  ASSUME NEW points, NEW k \in 1..49, NEW path, Begun(points, path, k - 1)
  PROVE  Begun(points, Append(path, TribitOf(path[k], points[k])), k)
<1>1. PICK x \in 0..9 : x = TribitOf(path[k], points[k])
  BY TribitIn, SMTT(30)
<1>2. path \in [1..k -> 0..9]
  BY DEF Begun
<1>3. PICK longer : longer = Append(path, x)
  BY Zenon
<1>4. /\ longer \in [1..k+1 -> 0..9] /\ longer[k + 1] = x
      /\ \A i \in 1..k : longer[i] = path[i]
  BY <1>2, <1>3, Longer, ZenonT(60)
<1>5. longer[1] = 0
  BY <1>4 DEF Begun
<1>6. ASSUME NEW i \in 1..k PROVE longer[i + 1] = TribitOf(longer[i], points[i])
  <2>1. CASE i = k
    BY <1>1, <1>4, <2>1
  <2>2. CASE i # k
    <3>1. i \in 1..k-1 /\ i + 1 \in 1..k
      BY <2>2
    <3>2. QED
      BY <1>4, <3>1 DEF Begun
  <2>3. QED
    BY <2>1, <2>2
<1>7. Begun(points, longer, k)
  BY <1>4, <1>5, <1>6 DEF Begun
<1>8. QED
  BY <1>1, <1>3, <1>7

LEMMA PathIs ==
  ASSUME NEW points
  PROVE  IsPath(points, Path(points))
<1> DEFINE Next1(path, i) == Append(path, TribitOf(path[i], points[i]))
           Is(r) == r = [i \in 0..49 |-> IF i = 0 THEN << 0 >> ELSE Next1(r[i - 1], i)]
           upTo == CHOOSE r : Is(r)
<1>1. Path(points) = upTo[49]
  BY Zenon DEF Path, NumPoints
<1>2. \A r : Is(r) <=> r = [i \in 0..49 |-> IF i = 0 THEN << 0 >> ELSE Next1(r[i - 1], i)]
  BY Zenon
<1>3. \A path, i : Next1(path, i) = Append(path, TribitOf(path[i], points[i]))
  BY Zenon
<1>4. PICK S : S = Seq(0..9)
  OBVIOUS
<1>5. << 0 >> \in S /\ \A path \in S, i \in 1..49 : Next1(path, i) \in S
  <2>1. ASSUME NEW path \in Seq(0..9), NEW i \in 1..49 PROVE Next1(path, i) \in Seq(0..9)
    <3>1. PICK x \in 0..9 : x = TribitOf(path[i], points[i])
      BY TribitIn, SMTT(30)
    <3>2. Append(path, x) \in Seq(0..9)
      OBVIOUS
    <3>3. QED
      BY <1>3, <3>1, <3>2
  <2>2. << 0 >> \in Seq(0..9)
    OBVIOUS
  <2>3. QED
    BY <1>4, <2>1, <2>2
<1> HIDE DEF Is
<1> HIDE DEF Next1
<1>6. PICK step : step = [p \in (1..49) \X S |-> Next1(p[2], p[1])]
  OBVIOUS
<1>7. PICK first : first = << 0 >>
  OBVIOUS
<1>8. \A k \in 1..49, v \in S : step[<<k, v>>] = Next1(v, k)
  BY <1>6
<1>9. Keeps(S, first, step, 0, 49)
  <2>1. \A k \in 0+1..49, v \in S : step[<<k, v>>] \in S
    <3>1. 0 + 1 = 1
      OBVIOUS
    <3>2. QED
      BY <1>5, <1>8, <3>1, Zenon
  <2>2. 0 \in Nat /\ 49 \in Nat /\ 0 <= 49
    OBVIOUS
  <2>3. QED
    BY <1>5, <1>7, <2>1, <2>2, Zenon DEF Keeps
<1>10. PICK r \in [0..49 -> S] : Steps(r, first, step, 0, 49)
  BY <1>9, Iterated
<1>11. Is(r)
  <2>1. ASSUME NEW k \in 0..49 PROVE r[k] = IF k = 0 THEN first ELSE Next1(r[k - 1], k)
    <3>1. CASE k = 0
      BY <1>10, <3>1 DEF Steps
    <3>2. CASE k # 0
      <4>1. k \in 0+1..49 /\ k \in 1..49 /\ r[k - 1] \in S
        BY <1>10, <3>2
      <4>2. r[k] = step[<<k, r[k - 1]>>]
        BY <1>10, <4>1 DEF Steps
      <4>3. QED
        BY <1>8, <3>2, <4>1, <4>2
    <3>3. QED
      BY <3>1, <3>2
  <2>2. r = [k \in 0..49 |-> IF k = 0 THEN first ELSE Next1(r[k - 1], k)]
    BY <2>1
  <2>3. QED
    BY <1>2, <1>7, <2>2, Zenon
<1>12. upTo = [k \in 0..49 |-> IF k = 0 THEN first ELSE Next1(upTo[k - 1], k)]
  BY <1>2, <1>7, <1>11, Zenon
<1> HIDE DEF upTo
<1>13. upTo[0] = first /\ \A k \in 1..49 : upTo[k] = Next1(upTo[k - 1], k)
  BY <1>12
<1>14. PICK T : T = {k \in 0..49 : Begun(points, upTo[k], k)}
  OBVIOUS
<1>15. 0 \in T
  <2>1. Begun(points, << 0 >>, 0)
    BY DEF Begun
  <2>2. 0 \in 0..49
    OBVIOUS
  <2>3. QED
    BY <1>7, <1>13, <1>14, <2>1, <2>2, Zenon
<1>16. ASSUME NEW k \in 0+1..49, k - 1 \in T PROVE k \in T
  <2>1. k \in 1..49 /\ Begun(points, upTo[k - 1], k - 1)
    BY <1>14, <1>16
  <2>2. Begun(points, Next1(upTo[k - 1], k), k)
    BY <1>3, <2>1, Onward
  <2>3. QED
    BY <1>13, <1>14, <2>1, <2>2
<1>17. \A k \in 0..49 : k \in T
  BY <1>15, <1>16, IntervalInduction
<1>18. Begun(points, upTo[49], 49)
  BY <1>14, <1>17
<1>19. QED
  BY <1>1, <1>18 DEF Begun, IsPath

(* Where a path fails. *)
LEMMA FailPosIn ==
  ASSUME NEW path \in [1..50 -> 0..9]
  PROVE  /\ FailPos(path) \in 0..48 \cup {999}
         /\ FailPos(path) = 999 => path[50] = 0
<1>1. PICK failed : failed = {i \in 0..48 : path[i + 2] = 9}
  OBVIOUS
<1>2. FailPos(path) = IF failed # {} THEN CHOOSE i \in failed : \A j \in failed : i <= j
                      ELSE IF path[50] # 0 THEN 48 ELSE 999
  BY <1>1 DEF FailPos, NumPoints, NoTribit, NoError
<1>3. CASE failed # {}
  <2>1. failed \subseteq Nat
    BY <1>1
  <2>2. PICK i \in failed : \A j \in failed : <<j, i>> \notin OpToRel(<, Nat)
    BY <1>3, <2>1, WFMin, NatLessThanWellFounded
  <2>3. ASSUME NEW j \in failed PROVE i <= j
    <3>1. i \in Nat /\ j \in Nat
      BY <2>1
    <3>2. ~(j < i)
      BY <2>2, <3>1 DEF OpToRel
    <3>3. QED
      BY <3>1, <3>2
  <2>4. FailPos(path) \in failed
    BY <1>2, <1>3, <2>3, Zenon
  <2>5. QED
    BY <1>1, <2>4
<1>4. CASE failed = {}
  BY <1>2, <1>4
<1>5. QED
  BY <1>3, <1>4

-----------------------------------------------------------------------------
(* The points e of the tribits t, which begin and end in state 0. *)
Coded(t, e) ==
  /\ t \in [0..49 -> 0..7] /\ t[0] = 0 /\ t[49] = 0
  /\ e = [i \in 1..49 |-> PointOf(t[i - 1], t[i])]

LEMMA PointsCoded ==
  ASSUME NEW t, NEW e, Coded(t, e)
  PROVE  e \in [1..49 -> 0..15] /\ \A i \in 1..49 : e[i] % 2 = OddState(t[i - 1])
<1>1. ASSUME NEW i \in 1..49 PROVE e[i] \in 0..15 /\ e[i] % 2 = OddState(t[i - 1])
  <2>1. i \in 0..49 /\ i - 1 \in 0..49
    OBVIOUS
  <2>2. t[i - 1] \in 0..7 /\ t[i] \in 0..7 /\ e[i] = PointOf(t[i - 1], t[i])
    BY <2>1 DEF Coded
  <2>3. QED
    BY <2>2, PointIn
<1>2. QED
  BY <1>1, Zenon DEF Coded

(* The path follows the tribits as long as the points are theirs. *)
LEMMA Follows ==
  ASSUME NEW t, NEW e, Coded(t, e), NEW points, NEW path, IsPath(points, path),
         NEW f \in 0..49, \A i \in 1..f : points[i] = e[i]
  PROVE  \A i \in 0..f : path[i + 1] = t[i]
<1>1. PICK T : T = {i \in 0..f : path[i + 1] = t[i]}
  OBVIOUS
<1>2. 0 \in T
  BY <1>1 DEF Coded, IsPath
<1>3. ASSUME NEW i \in 0+1..f, i - 1 \in T PROVE i \in T
  <2>1. i \in 1..49 /\ i \in 0..49 /\ i - 1 \in 0..49 /\ i \in 1..f
    OBVIOUS
  <2>2. path[i] = t[i - 1]
    BY <1>1, <1>3
  <2>3. t[i - 1] \in 0..7 /\ t[i] \in 0..7 /\ points[i] = PointOf(t[i - 1], t[i])
    BY <2>1 DEF Coded
  <2>4. TribitOf(t[i - 1], points[i]) = t[i]
    BY <2>3, TribitBack
  <2>5. path[i + 1] = t[i]
    BY <2>1, <2>2, <2>4 DEF IsPath
  <2>6. QED
    BY <1>1, <2>5
<1>4. \A i \in 0..f : i \in T
  BY <1>2, <1>3, IntervalInduction
<1>5. QED
  BY <1>1, <1>4

(* A path that has left them never joins them again: from two states one   *)
(* point leads to two tribits.                                             *)
LEMMA NeverJoins ==
  ASSUME NEW t, NEW e, Coded(t, e), NEW points, NEW path, IsPath(points, path),
         NEW f \in 1..49, \A i \in f+1..49 : points[i] = e[i], path[f + 1] # t[f]
  PROVE  path[50] # 0
<1>1. PICK T : T = {i \in f..49 : path[i + 1] # t[i]}
  OBVIOUS
<1>2. f \in T
  BY <1>1
<1>3. ASSUME NEW i \in f+1..49, i - 1 \in T PROVE i \in T
  <2>1. i \in 1..49 /\ i \in 0..49 /\ i - 1 \in 0..49 /\ i \in f..49 /\ i \in 1..50
    OBVIOUS
  <2>2. path[i] # t[i - 1]
    BY <1>1, <1>3
  <2>3. PICK s, u, j : s = path[i] /\ u = t[i - 1] /\ j = t[i]
    OBVIOUS
  <2>4. u \in 0..7 /\ j \in 0..7 /\ points[i] = PointOf(u, j)
    BY <2>1, <2>3 DEF Coded
  <2>5. path[i + 1] = TribitOf(s, points[i])
    BY <2>1, <2>3 DEF IsPath
  <2>6. s \in 0..7 \cup {9}
    <3>1. CASE i = 1
      BY <2>3, <3>1 DEF IsPath
    <3>2. CASE i # 1
      <4>1. i - 1 \in 1..49 /\ (i - 1) + 1 = i
        BY <3>2
      <4>2. s = TribitOf(path[i - 1], points[i - 1])
        BY <2>3, <4>1 DEF IsPath
      <4>3. QED
        BY <4>2, TribitIn
    <3>3. QED
      BY <3>1, <3>2
  <2>7. TribitOf(s, points[i]) # j
    <3>1. CASE s = 9
      <4>1. TribitOf(s, points[i]) = 9
        BY <3>1 DEF TribitOf, NoTribit
      <4>2. QED
        BY <2>4, <4>1
    <3>2. CASE s \in 0..7
      <4> SUFFICES ASSUME TribitOf(s, points[i]) = j PROVE FALSE
        OBVIOUS
      <4>1. PointOf(s, j) = PointOf(u, j)
        BY <2>4, <3>2, TribitTells
      <4>2. s = u
        BY <2>4, <3>2, <4>1, StatesApart
      <4>3. QED
        BY <2>2, <2>3, <4>2
    <3>3. QED
      BY <2>6, <3>1, <3>2
  <2>8. QED
    BY <1>1, <2>1, <2>3, <2>5, <2>7
<1>4. \A i \in f..49 : i \in T
  <2>1. f \in Nat /\ 49 \in Nat
    OBVIOUS
  <2>2. \A i \in f+1..49 : i - 1 \in T => i \in T
    BY <1>3
  <2>3. QED
    BY <1>2, <2>1, <2>2, IntervalInduction, Zenon
<1>5. QED
  BY <1>1, <1>4 DEF Coded

-----------------------------------------------------------------------------
(* The path through the points of a block is complete, and no other one    *)
(* that differs in one of the points is.                                   *)
LEMMA CodedPath ==
  ASSUME NEW t, NEW e, Coded(t, e)
  PROVE  (\A i \in 0..49 : Path(e)[i + 1] = t[i]) /\ FailPos(Path(e)) = 999
<1>1. PICK path : path = Path(e) /\ IsPath(e, path)
  BY PathIs, SMTT(30)
<1>2. \A i \in 0..49 : path[i + 1] = t[i]
  <2>1. \A i \in 1..49 : e[i] = e[i]
    OBVIOUS
  <2>2. 49 \in 0..49
    OBVIOUS
  <2>3. QED
    BY <1>1, <2>1, <2>2, Follows
<1>3. {i \in 0..48 : path[i + 2] = 9} = {}
  <2>1. ASSUME NEW i \in 0..48 PROVE path[i + 2] # 9
    <3>1. i + 1 \in 0..49 /\ (i + 1) + 1 = i + 2
      OBVIOUS
    <3>2. t[i + 1] \in 0..7
      BY <3>1 DEF Coded
    <3>3. path[i + 2] = t[i + 1]
      BY <1>2, <3>1
    <3>4. QED
      BY <3>2, <3>3
  <2>2. QED
    BY <2>1
<1>4. path[50] = 0
  <2>1. 49 \in 0..49 /\ 49 + 1 = 50
    OBVIOUS
  <2>2. QED
    BY <1>2, <2>1 DEF Coded
<1>5. FailPos(path) = 999
  BY <1>3, <1>4 DEF FailPos, NumPoints, NoTribit, NoError
<1>6. QED
  BY <1>1, <1>2, <1>5

(* With one of the points replaced by another one. *)
LEMMA OtherPath ==
  ASSUME NEW t, NEW e, Coded(t, e), NEW f \in 1..49, NEW v \in 0..15, v # e[f]
  PROVE  FailPos(Path([e EXCEPT ![f] = v])) \in 0..48
<1>1. PICK points : points = [e EXCEPT ![f] = v]
  OBVIOUS
<1>2. PICK path : path = Path(points) /\ IsPath(points, path)
  BY PathIs
<1>3. e \in [1..49 -> 0..15]
  BY PointsCoded
<1>4. points[f] = v /\ \A i \in 1..49 : i # f => points[i] = e[i]
  BY <1>1, <1>3
<1>5. path[f] = t[f - 1]
  <2>1. f - 1 \in 0..49 /\ (f - 1) + 1 = f /\ f - 1 \in 0..f-1
    OBVIOUS
  <2>2. \A i \in 1..f-1 : points[i] = e[i]
    BY <1>4, SMTT(30)
  <2>3. \A i \in 0..f-1 : path[i + 1] = t[i]
    BY <1>2, <2>1, <2>2, Follows
  <2>4. QED
    BY <2>1, <2>3
<1>6. path[f + 1] # t[f]
  <2>1. t[f - 1] \in 0..7 /\ t[f] \in 0..7 /\ e[f] = PointOf(t[f - 1], t[f])
    BY DEF Coded
  <2>2. path[f + 1] = TribitOf(t[f - 1], v)
    BY <1>2, <1>4, <1>5 DEF IsPath
  <2>3. CASE path[f + 1] = 9
    BY <2>1, <2>3
  <2>4. CASE path[f + 1] # 9
    <3>1. PointOf(t[f - 1], path[f + 1]) = v
      BY <2>1, <2>2, <2>4, TribitTells, SMTT(30)
    <3>2. QED
      BY <2>1, <3>1
  <2>5. QED
    BY <2>3, <2>4
<1>7. path[50] # 0
  <2>1. \A i \in f+1..49 : points[i] = e[i]
    BY <1>4
  <2>2. QED
    BY <1>2, <1>6, <2>1, NeverJoins
<1>8. path \in [1..50 -> 0..9]
  BY <1>2 DEF IsPath
<1>9. QED
  BY <1>1, <1>2, <1>7, <1>8, FailPosIn

(* A point of the other parity fails where it stands. *)
LEMMA WrongPath ==
  ASSUME NEW t, NEW e, Coded(t, e), NEW f \in 1..49, NEW w \in 0..15, w % 2 # e[f] % 2
  PROVE  FailPos(Path([e EXCEPT ![f] = w])) = f - 1
<1>1. PICK points : points = [e EXCEPT ![f] = w]
  OBVIOUS
<1>2. PICK path : path = Path(points) /\ IsPath(points, path)
  BY PathIs
<1>3. e \in [1..49 -> 0..15] /\ e[f] % 2 = OddState(t[f - 1])
  BY PointsCoded
<1>4. points[f] = w /\ \A i \in 1..49 : i # f => points[i] = e[i]
  BY <1>1, <1>3, SMTT(30)
<1>5. \A i \in 0..f-1 : path[i + 1] = t[i]
  <2>1. f - 1 \in 0..49
    OBVIOUS
  <2>2. \A i \in 1..f-1 : points[i] = e[i]
    BY <1>4
  <2>3. QED
    BY <1>2, <2>1, <2>2, Follows
<1>6. path[f + 1] = 9
  <2>1. f - 1 \in 0..49 /\ f - 1 \in 0..f-1 /\ (f - 1) + 1 = f
    OBVIOUS
  <2>2. PICK s \in 0..7 : s = t[f - 1]
    BY <2>1 DEF Coded
  <2>3. path[f] = s
    BY <1>5, <2>1, <2>2
  <2>4. path[f + 1] = TribitOf(s, w)
    BY <1>2, <1>4, <2>3 DEF IsPath
  <2>5. PICK j : j = TribitOf(s, w)
    OBVIOUS
  <2>6. j # 9 => w % 2 = OddState(s)
    <3> SUFFICES ASSUME j # 9 PROVE w % 2 = OddState(s)
      OBVIOUS
    <3>1. j \in 0..7
      BY <2>5, TribitIn
    <3>2. PointOf(s, j) = w
      BY <2>5, TribitTells
    <3>3. QED
      BY <3>1, <3>2, PointIn
  <2>7. QED
    BY <1>3, <2>2, <2>4, <2>5, <2>6
<1>7. PICK failed : failed = {i \in 0..48 : path[i + 2] = 9}
  OBVIOUS
<1>8. f - 1 \in failed
  <2>1. f - 1 \in 0..48 /\ (f - 1) + 2 = f + 1
    OBVIOUS
  <2>2. QED
    BY <1>6, <1>7, <2>1
<1>9. ASSUME NEW i \in failed PROVE f - 1 <= i
  <2> SUFFICES ASSUME i < f - 1 PROVE FALSE
    BY <1>7
  <2>1. i + 1 \in 0..f-1 /\ (i + 1) + 1 = i + 2 /\ i + 1 \in 0..49
    BY <1>7
  <2>2. path[i + 2] = t[i + 1]
    BY <1>5, <2>1
  <2>3. t[i + 1] \in 0..7
    BY <2>1 DEF Coded
  <2>4. path[i + 2] = 9
    BY <1>7
  <2>5. QED
    BY <2>2, <2>3, <2>4
<1>10. (CHOOSE i \in failed : \A j \in failed : i <= j) = f - 1
  <2>1. ASSUME NEW i \in failed, \A j \in failed : i <= j PROVE i = f - 1
    <3>1. i <= f - 1 /\ f - 1 <= i
      BY <1>8, <1>9, <2>1
    <3>2. i \in 0..48
      BY <1>7
    <3>3. QED
      BY <3>1, <3>2
  <2>2. f - 1 \in failed /\ \A j \in failed : f - 1 <= j
    BY <1>8, <1>9
  <2>3. PICK i : i = CHOOSE n \in failed : \A j \in failed : n <= j
    OBVIOUS
  <2>4. i \in failed /\ \A j \in failed : i <= j
    BY <2>2, <2>3, Zenon
  <2>5. QED
    BY <2>1, <2>3, <2>4
<1>11. FailPos(path) = IF failed # {} THEN CHOOSE i \in failed : \A j \in failed : i <= j
                       ELSE IF path[50] # 0 THEN 48 ELSE 999
  BY <1>7 DEF FailPos, NumPoints, NoTribit, NoError
<1>12. failed # {}
  BY <1>8
<1>13. QED
  BY <1>1, <1>2, <1>10, <1>11, <1>12, Zenon

-----------------------------------------------------------------------------
(* Where one point is wrong, the try of all its values finds it.           *)
LEMMA FirstTry ==
  ASSUME NEW t, NEW e, Coded(t, e), NEW f \in 1..49, NEW w \in 0..15
  PROVE  LET try == [points |-> [e EXCEPT ![f] = w], at |-> f - 1, bits |-> << >>]
         IN  Retried(try) = [try EXCEPT !.bits = << TribitsToBits(Path(e)) >>]
<1>0. PICK try : try = [points |-> [e EXCEPT ![f] = w], at |-> f - 1, bits |-> << >>]
  OBVIOUS
<1> DEFINE PathWith(v) == Path([try.points EXCEPT ![try.at + 1] = v])
<1>1. e \in [1..49 -> 0..15]
  BY PointsCoded
<1>2. ASSUME NEW v PROVE PathWith(v) = Path([e EXCEPT ![f] = v])
  <2>1. try.points = [e EXCEPT ![f] = w] /\ try.at + 1 = f
    BY <1>0
  <2>2. [[e EXCEPT ![f] = w] EXCEPT ![f] = v] = [e EXCEPT ![f] = v]
    BY <1>1
  <2>3. QED
    BY <2>1, <2>2
<1>3. PathWith(e[f]) = Path(e)
  <2>1. [e EXCEPT ![f] = e[f]] = e
    BY <1>1
  <2>2. QED
    BY <1>2, <2>1
<1> HIDE DEF PathWith
<1>4. PICK values : values = {[value |-> v, failPos |-> FailPos(PathWith(v))] : v \in 0..15}
  OBVIOUS
<1>5. PICK right : right = [value |-> e[f], failPos |-> 999]
  BY ZenonT(60)
<1>6. FailPos(PathWith(e[f])) = 999
  <2>1. FailPos(Path(e)) = 999
    BY CodedPath
  <2>2. QED
    BY <1>3, <2>1
<1>7. right \in values
  <2>1. e[f] \in 0..15
    BY <1>1
  <2>2. QED
    BY <1>4, <1>5, <1>6, <2>1
<1>8. ASSUME NEW u \in values, u # right PROVE u.failPos \in 0..48
  <2>1. PICK v \in 0..15 : u = [value |-> v, failPos |-> FailPos(PathWith(v))]
    BY <1>4
  <2>2. v # e[f]
    <3> SUFFICES ASSUME v = e[f] PROVE FALSE
      OBVIOUS
    <3>1. FailPos(PathWith(v)) = 999
      BY <1>6, SMTT(30)
    <3>2. QED
      BY <1>5, <1>8, <2>1, <3>1
  <2>3. FailPos(PathWith(v)) \in 0..48
    BY <1>2, <2>2, OtherPath, Zenon
  <2>4. QED
    BY <2>1, <2>3
<1>9. Furthest(values, try.at) = right
  <2>1. PICK best : best = Furthest(values, try.at)
    OBVIOUS
  <2>2. ASSUME NEW u \in values
        PROVE  \/ u.failPos < right.failPos
               \/ u.failPos = right.failPos /\ u.value >= right.value
    <3>1. right.failPos = 999 /\ right.value \in 0..15
      BY <1>1, <1>5
    <3>2. CASE u = right
      BY <3>1, <3>2
    <3>3. CASE u # right
      <4>1. PICK n \in 0..48 : n = u.failPos
        BY <1>8, <3>3
      <4>2. QED
        BY <3>1, <4>1
    <3>4. QED
      BY <3>2, <3>3
  <2>3. /\ best \in values
        /\ \A u \in values : \/ u.failPos < best.failPos
                             \/ u.failPos = best.failPos /\ u.value >= best.value
    BY <1>7, <2>1, <2>2, Zenon DEF Furthest
  <2>4. best = right
    <3> SUFFICES ASSUME best # right PROVE FALSE
      OBVIOUS
    <3>1. best.failPos \in 0..48
      BY <1>8, <2>3
    <3>2. right.failPos = 999
      BY <1>5
    <3>3. right.failPos < best.failPos \/ right.failPos = best.failPos
      BY <1>7, <2>3, Zenon
    <3>4. QED
      BY <3>1, <3>2, <3>3
  <2>5. QED
    BY <2>1, <2>4
<1>10. right.failPos = NoError /\ right.value = e[f]
  BY <1>5 DEF NoError
<1>11. Retried(try) = [try EXCEPT !.bits = << TribitsToBits(PathWith(right.value)) >>]
  BY <1>4, <1>9, <1>10, Zenon DEF Retried, PathWith
<1>12. Retried(try) = [try EXCEPT !.bits = << TribitsToBits(Path(e)) >>]
  BY <1>3, <1>10, <1>11
<1>13. QED
  BY <1>0, <1>12, Zenon

(* What a try has found, those after it leave alone. *)
LEMMA FixCodeIs ==
  ASSUME NEW points, NEW failPos, NEW first, NEW second,
         first = [points |-> points, at |-> failPos, bits |-> << >>],
         second = Retried(first), second.bits # << >>
  PROVE  FixCode(points, failPos) = second.bits
<1> DEFINE Next1(try) == IF try.bits # << >> THEN try ELSE Retried(try)
           Is(r) == r = [j \in 0..20 |-> IF j = 0 THEN first ELSE Next1(r[j - 1])]
           after == CHOOSE r : Is(r)
<1>1. FixCode(points, failPos) = after[20].bits
  BY Zenon DEF FixCode, NumTries
<1>2. \A r : Is(r) <=> r = [j \in 0..20 |-> IF j = 0 THEN first ELSE Next1(r[j - 1])]
  BY Zenon
<1>3. first.bits = << >>
  OBVIOUS
<1>4. Next1(first) = second /\ Next1(second) = second
  BY <1>3, Zenon
<1> HIDE DEF Is
<1> HIDE DEF Next1
<1>5. PICK r : r = [j \in 0..20 |-> IF j = 0 THEN first ELSE second]
  OBVIOUS
<1>6. Is(r)
  <2>1. ASSUME NEW j \in 0..20 PROVE r[j] = IF j = 0 THEN first ELSE Next1(r[j - 1])
    <3>1. CASE j = 0
      BY <1>5, <3>1
    <3>2. CASE j # 0
      <4>1. j - 1 \in 0..20
        BY <3>2
      <4>2. r[j - 1] = first \/ r[j - 1] = second
        BY <1>5, <4>1
      <4>3. QED
        BY <1>4, <1>5, <3>2, <4>2
    <3>3. QED
      BY <3>1, <3>2
  <2>2. r = [j \in 0..20 |-> IF j = 0 THEN first ELSE Next1(r[j - 1])]
    BY <1>5, <2>1
  <2>3. QED
    BY <1>2, <2>2, Zenon
<1>7. after = [j \in 0..20 |-> IF j = 0 THEN first ELSE Next1(after[j - 1])]
  BY <1>2, <1>6, Zenon
<1> HIDE DEF after
<1>8. after[0] = first /\ \A j \in 1..20 : after[j] = Next1(after[j - 1])
  BY <1>7
<1>9. PICK T : T = {j \in 1..20 : after[j] = second}
  OBVIOUS
<1>10. 1 \in T
  <2>1. after[1] = Next1(after[0])
    BY <1>8
  <2>2. QED
    BY <1>4, <1>8, <1>9, <2>1
<1>11. ASSUME NEW j \in 1+1..20, j - 1 \in T PROVE j \in T
  BY <1>4, <1>8, <1>9, <1>11
<1>12. \A j \in 1..20 : j \in T
  BY <1>10, <1>11, IntervalInduction, SMTT(30)
<1>13. after[20] = second
  BY <1>9, <1>12
<1>14. QED
  BY <1>1, <1>13

OneWrongPoint(points, e) ==
  \E f \in 1..49, w \in 0..15 : w % 2 # e[f] % 2 /\ points = [e EXCEPT ![f] = w]

(***************************************************************************)
(* The points of a block, one of them perhaps wrong and of the other       *)
(* parity, are decoded to its tribits.                                     *)
(***************************************************************************)
LEMMA PointsDecoded ==
  ASSUME NEW burst, NEW t, NEW e, Coded(t, e),
         DibitsToPoints(burst) = e \/ OneWrongPoint(DibitsToPoints(burst), e)
  PROVE  TrellisDecode(burst) = << TribitsToBits(Path(e)) >>
<1>1. PICK points : points = DibitsToPoints(burst)
  OBVIOUS
<1>2. CASE points = e
  <2>1. FailPos(Path(points)) = NoError
    <3>1. FailPos(Path(e)) = 999
      BY CodedPath
    <3>2. QED
      BY <1>2, <3>1 DEF NoError
  <2>2. QED
    BY <1>1, <1>2, <2>1, Zenon DEF TrellisDecode
<1>3. ASSUME NEW f \in 1..49, NEW w \in 0..15, w % 2 # e[f] % 2, points = [e EXCEPT ![f] = w]
      PROVE  TrellisDecode(burst) = << TribitsToBits(Path(e)) >>
  <2>1. PICK failPos : failPos = FailPos(Path(points)) /\ failPos = f - 1
    BY <1>3, WrongPath, Zenon
  <2>2. PICK first : first = [points |-> points, at |-> failPos, bits |-> << >>]
    OBVIOUS
  <2>3. PICK second : second = Retried(first)
    OBVIOUS
  <2>4. second = [first EXCEPT !.bits = << TribitsToBits(Path(e)) >>]
    <3>1. first = [points |-> [e EXCEPT ![f] = w], at |-> f - 1, bits |-> << >>]
      BY <1>3, <2>1, <2>2
    <3>2. QED
      BY <2>3, <3>1, FirstTry, Zenon
  <2>5. second.bits = << TribitsToBits(Path(e)) >> /\ second.bits # << >>
    BY <2>2, <2>4
  <2>6. FixCode(points, failPos) = second.bits
    BY <2>2, <2>3, <2>5, FixCodeIs
  <2>7. failPos # NoError
    BY <2>1 DEF NoError
  <2>8. PICK fixed : fixed = FixCode(points, failPos) /\ fixed # << >>
    BY <2>5, <2>6
  <2>9. TrellisDecode(burst) = fixed
    BY <1>1, <2>1, <2>7, <2>8, Zenon DEF TrellisDecode
  <2>10. QED
    BY <2>5, <2>6, <2>8, <2>9, SMTT(30)
<1>4. QED
  BY <1>1, <1>2, <1>3, Zenon DEF OneWrongPoint

-----------------------------------------------------------------------------
(***************************************************************************)
(* The tribits and points of a block, and its bits from them.              *)
(***************************************************************************)
TribitAt(block, i) ==
  IF i \in 0..47 THEN Value({2 - k : k \in {j \in 0..2 : 3 * i + j \in block}}) ELSE 0

TribitsOf(block) == [i \in 0..49 |-> TribitAt(block, i - 1)]
PointsOf(block)  == [i \in 1..49 |-> PointOf(TribitAt(block, i - 2), TribitAt(block, i - 1))]

LEMMA TribitBits ==
  ASSUME NEW block, NEW i \in 0..47
  PROVE  /\ TribitAt(block, i) \in 0..7
         /\ (TribitAt(block, i) \div 4) % 2 = 1 <=> 3 * i \in block
         /\ (TribitAt(block, i) \div 2) % 2 = 1 <=> 3 * i + 1 \in block
         /\ TribitAt(block, i) % 2 = 1 <=> 3 * i + 2 \in block
<1>1. PICK bits : bits = {2 - k : k \in {j \in 0..2 : 3 * i + j \in block}}
  OBVIOUS
<1>2. PICK b0, b1, b2 : /\ b0 = IF 3 * i \in block THEN 1 ELSE 0
                        /\ b1 = IF 3 * i + 1 \in block THEN 1 ELSE 0
                        /\ b2 = IF 3 * i + 2 \in block THEN 1 ELSE 0
  OBVIOUS
<1>3. /\ 2 \in bits <=> 3 * i \in block
      /\ 1 \in bits <=> 3 * i + 1 \in block
      /\ 0 \in bits <=> 3 * i + 2 \in block
      /\ 3 \notin bits /\ 4 \notin bits /\ 5 \notin bits /\ 6 \notin bits /\ 7 \notin bits
  BY <1>1
<1>4. Value(bits) = 4 * b0 + 2 * b1 + b2
  <2>1. 2^0 = 1 /\ 2^1 = 2 /\ 2^2 = 4
    OBVIOUS
  <2>2. Value(bits) = 0 + (IF 0 \in bits THEN 2^0 ELSE 0) + (IF 1 \in bits THEN 2^1 ELSE 0)
                        + (IF 2 \in bits THEN 2^2 ELSE 0) + (IF 3 \in bits THEN 2^3 ELSE 0)
                        + (IF 4 \in bits THEN 2^4 ELSE 0) + (IF 5 \in bits THEN 2^5 ELSE 0)
                        + (IF 6 \in bits THEN 2^6 ELSE 0) + (IF 7 \in bits THEN 2^7 ELSE 0)
    BY ValueIs
  <2>3. QED
    BY <1>2, <1>3, <2>1, <2>2
<1>5. PICK tribit : tribit = TribitAt(block, i) /\ tribit = 4 * b0 + 2 * b1 + b2
  BY <1>1, <1>4 DEF TribitAt
<1>6. b0 \in 0..1 /\ b1 \in 0..1 /\ b2 \in 0..1
  BY <1>2
<1>7. /\ tribit \in 0..7 /\ (tribit \div 4) % 2 = b0 /\ (tribit \div 2) % 2 = b1 /\ tribit % 2 = b2
  BY <1>5, <1>6
<1>8. QED
  BY <1>2, <1>5, <1>7

LEMMA BlockCoded ==
  ASSUME NEW block
  PROVE  Coded(TribitsOf(block), PointsOf(block))
<1>1. ASSUME NEW i \in 0..49 PROVE TribitAt(block, i - 1) \in 0..7
  <2>1. CASE i - 1 \in 0..47
    BY <2>1, TribitBits
  <2>2. CASE i - 1 \notin 0..47
    BY <2>2 DEF TribitAt
  <2>3. QED
    BY <2>1, <2>2
<1>2. PICK t : t = TribitsOf(block)
  OBVIOUS
<1>3. t = [i \in 0..49 |-> TribitAt(block, i - 1)]
  BY <1>2 DEF TribitsOf
<1>4. t \in [0..49 -> 0..7]
  BY <1>1, <1>3
<1>5. t[0] = 0 /\ t[49] = 0
  <2>1. TribitAt(block, 0 - 1) = 0 /\ TribitAt(block, 49 - 1) = 0
    BY DEF TribitAt
  <2>2. QED
    BY <1>3, <2>1
<1>6. \A i \in 1..49 : PointOf(TribitAt(block, i - 2), TribitAt(block, i - 1)) = PointOf(t[i - 1], t[i])
  <2>1. ASSUME NEW i \in 1..49
        PROVE  t[i - 1] = TribitAt(block, i - 2) /\ t[i] = TribitAt(block, i - 1)
    <3>1. i \in 0..49 /\ i - 1 \in 0..49 /\ (i - 1) - 1 = i - 2
      OBVIOUS
    <3>2. QED
      BY <1>3, <3>1
  <2>2. QED
    BY <2>1
<1>7. PointsOf(block) = [i \in 1..49 |-> PointOf(t[i - 1], t[i])]
  BY <1>6 DEF PointsOf
<1>8. QED
  BY <1>2, <1>4, <1>5, <1>7 DEF Coded

LEMMA BitsBack ==
  ASSUME NEW block \in SUBSET (0..143)
  PROVE  TribitsToBits(Path(PointsOf(block))) = block
<1>1. PICK path : path = Path(PointsOf(block))
  OBVIOUS
<1>2. ASSUME NEW i \in 0..47 PROVE path[i + 2] = TribitAt(block, i)
  <2>1. PICK t : t = TribitsOf(block) /\ Coded(t, PointsOf(block))
    BY BlockCoded
  <2>2. \A k \in 0..49 : path[k + 1] = t[k]
    BY <1>1, <2>1, CodedPath
  <2>3. i + 1 \in 0..49 /\ (i + 1) + 1 = i + 2 /\ (i + 1) - 1 = i
    OBVIOUS
  <2>4. t[i + 1] = TribitAt(block, i)
    BY <2>1, <2>3 DEF TribitsOf
  <2>5. QED
    BY <2>2, <2>3, <2>4
<1>3. ASSUME NEW n \in 0..143
      PROVE  (path[(n \div 3) + 2] \div 2^(2 - (n % 3))) % 2 = 1 <=> n \in block
  <2>1. PICK i \in 0..47, j \in 0..2 : n = 3 * i + j /\ i = n \div 3 /\ j = n % 3
    <3>1. n \div 3 \in 0..47 /\ n % 3 \in 0..2 /\ n = 3 * (n \div 3) + (n % 3)
      BY SMTT(30)
    <3>2. QED
      BY <3>1
  <2>2. PICK tribit \in 0..7 : tribit = TribitAt(block, i) /\ tribit = path[(n \div 3) + 2]
    BY <1>2, <2>1, TribitBits, SMTT(30)
  <2>3. CASE j = 0
    <3>1. 2^(2 - (n % 3)) = 4
      <4>1. 2 - (n % 3) = 2 /\ 2^2 = 4
        BY <2>1, <2>3
      <4>2. QED
        BY <4>1, Zenon
    <3>2. QED
      BY <2>1, <2>2, <2>3, <3>1, TribitBits
  <2>4. CASE j = 1
    <3>1. 2^(2 - (n % 3)) = 2
      <4>1. 2 - (n % 3) = 1 /\ 2^1 = 2
        BY <2>1, <2>4
      <4>2. QED
        BY <4>1, Zenon
    <3>2. QED
      BY <2>1, <2>2, <2>4, <3>1, TribitBits
  <2>5. CASE j = 2
    <3>1. 2^(2 - (n % 3)) = 1
      <4>1. 2 - (n % 3) = 0 /\ 2^0 = 1
        BY <2>1, <2>5
      <4>2. QED
        BY <4>1, Zenon
    <3>2. tribit \div 1 = tribit
      OBVIOUS
    <3>3. QED
      BY <2>1, <2>2, <2>5, <3>1, <3>2, TribitBits
  <2>6. QED
    BY <2>1, <2>3, <2>4, <2>5
<1>4. TribitsToBits(path) = {n \in 0..143 : (path[(n \div 3) + 2] \div 2^(2 - (n % 3))) % 2 = 1}
  BY DEF TribitsToBits, NumPoints
<1>5. QED
  BY <1>1, <1>3, <1>4

-----------------------------------------------------------------------------
(***************************************************************************)
(* The points of a burst: four of its bits for each, and of each point     *)
(* whose number is even an odd number of them are ones.                    *)
(***************************************************************************)
PointBits(h1, l1, h2, l2) ==
  CHOOSE k \in 0..15 : Constellation[k + 1] = << DibitOf(h1, l1), DibitOf(h2, l2) >>

High(k, half) == Constellation[k + 1][half] < 0
Low(k, half)  == Constellation[k + 1][half] \in {3, -3}

LEMMA PointsDistinct ==
  ASSUME NEW j \in 0..15, NEW k \in 0..15, Constellation[j + 1] = Constellation[k + 1]
  PROVE  j = k
BY SMTT(60) DEF Constellation

LEMMA EveryPoint ==
  ASSUME NEW h1 \in BOOLEAN, NEW l1 \in BOOLEAN, NEW h2 \in BOOLEAN, NEW l2 \in BOOLEAN
  PROVE  \E k \in 0..15 : /\ Constellation[k + 1] = << DibitOf(h1, l1), DibitOf(h2, l2) >>
                          /\ k % 2 = 0 <=> ((h1 # l1) # (h2 # l2))
BY SMTT(60) DEF Constellation, DibitOf

LEMMA PointBitsIs ==
  ASSUME NEW h1 \in BOOLEAN, NEW l1 \in BOOLEAN, NEW h2 \in BOOLEAN, NEW l2 \in BOOLEAN
  PROVE  /\ PointBits(h1, l1, h2, l2) \in 0..15
         /\ PointBits(h1, l1, h2, l2) % 2 = 0 <=> ((h1 # l1) # (h2 # l2))
<1>1. PICK pair : pair = << DibitOf(h1, l1), DibitOf(h2, l2) >>
  OBVIOUS
<1>2. PICK k \in 0..15 : Constellation[k + 1] = pair /\ (k % 2 = 0 <=> ((h1 # l1) # (h2 # l2)))
  BY <1>1, EveryPoint
<1>3. PointBits(h1, l1, h2, l2) \in 0..15 /\ Constellation[PointBits(h1, l1, h2, l2) + 1] = pair
  BY <1>1, <1>2, Zenon DEF PointBits
<1>4. PointBits(h1, l1, h2, l2) = k
  BY <1>2, <1>3, PointsDistinct
<1>5. QED
  BY <1>2, <1>4

LEMMA PointBitsBack ==
  ASSUME NEW k \in 0..15
  PROVE  PointBits(High(k, 1), Low(k, 1), High(k, 2), Low(k, 2)) = k
<1>1. Constellation[k + 1] = << DibitOf(High(k, 1), Low(k, 1)), DibitOf(High(k, 2), Low(k, 2)) >>
  BY SMTT(60) DEF Constellation, DibitOf, High, Low
<1>2. PICK pair : pair = << DibitOf(High(k, 1), Low(k, 1)), DibitOf(High(k, 2), Low(k, 2)) >>
  OBVIOUS
<1>3. \A j \in 0..15 : Constellation[j + 1] = pair <=> j = k
  BY <1>1, <1>2, PointsDistinct
<1>4. QED
  BY <1>2, <1>3, Zenon DEF PointBits

OneChange(h1, l1, h2, l2, g1, m1, g2, m2) ==
  \/ (g1 <=> ~h1) /\ (m1 <=> l1) /\ (g2 <=> h2) /\ (m2 <=> l2)
  \/ (g1 <=> h1) /\ (m1 <=> ~l1) /\ (g2 <=> h2) /\ (m2 <=> l2)
  \/ (g1 <=> h1) /\ (m1 <=> l1) /\ (g2 <=> ~h2) /\ (m2 <=> l2)
  \/ (g1 <=> h1) /\ (m1 <=> l1) /\ (g2 <=> h2) /\ (m2 <=> ~l2)

-----------------------------------------------------------------------------
(***************************************************************************)
(* Where the dibits are in a burst.                                        *)
(***************************************************************************)
DibitPlace(n, h) == BurstBit(2 * ReceivedAt(n) + h)

ReceivedIs(n, q, c, b) ==
  /\ n = 8 * q + 2 * c + b /\ (q = 12 => c = 0)
  /\ ReceivedAt(n) = 24 * c + (IF c = 0 THEN 0 ELSE 2) + 2 * q + b

LEMMA ReceivedBy ==
  ASSUME NEW n \in 0..97
  PROVE  \E q \in 0..12, c \in 0..3, b \in 0..1 : ReceivedIs(n, q, c, b)
<1>1. PICK q, c, b : q = n \div 8 /\ c = (n % 8) \div 2 /\ b = n % 2
  OBVIOUS
<1>2. q \in 0..12 /\ c \in 0..3 /\ b \in 0..1 /\ n = 8 * q + 2 * c + b
  BY <1>1
<1>3. ReceivedAt(n) = 24 * c + (IF c = 0 THEN 0 ELSE 2) + 2 * q + b
  BY <1>1, <1>2 DEF ReceivedAt
<1>4. QED
  BY <1>2, <1>3 DEF ReceivedIs

LEMMA ReceivedIn ==
  ASSUME NEW n \in 0..97, NEW h \in 0..1
  PROVE  2 * ReceivedAt(n) + h \in 0..195
<1>1. PICK q \in 0..12, c \in 0..3, b \in 0..1 : ReceivedIs(n, q, c, b)
  BY ReceivedBy
<1>2. QED
  BY <1>1 DEF ReceivedIs

LEMMA ReceivedApart ==
  ASSUME NEW m \in 0..97, NEW n \in 0..97, NEW g \in 0..1, NEW h \in 0..1,
         2 * ReceivedAt(m) + g = 2 * ReceivedAt(n) + h
  PROVE  m = n /\ g = h
<1>1. PICK q \in 0..12, c \in 0..3, b \in 0..1 : ReceivedIs(m, q, c, b)
  BY ReceivedBy
<1>2. PICK r \in 0..12, d \in 0..3, a \in 0..1 : ReceivedIs(n, r, d, a)
  BY ReceivedBy
<1>3. PICK x \in Int, y \in Int : x = ReceivedAt(m) /\ y = ReceivedAt(n)
  BY <1>1, <1>2 DEF ReceivedIs
<1>4. g = h /\ x = y
  BY <1>3
<1>5. c = d
  BY <1>1, <1>2, <1>3, <1>4 DEF ReceivedIs
<1>6. q = r /\ b = a
  BY <1>1, <1>2, <1>3, <1>4, <1>5, SMTT(30) DEF ReceivedIs
<1>7. QED
  BY <1>1, <1>2, <1>4, <1>5, <1>6 DEF ReceivedIs

LEMMA DibitsApart ==
  ASSUME NEW m \in 0..97, NEW n \in 0..97, NEW g \in 0..1, NEW h \in 0..1,
         DibitPlace(m, g) = DibitPlace(n, h)
  PROVE  m = n /\ g = h
<1>1. PICK x \in 0..195, y \in 0..195 : x = 2 * ReceivedAt(m) + g /\ y = 2 * ReceivedAt(n) + h
  BY ReceivedIn, ZenonT(60)
<1>2. x = y
  BY <1>1, BlockApart, Zenon DEF DibitPlace
<1>3. QED
  BY <1>1, <1>2, ReceivedApart, ZenonT(60)

(* The ones of a coded block are those of its points. *)
LEMMA DibitSent ==
  ASSUME NEW block, NEW n \in 0..97
  PROVE  /\ DibitPlace(n, 0) \in TrellisEncode(block)
              <=> High(PointsOf(block)[(n \div 2) + 1], (n % 2) + 1)
         /\ DibitPlace(n, 1) \in TrellisEncode(block)
              <=> Low(PointsOf(block)[(n \div 2) + 1], (n % 2) + 1)
<1> DEFINE Tribit(i) == IF i \in 0..NumPoints-2
                        THEN Value({2 - k : k \in {j \in 0..2 : 3 * i + j \in block}}) ELSE 0
           Dibit(m)  == Constellation[EncodeTable[Tribit(m \div 2 - 1) + 1][Tribit(m \div 2) + 1] + 1][(m % 2) + 1]
           Ones(m)   == (IF Dibit(m) < 0 THEN {BurstBit(2 * ReceivedAt(m))} ELSE {})
                          \cup (IF Dibit(m) \in {3, -3} THEN {BurstBit(2 * ReceivedAt(m) + 1)} ELSE {})
<1>1. TrellisEncode(block) = UNION {Ones(m) : m \in 0..NumDibits-1}
  BY Zenon DEF TrellisEncode
<1>2. \A i : Tribit(i) = TribitAt(block, i)
  <2>1. NumPoints - 2 = 47
    BY DEF NumPoints
  <2>2. QED
    BY <2>1, Zenon DEF TribitAt
<1> HIDE DEF Tribit
<1>3. ASSUME NEW m \in 0..97
      PROVE  Dibit(m) = Constellation[PointsOf(block)[(m \div 2) + 1] + 1][(m % 2) + 1]
  <2>1. PICK i : i = (m \div 2) + 1
    OBVIOUS
  <2>2. i \in 1..49 /\ i - 2 = m \div 2 - 1 /\ i - 1 = m \div 2
    BY <2>1
  <2>3. PointsOf(block)[i] = PointOf(TribitAt(block, i - 2), TribitAt(block, i - 1))
    BY <2>2 DEF PointsOf
  <2>4. PointsOf(block)[i] = EncodeTable[Tribit(m \div 2 - 1) + 1][Tribit(m \div 2) + 1]
    BY <1>2, <2>2, <2>3, Zenon DEF PointOf
  <2>5. QED
    BY <2>1, <2>4, Zenon
<1> HIDE DEF Dibit
<1>4. ASSUME NEW m \in 0..97
      PROVE  Ones(m) = (IF Dibit(m) < 0 THEN {DibitPlace(m, 0)} ELSE {})
                         \cup (IF Dibit(m) \in {3, -3} THEN {DibitPlace(m, 1)} ELSE {})
  <2>1. 2 * ReceivedAt(m) + 0 = 2 * ReceivedAt(m)
    <3>1. 2 * ReceivedAt(m) + 0 \in 0..195 /\ ReceivedAt(m) \in Int
      BY ReceivedIn, SMTT(30) DEF ReceivedAt
    <3>2. QED
      BY <3>1
  <2>2. QED
    BY <2>1, Zenon DEF DibitPlace
<1> HIDE DEF Ones
<1>5. ASSUME NEW m \in 0..97, NEW h \in 0..1, DibitPlace(n, h) \in Ones(m) PROVE m = n
  <2>1. PICK g \in 0..1 : DibitPlace(n, h) = DibitPlace(m, g)
    BY <1>4, <1>5
  <2>2. QED
    BY <2>1, DibitsApart, Zenon
<1>6. ASSUME NEW h \in 0..1 PROVE DibitPlace(n, h) \in TrellisEncode(block) <=> DibitPlace(n, h) \in Ones(n)
  <2>1. NumDibits - 1 = 97
    BY DEF NumDibits
  <2>2. TrellisEncode(block) = UNION {Ones(m) : m \in 0..97}
    BY <1>1, <2>1
  <2>3. ASSUME DibitPlace(n, h) \in TrellisEncode(block) PROVE DibitPlace(n, h) \in Ones(n)
    <3>1. PICK m \in 0..97 : DibitPlace(n, h) \in Ones(m)
      BY <2>2, <2>3, ZenonT(60)
    <3>2. m = n
      BY <1>5, <3>1, Zenon
    <3>3. QED
      BY <3>1, <3>2, Zenon
  <2>4. Ones(n) \in {Ones(m) : m \in 0..97}
    OBVIOUS
  <2>5. DibitPlace(n, h) \in Ones(n) => DibitPlace(n, h) \in TrellisEncode(block)
    BY <2>2, <2>4, Zenon
  <2>6. QED
    BY <2>3, <2>5, Zenon
<1>7. DibitPlace(n, 0) # DibitPlace(n, 1)
  <2>1. 0 \in 0..1 /\ 1 \in 0..1 /\ 0 # 1
    OBVIOUS
  <2>2. QED
    BY <2>1, DibitsApart, Zenon
<1>8. DibitPlace(n, 0) \in Ones(n) <=> Dibit(n) < 0
  BY <1>4, <1>7
<1>9. DibitPlace(n, 1) \in Ones(n) <=> Dibit(n) \in {3, -3}
  BY <1>4, <1>7
<1>10. /\ DibitPlace(n, 0) \in TrellisEncode(block) <=> Dibit(n) < 0
       /\ DibitPlace(n, 1) \in TrellisEncode(block) <=> Dibit(n) \in {3, -3}
  <2>1. 0 \in 0..1 /\ 1 \in 0..1
    OBVIOUS
  <2>2. QED
    BY <1>6, <1>8, <1>9, <2>1, Zenon
<1>11. QED
  BY <1>3, <1>10, Zenon DEF High, Low

-----------------------------------------------------------------------------
(* Point i of a burst, from its bits. *)
PointOfBits(burst, i) ==
  PointBits(DibitPlace(2 * i - 2, 0) \in burst, DibitPlace(2 * i - 2, 1) \in burst,
            DibitPlace(2 * i - 1, 0) \in burst, DibitPlace(2 * i - 1, 1) \in burst)

LEMMA PointsRead ==
  ASSUME NEW burst
  PROVE  DibitsToPoints(burst) = [i \in 1..49 |-> PointOfBits(burst, i)]
<1>1. ASSUME NEW n \in 0..97
      PROVE  DibitAt(burst, n) = DibitOf(DibitPlace(n, 0) \in burst, DibitPlace(n, 1) \in burst)
  <2>1. PICK place \in Int : place = 2 * ReceivedAt(n)
    BY DEF ReceivedAt
  <2>2. place + 0 = place
    OBVIOUS
  <2>3. QED
    BY <2>1, <2>2, Zenon DEF DibitAt, DibitPlace
<1>2. ASSUME NEW i \in 1..49
      PROVE  (LET dibits == << DibitAt(burst, 2 * i - 2), DibitAt(burst, 2 * i - 1) >>
              IN  CHOOSE k \in 0..15 : Constellation[k + 1] = dibits) = PointOfBits(burst, i)
  <2>1. 2 * i - 2 \in 0..97 /\ 2 * i - 1 \in 0..97
    OBVIOUS
  <2>2. QED
    BY <1>1, <2>1, Zenon DEF PointOfBits, PointBits
<1>3. QED
  BY <1>2, Zenon DEF DibitsToPoints, NumPoints

(* The bits of a block in a burst. *)
Carries(burst, block) ==
  \A n \in 0..97, h \in 0..1 : DibitPlace(n, h) \in burst <=> DibitPlace(n, h) \in TrellisEncode(block)

LEMMA PointsSent ==
  ASSUME NEW block, NEW burst, Carries(burst, block), NEW i \in 1..49
  PROVE  /\ PointsOf(block)[i] \in 0..15
         /\ PointOfBits(burst, i) = PointsOf(block)[i]
<1>1. PICK k \in 0..15 : k = PointsOf(block)[i]
  BY BlockCoded, PointsCoded
<1>2. ASSUME NEW n \in {2 * i - 2, 2 * i - 1}
      PROVE  /\ DibitPlace(n, 0) \in burst <=> High(k, (n % 2) + 1)
             /\ DibitPlace(n, 1) \in burst <=> Low(k, (n % 2) + 1)
  <2>1. n \in 0..97 /\ (n \div 2) + 1 = i
    OBVIOUS
  <2>2. 0 \in 0..1 /\ 1 \in 0..1
    OBVIOUS
  <2>3. QED
    BY <1>1, <2>1, <2>2, DibitSent, Zenon DEF Carries
<1>3. (2 * i - 2) % 2 = 0 /\ (2 * i - 1) % 2 = 1
  OBVIOUS
<1>4. /\ DibitPlace(2 * i - 2, 0) \in burst <=> High(k, 1)
      /\ DibitPlace(2 * i - 2, 1) \in burst <=> Low(k, 1)
      /\ DibitPlace(2 * i - 1, 0) \in burst <=> High(k, 2)
      /\ DibitPlace(2 * i - 1, 1) \in burst <=> Low(k, 2)
  BY <1>2, <1>3
<1>5. PointOfBits(burst, i) = PointBits(High(k, 1), Low(k, 1), High(k, 2), Low(k, 2))
  <2>1. /\ (DibitPlace(2 * i - 2, 0) \in burst) = High(k, 1)
        /\ (DibitPlace(2 * i - 2, 1) \in burst) = Low(k, 1)
        /\ (DibitPlace(2 * i - 1, 0) \in burst) = High(k, 2)
        /\ (DibitPlace(2 * i - 1, 1) \in burst) = Low(k, 2)
    BY <1>4 DEF High, Low
  <2>2. QED
    BY <2>1, Zenon DEF PointOfBits
<1>6. QED
  BY <1>1, <1>5, PointBitsBack

-----------------------------------------------------------------------------
(***************************************************************************)
(* One wrong bit in the block.                                             *)
(***************************************************************************)
LEMMA OnlyOne ==
  ASSUME NEW S \in SUBSET (0..195), Cardinality(S) <= 1, NEW a \in S, NEW b \in S
  PROVE  a = b
<1> SUFFICES ASSUME a # b PROVE FALSE
  OBVIOUS
<1>1. IsFiniteSet(S)
  <2>1. 0 \in Int /\ 195 \in Int
    OBVIOUS
  <2>2. IsFiniteSet(0..195)
    BY <2>1, FS_Interval, Zenon
  <2>3. QED
    BY <2>2, FS_Subset
<1>2. {a} \in SUBSET S /\ {a} # S
  OBVIOUS
<1>3. Cardinality({a}) = 1 /\ Cardinality({a}) < Cardinality(S)
  <2>1. Cardinality({a}) = 1
    BY FS_Singleton
  <2>2. Cardinality({a}) <= Cardinality(S) /\ (Cardinality({a}) = Cardinality(S) => {a} = S)
    BY <1>1, <1>2, FS_Subset
  <2>3. Cardinality(S) \in Nat
    BY <1>1, FS_CardinalityType
  <2>4. QED
    BY <1>2, <2>1, <2>2, <2>3
<1>4. Cardinality(S) \in Nat
  BY <1>1, FS_CardinalityType
<1>5. QED
  BY <1>3, <1>4

LEMMA FourBits ==
  ASSUME NEW burst, NEW i \in 1..49
  PROVE  \E h1, l1, h2, l2 \in BOOLEAN :
           /\ h1 <=> DibitPlace(2 * i - 2, 0) \in burst
           /\ l1 <=> DibitPlace(2 * i - 2, 1) \in burst
           /\ h2 <=> DibitPlace(2 * i - 1, 0) \in burst
           /\ l2 <=> DibitPlace(2 * i - 1, 1) \in burst
           /\ PointOfBits(burst, i) = PointBits(h1, l1, h2, l2)
<1>0. ASSUME NEW x PROVE \E b \in BOOLEAN : b = (x \in burst)
  <2>1. CASE x \in burst
    BY <2>1
  <2>2. CASE x \notin burst
    <3>1. (x \in burst) = FALSE /\ FALSE \in BOOLEAN
      BY <2>2
    <3>2. QED
      BY <3>1, Zenon
  <2>3. QED
    BY <2>1, <2>2
<1>1. PICK h1 \in BOOLEAN : h1 = (DibitPlace(2 * i - 2, 0) \in burst)
  BY <1>0, Zenon
<1>2. PICK l1 \in BOOLEAN : l1 = (DibitPlace(2 * i - 2, 1) \in burst)
  BY <1>0, Zenon
<1>3. PICK h2 \in BOOLEAN : h2 = (DibitPlace(2 * i - 1, 0) \in burst)
  BY <1>0, Zenon
<1>4. PICK l2 \in BOOLEAN : l2 = (DibitPlace(2 * i - 1, 1) \in burst)
  BY <1>0, Zenon
<1>5. PointOfBits(burst, i) = PointBits(h1, l1, h2, l2)
  BY <1>1, <1>2, <1>3, <1>4, Zenon DEF PointOfBits
<1>6. QED
  BY <1>1, <1>2, <1>3, <1>4, <1>5, Zenon

(* A wrong bit of a point makes it one of the other parity. *)
HitAt(sent, burst, f, m, h) ==
  /\ m \in {2 * f - 2, 2 * f - 1} /\ h \in 0..1
  /\ \A n \in {2 * f - 2, 2 * f - 1}, g \in 0..1 :
       DibitPlace(n, g) \in burst <=> ~(DibitPlace(n, g) \in sent <=> n = m /\ g = h)

LEMMA PointHit ==
  ASSUME NEW sent, NEW burst, NEW f \in 1..49, NEW k \in 0..15, k = PointOfBits(sent, f),
         NEW m, NEW h, HitAt(sent, burst, f, m, h)
  PROVE  PointOfBits(burst, f) \in 0..15 /\ PointOfBits(burst, f) % 2 # k % 2
<1>1. PICK h1, l1, h2, l2 \in BOOLEAN :
        /\ h1 <=> DibitPlace(2 * f - 2, 0) \in sent
        /\ l1 <=> DibitPlace(2 * f - 2, 1) \in sent
        /\ h2 <=> DibitPlace(2 * f - 1, 0) \in sent
        /\ l2 <=> DibitPlace(2 * f - 1, 1) \in sent
        /\ PointOfBits(sent, f) = PointBits(h1, l1, h2, l2)
  BY FourBits, ZenonT(60)
<1>2. PICK g1, m1, g2, m2 \in BOOLEAN :
        /\ g1 <=> DibitPlace(2 * f - 2, 0) \in burst
        /\ m1 <=> DibitPlace(2 * f - 2, 1) \in burst
        /\ g2 <=> DibitPlace(2 * f - 1, 0) \in burst
        /\ m2 <=> DibitPlace(2 * f - 1, 1) \in burst
        /\ PointOfBits(burst, f) = PointBits(g1, m1, g2, m2)
  BY FourBits, ZenonT(60)
<1>3. k = PointBits(h1, l1, h2, l2) /\ PointOfBits(burst, f) = PointBits(g1, m1, g2, m2)
  BY <1>1, <1>2
<1>4. 2 * f - 2 # 2 * f - 1 /\ 0 # 1 /\ 0 \in 0..1 /\ 1 \in 0..1
  OBVIOUS
<1>5. /\ g1 <=> ~(h1 <=> m = 2 * f - 2 /\ h = 0)
      /\ m1 <=> ~(l1 <=> m = 2 * f - 2 /\ h = 1)
      /\ g2 <=> ~(h2 <=> m = 2 * f - 1 /\ h = 0)
      /\ m2 <=> ~(l2 <=> m = 2 * f - 1 /\ h = 1)
  BY <1>1, <1>2, <1>4, Zenon DEF HitAt
<1>6. (m = 2 * f - 2 \/ m = 2 * f - 1) /\ (h = 0 \/ h = 1)
  BY DEF HitAt
<1>7. OneChange(h1, l1, h2, l2, g1, m1, g2, m2)
  <2>1. CASE m = 2 * f - 2 /\ h = 0
    BY <1>4, <1>5, <2>1, Zenon DEF OneChange
  <2>2. CASE m = 2 * f - 2 /\ h = 1
    BY <1>4, <1>5, <2>2, Zenon DEF OneChange
  <2>3. CASE m = 2 * f - 1 /\ h = 0
    BY <1>4, <1>5, <2>3, Zenon DEF OneChange
  <2>4. CASE m = 2 * f - 1 /\ h = 1
    BY <1>4, <1>5, <2>4, Zenon DEF OneChange
  <2>5. QED
    BY <1>6, <2>1, <2>2, <2>3, <2>4, Zenon
<1>8. PICK w \in 0..15 : w = PointBits(g1, m1, g2, m2) /\ (w % 2 = 0 <=> ((g1 # m1) # (g2 # m2)))
  BY PointBitsIs, ZenonT(60)
<1>9. k % 2 = 0 <=> ((h1 # l1) # (h2 # l2))
  <2>1. PointBits(h1, l1, h2, l2) % 2 = 0 <=> ((h1 # l1) # (h2 # l2))
    BY PointBitsIs, ZenonT(60)
  <2>2. QED
    BY <1>3, <2>1, Zenon
<1>10. ((g1 # m1) # (g2 # m2)) # ((h1 # l1) # (h2 # l2))
  BY <1>7 DEF OneChange
<1>11. (w % 2 = 0) # (k % 2 = 0)
  BY <1>8, <1>9, <1>10, Zenon
<1>12. PointOfBits(burst, f) = w
  BY <1>3, <1>8
<1>13. QED
  BY <1>8, <1>11, <1>12

LEMMA PointKept ==
  ASSUME NEW block, NEW sent, Carries(sent, block), NEW burst, NEW i \in 1..49,
         \A n \in {2 * i - 2, 2 * i - 1}, g \in 0..1 : DibitPlace(n, g) \in burst <=> DibitPlace(n, g) \in sent
  PROVE  PointOfBits(burst, i) = PointsOf(block)[i]
<1>1. 0 \in 0..1 /\ 1 \in 0..1
  OBVIOUS
<1>2. /\ DibitPlace(2 * i - 2, 0) \in burst <=> DibitPlace(2 * i - 2, 0) \in sent
      /\ DibitPlace(2 * i - 2, 1) \in burst <=> DibitPlace(2 * i - 2, 1) \in sent
      /\ DibitPlace(2 * i - 1, 0) \in burst <=> DibitPlace(2 * i - 1, 0) \in sent
      /\ DibitPlace(2 * i - 1, 1) \in burst <=> DibitPlace(2 * i - 1, 1) \in sent
  BY <1>1, Zenon
<1>3. PointOfBits(burst, i) = PointOfBits(sent, i)
  <2>1. /\ (DibitPlace(2 * i - 2, 0) \in burst) = (DibitPlace(2 * i - 2, 0) \in sent)
        /\ (DibitPlace(2 * i - 2, 1) \in burst) = (DibitPlace(2 * i - 2, 1) \in sent)
        /\ (DibitPlace(2 * i - 1, 0) \in burst) = (DibitPlace(2 * i - 1, 0) \in sent)
        /\ (DibitPlace(2 * i - 1, 1) \in burst) = (DibitPlace(2 * i - 1, 1) \in sent)
    BY <1>2, SMTT(30)
  <2>2. QED
    BY <2>1, Zenon DEF PointOfBits
<1>4. QED
  BY <1>3, PointsSent

LEMMA OnePlaceHit ==
  ASSUME NEW at, Cardinality({n \in 0..195 : BurstBit(n) \in at}) <= 1,
         NEW m \in 0..97, NEW n \in 0..97, NEW g \in 0..1, NEW h \in 0..1,
         DibitPlace(m, g) \in at, DibitPlace(n, h) \in at
  PROVE  m = n /\ g = h
<1>1. PICK hits \in SUBSET (0..195) : hits = {k \in 0..195 : BurstBit(k) \in at}
  OBVIOUS
<1>2. PICK x \in 0..195, y \in 0..195 : x = 2 * ReceivedAt(m) + g /\ y = 2 * ReceivedAt(n) + h
  BY ReceivedIn, Zenon
<1>3. x \in hits /\ y \in hits
  BY <1>1, <1>2 DEF DibitPlace
<1>4. x = y
  BY <1>1, <1>3, OnlyOne
<1>5. QED
  BY <1>2, <1>4, ReceivedApart, ZenonT(60)

(* A block of any content is decoded through one wrong bit anywhere in it. *)
LEMMA Rate34Decoded ==
  ASSUME NEW block \in SUBSET (0..143), NEW sent, Carries(sent, block),
         NEW at, Cardinality({n \in 0..195 : BurstBit(n) \in at}) <= 1
  PROVE  TrellisDecode(Inverted(sent, at)) = << block >>
<1>1. PICK burst : burst = Inverted(sent, at)
  OBVIOUS
<1>2. PICK t, e : t = TribitsOf(block) /\ e = PointsOf(block) /\ Coded(t, e)
  BY BlockCoded
<1>3. e \in [1..49 -> 0..15]
  BY <1>2, PointsCoded
<1>4. \A x : x \in burst <=> ~(x \in sent <=> x \in at)
  BY <1>1, Zenon DEF Inverted
<1>5. PICK points : points = DibitsToPoints(burst) /\ points = [i \in 1..49 |-> PointOfBits(burst, i)]
  BY PointsRead
<1>6. ASSUME NEW i \in 1..49, \A n \in {2 * i - 2, 2 * i - 1}, g \in 0..1 : DibitPlace(n, g) \notin at
      PROVE  PointOfBits(burst, i) = e[i]
  BY <1>2, <1>4, <1>6, PointKept, ZenonT(60)
<1>7. ASSUME NEW i \in 1..49, NEW n \in {2 * i - 2, 2 * i - 1} PROVE n \in 0..97 /\ (n \div 2) + 1 = i
  OBVIOUS
<1>8. ASSUME \A n \in 0..97, g \in 0..1 : DibitPlace(n, g) \notin at PROVE points = e
  <2>1. ASSUME NEW i \in 1..49 PROVE PointOfBits(burst, i) = e[i]
    BY <1>6, <1>7, <1>8, ZenonT(60)
  <2>2. points = [i \in 1..49 |-> e[i]]
    BY <1>5, <2>1, Zenon
  <2>3. QED
    BY <1>3, <2>2
<1>9. ASSUME NEW m \in 0..97, NEW h \in 0..1, DibitPlace(m, h) \in at
      PROVE  OneWrongPoint(points, e)
  <2>1. PICK f \in 1..49 : f = (m \div 2) + 1 /\ m \in {2 * f - 2, 2 * f - 1}
    <3>1. (m \div 2) + 1 \in 1..49 /\ (m = 2 * ((m \div 2) + 1) - 2 \/ m = 2 * ((m \div 2) + 1) - 1)
      OBVIOUS
    <3>2. QED
      BY <3>1
  <2>2. PICK w : w = PointOfBits(burst, f)
    OBVIOUS
  <2>3. w \in 0..15 /\ w % 2 # e[f] % 2
    <3>1. PICK k \in 0..15 : k = e[f] /\ k = PointOfBits(sent, f)
      BY <1>2, PointsSent
    <3>2. ASSUME NEW n \in {2 * f - 2, 2 * f - 1}, NEW g \in 0..1
          PROVE  DibitPlace(n, g) \in burst <=> ~(DibitPlace(n, g) \in sent <=> n = m /\ g = h)
      <4>1. n \in 0..97
        BY <1>7
      <4>2. DibitPlace(n, g) \in at <=> n = m /\ g = h
        BY <1>9, <4>1, OnePlaceHit, Zenon
      <4>3. QED
        BY <1>4, <4>2, Zenon
    <3>3. HitAt(sent, burst, f, m, h)
      BY <2>1, <3>2, Zenon DEF HitAt
    <3>4. PointOfBits(burst, f) \in 0..15 /\ PointOfBits(burst, f) % 2 # k % 2
      BY <3>1, <3>3, PointHit, Zenon
    <3>5. QED
      BY <2>2, <3>1, <3>4, Zenon
  <2>4. ASSUME NEW i \in 1..49, i # f PROVE PointOfBits(burst, i) = e[i]
    <3>1. ASSUME NEW n \in {2 * i - 2, 2 * i - 1}, NEW g \in 0..1, DibitPlace(n, g) \in at PROVE FALSE
      <4>1. n \in 0..97 /\ (n \div 2) + 1 = i
        BY <1>7
      <4>2. n = m
        BY <1>9, <3>1, <4>1, OnePlaceHit, Zenon
      <4>3. QED
        BY <2>1, <2>4, <4>1, <4>2, Zenon
    <3>2. QED
      BY <1>6, <3>1, Zenon
  <2>5. points = [e EXCEPT ![f] = w]
    BY <1>3, <1>5, <2>2, <2>4, ZenonT(60)
  <2>6. QED
    BY <2>3, <2>5, Zenon DEF OneWrongPoint
<1>10. points = e \/ OneWrongPoint(points, e)
  <2>1. CASE \A n \in 0..97, g \in 0..1 : DibitPlace(n, g) \notin at
    BY <1>8, <2>1
  <2>2. CASE ~ \A n \in 0..97, g \in 0..1 : DibitPlace(n, g) \notin at
    BY <1>9, <2>2, Zenon
  <2>3. QED
    BY <2>1, <2>2, Zenon
<1>11. TrellisDecode(burst) = << TribitsToBits(Path(e)) >>
  BY <1>2, <1>5, <1>10, PointsDecoded, Zenon
<1>12. QED
  BY <1>1, <1>2, <1>11, BitsBack

-----------------------------------------------------------------------------
(* The burst of a radio. *)
LEMMA TrellisPlaces ==
  ASSUME NEW block, NEW x \in TrellisEncode(block)
  PROVE  OfBlock(x)
<1> DEFINE Tribit(i) == IF i \in 0..NumPoints-2
                        THEN Value({2 - k : k \in {j \in 0..2 : 3 * i + j \in block}}) ELSE 0
           Dibit(m)  == Constellation[EncodeTable[Tribit(m \div 2 - 1) + 1][Tribit(m \div 2) + 1] + 1][(m % 2) + 1]
           Ones(m)   == (IF Dibit(m) < 0 THEN {BurstBit(2 * ReceivedAt(m))} ELSE {})
                          \cup (IF Dibit(m) \in {3, -3} THEN {BurstBit(2 * ReceivedAt(m) + 1)} ELSE {})
<1> HIDE DEF Dibit
<1>1. PICK n \in 0..97 : x \in {BurstBit(2 * ReceivedAt(n)), BurstBit(2 * ReceivedAt(n) + 1)}
  <2>1. NumDibits - 1 = 97
    BY DEF NumDibits
  <2>2. TrellisEncode(block) = UNION {Ones(m) : m \in 0..NumDibits-1}
    BY Zenon DEF TrellisEncode, Dibit
  <2>3. PICK n \in 0..97 : x \in Ones(n)
    <3> HIDE DEF Ones
    <3>1. TrellisEncode(block) = UNION {Ones(m) : m \in 0..97}
      BY <2>1, <2>2
    <3>2. QED
      BY <3>1, Zenon
  <2>4. QED
    BY <2>3
<1>2. 2 * ReceivedAt(n) \in 0..195 /\ 2 * ReceivedAt(n) + 1 \in 0..195
  <2>1. 0 \in 0..1 /\ 1 \in 0..1
    OBVIOUS
  <2>2. 2 * ReceivedAt(n) + 0 \in 0..195 /\ 2 * ReceivedAt(n) + 1 \in 0..195
    BY <2>1, ReceivedIn, Zenon
  <2>3. PICK place \in Int : place = 2 * ReceivedAt(n)
    BY DEF ReceivedAt
  <2>4. QED
    BY <2>2, <2>3
<1>3. QED
  BY <1>1, <1>2, BlockPlace

LEMMA RadioCarries ==
  ASSUME NEW block, NEW colorCode \in SUBSET (0..3), NEW dataType
  PROVE  Carries(BurstOf(TrellisEncode(block), colorCode, dataType), block)
<1>1. PICK sent : sent = BurstOf(TrellisEncode(block), colorCode, dataType)
  OBVIOUS
<1>2. ASSUME NEW n \in 0..97, NEW h \in 0..1
      PROVE  DibitPlace(n, h) \in sent <=> DibitPlace(n, h) \in TrellisEncode(block)
  <2>1. PICK place : place = DibitPlace(n, h) /\ OfBlock(place)
    <3>1. 2 * ReceivedAt(n) + h \in 0..195
      BY ReceivedIn
    <3>2. QED
      BY <3>1, BlockPlace, SMTT(30) DEF DibitPlace
  <2>2. QED
    BY <1>1, <2>1, BlockSent
<1>3. QED
  BY <1>1, <1>2 DEF Carries

LEMMA Rate34PacketFrom ==
  ASSUME NEW block
  PROVE  PacketFrom(block, 8) = << [dataType |-> 8, class |-> "Raw", fields |-> [data |-> block]] >>
<1>1. ClassOf(block, 8) = "Raw"
  BY DEF ClassOf
<1>2. Intact(block, 8)
  BY DEF Intact
<1>3. RawFields(block) = [data |-> block]
  BY DEF RawFields
<1>4. QED
  BY <1>1, <1>2, <1>3 DEF PacketFrom

LEMMA Rate34Read ==
  ASSUME NEW block \in SUBSET (0..143), NEW colorCode \in SUBSET (0..3), NEW at,
         Cardinality({n \in 0..18 : SlotPlace(n) \in at}) <= 3,
         Cardinality({n \in 0..195 : BurstBit(n) \in at}) <= 1,
         NEW sent, sent = BurstOf(TrellisEncode(block), colorCode, 8)
  PROVE  DecodeDMR(Inverted(sent, at))
           = [kind |-> "dmr", colorCode |-> colorCode,
              packet |-> [dataType |-> 8, class |-> "Raw", fields |-> [data |-> block]]]
<1>1. PICK burst : burst = Inverted(sent, at)
  OBVIOUS
<1>2. PICK code : code = DecodeSlotType(burst)
  OBVIOUS
<1>3. code = SlotValue(colorCode, 8)
  <2>1. PICK coded : coded = TrellisEncode(block) /\ \A x \in coded : OfBlock(x)
    BY TrellisPlaces
  <2>2. 8 \in 0..15
    OBVIOUS
  <2>3. DecodeSlotType(Inverted(BurstOf(coded, colorCode, 8), at)) = SlotValue(colorCode, 8)
    BY <2>1, <2>2, SlotTypeRead
  <2>4. QED
    BY <1>1, <1>2, <2>1, <2>3
<1>4. /\ Value(code \cap (0..3)) = 8
      /\ {b - 4 : b \in code \ (0..3)} = colorCode
      /\ code # Undecided
  <2>1. 8 \in 0..15
    OBVIOUS
  <2>2. QED
    BY <1>3, <2>1, SlotValueRead, SMTT(30)
<1>5. PICK decoded : decoded = TrellisDecode(burst) /\ decoded = << block >>
  <2>1. Carries(sent, block)
    BY RadioCarries
  <2>2. QED
    BY <1>1, <2>1, Rate34Decoded
<1>6. decoded # << >> /\ decoded[1] = block
  BY <1>5
<1>7. PICK q : q = [dataType |-> 8, class |-> "Raw", fields |-> [data |-> block]]
  OBVIOUS
<1>8. PICK packets : packets = PacketFrom(decoded[1], 8) /\ packets = << q >>
  BY <1>6, <1>7, Rate34PacketFrom
<1>9. packets # << >> /\ packets[1] = q
  BY <1>8
<1>10. DecodeDMR(burst) = [kind |-> "dmr", colorCode |-> colorCode, packet |-> packets[1]]
  BY <1>2, <1>4, <1>5, <1>6, <1>8, <1>9, Zenon DEF DecodeDMR
<1>11. QED
  BY <1>1, <1>7, <1>9, <1>10

(***************************************************************************)
(* A rate 3/4 block of any content, in a frame with any fields, arrives as *)
(* a radio sent it, with the frame's fields and the colour code, through   *)
(* three wrong bits in its slot type and any one in the block.             *)
(***************************************************************************)
THEOREM Rate34SurvivesAlways == Spec => []Rate34Survives
<1>1. message \in Messages /\ Carried => Rate34Survives
  <2> SUFFICES ASSUME message \in Messages, Carried,
                      Received("rate34"), SlotTypeHolds, Cardinality(PayloadHits) <= 1
               PROVE  SamePDU
    BY DEF Rate34Survives
  <2>1. PICK fields, packet, colorCode :
          /\ fields = message.frame.fields
          /\ packet = message.frame.data.packet
          /\ colorCode = message.frame.data.colorCode
    OBVIOUS
  <2>2. message.kind = "rate34" /\ got # <<>>
    BY DEF Received
  <2>3. message.frame.data.kind = "dmr" /\ colorCode \in SUBSET (0..3) /\ packet \in Rate34Blocks
    BY <2>1, <2>2, MessagesAssumption, ZenonT(60)
  <2>4. PICK block \in SUBSET (0..143) :
          packet = [class |-> "Raw", dataType |-> 8, fields |-> [data |-> block]]
    BY <2>3 DEF Rate34Blocks, NumPoints
  <2>5. packet.class = "Raw" /\ packet.dataType = 8 /\ packet.fields = [data |-> block]
        /\ packet.fields.data = block
    BY <2>4
  <2>6. PICK sent : sent = BurstOf(TrellisEncode(block), colorCode, 8) /\ sent \in SUBSET (0..263)
    BY <2>3, TrellisPlaces, BurstPlaces
  <2>7. Encoded = WriteFields(VoiceData, fields) \cup InFrame(sent)
    <3>1. Encoded = WriteFields(VoiceData, message.frame.fields)
                      \cup {BurstStart + n : n \in RadioBurst(message.frame.data)}
      BY <2>2, Zenon DEF Encoded
    <3>2. RadioBurst(message.frame.data) = sent
      BY <2>1, <2>5, <2>6, ZenonT(60) DEF RadioBurst, BurstOf
    <3>3. QED
      BY <2>1, <3>1, <3>2 DEF BurstStart, InFrame
  <2>8. got[1] = [fields |-> fields, data |-> DecodeDMR(Inverted(sent, hit))]
    BY <2>1, <2>2, <2>6, <2>7, FrameArrives
  <2>9. PICK q : /\ q = [dataType |-> 8, class |-> "Raw", fields |-> [data |-> block]]
                 /\ DecodeDMR(Inverted(sent, hit)) = [kind |-> "dmr", colorCode |-> colorCode, packet |-> q]
    <3>1. Cardinality({n \in 0..18 : SlotPlace(n) \in hit}) <= 3
      BY DEF SlotTypeHolds, SlotHits
    <3>2. Cardinality({n \in 0..195 : BurstBit(n) \in hit}) <= 1
      BY DEF PayloadHits, Bits
    <3>3. QED
      BY <2>3, <2>6, <3>1, <3>2, Rate34Read
  <2>10. SamePacket(packet, q)
    BY <2>5, <2>9 DEF SamePacket
  <2>11. QED
    BY <2>1, <2>8, <2>9, <2>10 DEF SamePDU, Sent
<1>2. QED
  BY <1>1, LinkCarries, PTL
=============================================================================
