--------------------------- MODULE DMRSenderProofs ---------------------------
(***************************************************************************)
(* What holds of DMRSender for any bounds and any ranges of the counters.  *)
(*                                                                         *)
(* Both properties are of neighbours in the line, so what has to be known  *)
(* of a line that grows is its end: it is the last packet of a stream, and *)
(* carries dmrSeq and the stream before streamId (EndOfLine).  A datagram  *)
(* and a response join it in the same way (IsBurst).                       *)
(***************************************************************************)
EXTENDS DMRSender, SequenceTheorems, TLAPS

Modulus == DmrSeqMax + 1

StreamAfter(s) == IF s >= StreamMax THEN 0 ELSE s + 1

(* Contiguous and AnnouncementsTrue of any line, and the end of one. *)
Chain(line) ==
  \A k \in 1..Len(line) - 1 :
    /\ line[k + 1].first = line[k].last
    /\ (line[k + 1].stream = line[k].stream) = ~line[k].last
    /\ line[k + 1].seq = (line[k].seq + 1) % Modulus

Announces(line) ==
  \A k \in 1..Len(line) :
    line[k].kind \in {"preamble", "header"} =>
      /\ k + line[k].follow <= Len(line)
      /\ \A j \in k..k + line[k].follow : line[j].last = (j = k + line[k].follow)

EndsAt(line, seq, stream) ==
  Len(line) > 0 => /\ line[Len(line)].last = TRUE
                   /\ line[Len(line)].seq = seq
                   /\ stream = StreamAfter(line[Len(line)].stream)

EndOfLine == EndsAt(Line, dmrSeq, streamId)

IInv == TypeOK /\ Contiguous /\ AnnouncementsTrue /\ EndOfLine

(* What sendDMRData makes of packets it is given one after the other. *)
IsBurst(burst) ==
  /\ Len(burst) > 0
  /\ \A k \in 1..Len(burst) :
       /\ burst[k].seq = SeqAfter(k)
       /\ burst[k].stream = streamId
       /\ burst[k].first = (k = 1)
       /\ burst[k].last = (k = Len(burst))
       /\ burst[k].kind \in {"preamble", "header"} => burst[k].follow = Len(burst) - k

USE StreamMaxAssumption, DmrSeqMaxAssumption, BoundsAssumption

-----------------------------------------------------------------------------
(* Counting modulo m: the number after that of an earlier call. *)
LEMMA NextNumber ==
  ASSUME NEW m \in Nat \ {0}, NEW a \in Nat
  PROVE  ((a % m) + 1) % m = (a + 1) % m
<1> DEFINE r == a % m
           s == (a + 1) % m
           d == ((a + 1) \div m) - (a \div m)
<1>1. r \in 0..m-1 /\ s \in 0..m-1 /\ d \in Int /\ m * d = r + 1 - s
  BY SMT
<1>2. d <= -1 => m * d <= -m
  BY <1>1, SMT
<1>3. d >= 2 => m * d >= m + m
  BY <1>1, SMT
<1>4. d \in {0, 1}
  BY <1>1, <1>2, <1>3, SMT
<1>5. s = (IF r + 1 < m THEN r + 1 ELSE 0)
  BY <1>1, <1>4, SMT
<1>6. (r + 1) % m = (IF r + 1 < m THEN r + 1 ELSE 0)
  BY <1>1, SMT
<1>7. QED
  BY <1>5, <1>6

(* The next stream is another one. *)
LEMMA StreamMovesOn ==
  ASSUME NEW s \in 0..StreamMax
  PROVE  StreamAfter(s) \in 0..StreamMax /\ StreamAfter(s) # s
BY SMT DEF StreamAfter

(* A packet is a record of these fields. *)
LEMMA PacketFields ==
  ASSUME NEW line \in Seq(Packet), NEW k \in 1..Len(line)
  PROVE  /\ line[k] \in Packet
         /\ line[k].stream \in 0..StreamMax
         /\ line[k].follow \in Nat
         /\ line[k].first \in BOOLEAN
         /\ line[k].last \in BOOLEAN
<1>1. line[k] \in Packet
  BY ElementOfSeq
<1> QED
  BY <1>1 DEF Packet

-----------------------------------------------------------------------------
(* What is behind some packets of a line is a line. *)
LEMMA LineShrinks ==
  ASSUME NEW sent \in Seq(Packet), NEW line \in Seq(Packet), NEW seq, NEW stream,
         Chain(sent \o line), Announces(sent \o line), EndsAt(sent \o line, seq, stream)
  PROVE  Chain(line) /\ Announces(line) /\ EndsAt(line, seq, stream)
<1> DEFINE whole == sent \o line
           n == Len(sent)
<1>1. /\ n \in Nat /\ Len(line) \in Nat
      /\ Len(whole) = n + Len(line)
      /\ \A k \in 1..Len(line) : whole[n + k] = line[k]
  BY SMT
<1>2. Chain(whole) /\ Announces(whole) /\ EndsAt(whole, seq, stream)
  OBVIOUS
<1> HIDE DEF whole, n
<1>3. Chain(line)
  <2> SUFFICES ASSUME NEW k \in 1..Len(line) - 1
               PROVE  /\ line[k + 1].first = line[k].last
                      /\ (line[k + 1].stream = line[k].stream) = ~line[k].last
                      /\ line[k + 1].seq = (line[k].seq + 1) % Modulus
    BY DEF Chain
  <2>1. PICK i \in 1..Len(whole) - 1 : i = n + k
    BY <1>1, SMT
  <2>2. k \in 1..Len(line) /\ k + 1 \in 1..Len(line) /\ n + (k + 1) = i + 1
    BY <1>1, <2>1, SMT
  <2>3. whole[i] = line[k] /\ whole[i + 1] = line[k + 1]
    BY <1>1, <2>1, <2>2
  <2> QED
    BY <1>2, <2>3 DEF Chain
<1>4. Announces(line)
  <2> SUFFICES ASSUME NEW k \in 1..Len(line), line[k].kind \in {"preamble", "header"}
               PROVE  /\ k + line[k].follow <= Len(line)
                      /\ \A j \in k..k + line[k].follow :
                           line[j].last = (j = k + line[k].follow)
    BY DEF Announces
  <2>1. PICK i \in 1..Len(whole) : i = n + k
    BY <1>1, SMT
  <2>2. whole[i] = line[k]
    BY <1>1, <2>1
  <2> DEFINE f == line[k].follow
  <2>3. /\ i + f <= Len(whole)
        /\ \A j \in i..i + f : whole[j].last = (j = i + f)
    BY <1>2, <2>2 DEF Announces
  <2>4. f \in Nat
    BY PacketFields
  <2> HIDE DEF f
  <2>5. k + f <= Len(line)
    BY <1>1, <2>1, <2>3, <2>4, SMT
  <2>6. ASSUME NEW j \in k..k + f PROVE line[j].last = (j = k + f)
    <3> DEFINE h == n + j
    <3>1. n \in Nat /\ k \in Nat /\ i = n + k
      BY <1>1, <2>1, SMT
    <3>2. h \in i..i + f
      BY <2>4, <3>1, SMT
    <3>3. j \in 1..Len(line)
      BY <1>1, <2>4, <2>5, <3>1, SMT
    <3>4. h = i + f <=> j = k + f
      BY <2>4, <3>1, SMT
    <3>5. whole[h] = line[j]
      BY <1>1, <3>3
    <3> HIDE DEF h
    <3>6. whole[h].last = (h = i + f)
      BY <2>3, <3>2, Zenon
    <3> QED
      BY <3>4, <3>5, <3>6, Zenon
  <2> QED
    BY <2>5, <2>6 DEF f
<1>5. EndsAt(line, seq, stream)
  <2> SUFFICES ASSUME Len(line) > 0
               PROVE  /\ line[Len(line)].last = TRUE
                      /\ line[Len(line)].seq = seq
                      /\ stream = StreamAfter(line[Len(line)].stream)
    BY DEF EndsAt
  <2>1. Len(line) \in 1..Len(line) /\ Len(whole) > 0
    BY <1>1, SMT
  <2>2. whole[Len(whole)] = line[Len(line)]
    BY <1>1, <2>1
  <2> QED
    BY <1>2, <2>1, <2>2 DEF EndsAt
<1> QED
  BY <1>3, <1>4, <1>5

(* A burst behind a line makes a longer line. *)
LEMMA LineGrows ==
  ASSUME TypeOK, NEW line \in Seq(Packet), NEW burst \in Seq(Packet), IsBurst(burst),
         Chain(line), Announces(line), EndsAt(line, dmrSeq, streamId)
  PROVE  /\ Chain(line \o burst)
         /\ Announces(line \o burst)
         /\ EndsAt(line \o burst, SeqAfter(Len(burst)), NextStream)
<1> DEFINE n == Len(line)
           m == Len(burst)
           longer == line \o burst
<1>1. /\ n \in Nat /\ m \in Nat \ {0}
      /\ Len(longer) = n + m
      /\ \A k \in 1..n : longer[k] = line[k]
      /\ \A k \in n+1..n+m : longer[k] = burst[k - n]
      /\ longer \in Seq(Packet)
  BY SMT DEF IsBurst
<1>2. \A k \in 1..m :
        /\ burst[k].seq = SeqAfter(k)
        /\ burst[k].stream = streamId
        /\ burst[k].first = (k = 1)
        /\ burst[k].last = (k = m)
        /\ burst[k].kind \in {"preamble", "header"} => burst[k].follow = m - k
  BY DEF IsBurst
<1>3. /\ Chain(line) /\ Announces(line) /\ EndsAt(line, dmrSeq, streamId)
      /\ n > 0 => n \in 1..n
  BY <1>1, SMT
<1> HIDE DEF longer, n, m
<1>4. dmrSeq \in 0..DmrSeqMax /\ Modulus \in Nat \ {0} /\ streamId \in 0..StreamMax
  BY SMT DEF TypeOK, Modulus
<1>5. \A j \in Nat : SeqAfter(j + 1) = (SeqAfter(j) + 1) % Modulus
  <2> SUFFICES ASSUME NEW j \in Nat PROVE SeqAfter(j + 1) = (SeqAfter(j) + 1) % Modulus
    OBVIOUS
  <2>1. dmrSeq + j \in Nat /\ dmrSeq + (j + 1) = (dmrSeq + j) + 1
    BY <1>4, SMT
  <2> QED
    BY <1>4, <2>1, NextNumber DEF SeqAfter, Modulus
<1>6. SeqAfter(1) = (dmrSeq + 1) % Modulus
  BY DEF SeqAfter, Modulus
<1>7. Chain(longer)
  <2> SUFFICES ASSUME NEW k \in 1..Len(longer) - 1
               PROVE  /\ longer[k + 1].first = longer[k].last
                      /\ (longer[k + 1].stream = longer[k].stream) = ~longer[k].last
                      /\ longer[k + 1].seq = (longer[k].seq + 1) % Modulus
    BY DEF Chain
  <2>1. CASE k < n
    <3>1. k \in 1..n-1 /\ k \in 1..n /\ k + 1 \in 1..n
      BY <1>1, <2>1, SMT
    <3> QED
      BY <1>1, <1>3, <3>1 DEF Chain, n
  <2>2. CASE k = n
    <3>1. k \in 1..n /\ k + 1 \in n+1..n+m /\ (k + 1) - n = 1 /\ 1 \in 1..m /\ n > 0
      BY <1>1, <2>2, SMT
    <3>2. /\ longer[k].last = TRUE
          /\ longer[k].seq = dmrSeq
          /\ streamId = StreamAfter(longer[k].stream)
      BY <1>1, <1>3, <2>2, <3>1 DEF EndsAt, n
    <3>3. longer[k].stream \in 0..StreamMax
      <4>1. k \in 1..Len(longer)
        BY <1>1, <3>1, SMT
      <4> QED
        BY <1>1, <4>1, PacketFields
    <3>4. longer[k + 1] = burst[1]
      BY <1>1, <3>1
    <3>5. burst[1].first = TRUE /\ burst[1].seq = SeqAfter(1) /\ burst[1].stream = streamId
      BY <1>2, <3>1
    <3>6. longer[k + 1].stream # longer[k].stream
      BY <3>2, <3>3, <3>4, <3>5, StreamMovesOn
    <3> QED
      BY <1>6, <3>2, <3>4, <3>5, <3>6
  <2>3. CASE k > n
    <3>1. PICK i \in 1..m : i = k - n
      BY <1>1, <2>3, SMT
    <3>2. PICK h \in 1..m : h = i + 1
      BY <1>1, <2>3, <3>1, SMT
    <3>3. /\ k \in n+1..n+m /\ k + 1 \in n+1..n+m /\ (k + 1) - n = h
          /\ i # m /\ h # 1 /\ i \in Nat
      BY <1>1, <2>3, <3>1, <3>2, SMT
    <3>4. longer[k] = burst[i] /\ longer[k + 1] = burst[h]
      BY <1>1, <3>1, <3>3
    <3>5. burst[i].last = FALSE /\ burst[h].first = FALSE
      <4>1. burst[i].last = (i = m) /\ burst[h].first = (h = 1)
        BY <1>2
      <4> QED
        BY <3>3, <4>1
    <3>6. burst[i].stream = burst[h].stream
      BY <1>2
    <3>7. burst[h].seq = (burst[i].seq + 1) % Modulus
      <4>1. burst[h].seq = SeqAfter(h) /\ burst[i].seq = SeqAfter(i)
        BY <1>2
      <4>2. SeqAfter(i + 1) = (SeqAfter(i) + 1) % Modulus
        BY <1>5, <3>3
      <4> QED
        BY <3>2, <4>1, <4>2
    <3> QED
      BY <3>4, <3>5, <3>6, <3>7
  <2> QED
    BY <1>1, <2>1, <2>2, <2>3, SMT
<1>8. Announces(longer)
  <2> SUFFICES ASSUME NEW k \in 1..Len(longer), longer[k].kind \in {"preamble", "header"}
               PROVE  /\ k + longer[k].follow <= Len(longer)
                      /\ \A j \in k..k + longer[k].follow :
                           longer[j].last = (j = k + longer[k].follow)
    BY DEF Announces
  <2> DEFINE f == longer[k].follow
  <2>1. f \in Nat
    BY <1>1, PacketFields
  <2>2. k \in 1..n \/ k \in n+1..n+m
    BY <1>1, SMT
  <2>3. CASE k \in 1..n
    <3>1. longer[k] = line[k]
      BY <1>1, <2>3
    <3>2. k + f <= n /\ \A j \in k..k + f : line[j].last = (j = k + f)
      BY <1>3, <2>3, <3>1 DEF Announces, n
    <3> HIDE DEF f
    <3>3. k + f <= n + m /\ \A j \in k..k + f : j \in 1..n
      BY <1>1, <2>1, <2>3, <3>2, SMT
    <3>4. \A j \in k..k + f : longer[j] = line[j]
      BY <1>1, <3>3
    <3>5. \A j \in k..k + f : longer[j].last = (j = k + f)
      BY <3>2, <3>4
    <3> QED
      BY <1>1, <3>3, <3>5 DEF f
  <2>4. CASE k \in n+1..n+m
    <3>1. PICK i \in 1..m : i = k - n
      BY <1>1, <2>4, SMT
    <3>2. longer[k] = burst[i]
      BY <1>1, <2>4, <3>1
    <3>3. f = m - i
      BY <1>2, <3>2
    <3> HIDE DEF f
    <3>4. k + f = n + m
      BY <1>1, <3>1, <3>3, SMT
    <3>5. ASSUME NEW j \in k..k + f PROVE longer[j].last = (j = k + f)
      <4>1. PICK g \in n+1..n+m : g = j
        BY <1>1, <2>4, <3>4, SMT
      <4>2. PICK h \in 1..m : h = g - n
        BY <1>1, SMT
      <4>3. longer[g] = burst[h]
        BY <1>1, <4>2
      <4>4. burst[h].last = (h = m)
        BY <1>2
      <4>5. h = m <=> g = k + f
        <5>1. h = m <=> g = n + m
          BY <1>1, <4>2, SMT
        <5> QED
          BY <3>4, <5>1
      <4>6. longer[g].last = (g = k + f)
        BY <4>3, <4>4, <4>5
      <4> QED
        BY <4>1, <4>6
    <3>6. k + f <= Len(longer)
      BY <1>1, <3>4, SMT
    <3> QED
      BY <3>5, <3>6 DEF f
  <2> QED
    BY <2>2, <2>3, <2>4
<1>9. EndsAt(longer, SeqAfter(m), NextStream)
  <2>1. PICK i \in n+1..n+m : i = n + m
    BY <1>1, SMT
  <2>2. i - n = m /\ m \in 1..m
    BY <1>1, <2>1, SMT
  <2>3. longer[Len(longer)] = burst[m]
    BY <1>1, <2>1, <2>2
  <2>4. burst[m].last = TRUE /\ burst[m].seq = SeqAfter(m) /\ burst[m].stream = streamId
    BY <1>2, <2>2
  <2>5. NextStream = StreamAfter(streamId)
    BY DEF NextStream, StreamAfter
  <2> QED
    BY <2>3, <2>4, <2>5 DEF EndsAt
<1> QED
  BY <1>7, <1>8, <1>9 DEF longer, m

-----------------------------------------------------------------------------
(* The invariants read the line, the counters and the types only. *)
LineInv == Contiguous /\ AnnouncementsTrue /\ EndOfLine

LEMMA LineInvIs ==
  LineInv <=> Chain(Line) /\ Announces(Line) /\ EndsAt(Line, dmrSeq, streamId)
BY DEF LineInv, Contiguous, AnnouncementsTrue, EndOfLine, Chain, Announces, Modulus

LEMMA LineInvIsNext ==
  LineInv' <=> Chain(Line') /\ Announces(Line') /\ EndsAt(Line', dmrSeq', streamId')
BY DEF LineInv, Contiguous, AnnouncementsTrue, EndOfLine, Chain, Announces, Modulus, EndsAt

LEMMA InitIInv == Init => IInv
<1> SUFFICES ASSUME Init PROVE IInv
  OBVIOUS
<1>1. /\ sendDataBuffer \in Seq(Packet)
      /\ onAir \in Seq(Packet)
      /\ Len(onAir) <= 1
  BY SMT DEF Init
<1>2. dmrSeq \in 0..DmrSeqMax /\ streamId \in 0..StreamMax
  BY SMT DEF Init
<1>3. TypeOK
  BY <1>1, <1>2 DEF Init, TypeOK
<1>4. Line = <<>> \o <<>>
  BY DEF Init, Line
<1>5. Len(Line) = 0
  BY <1>4, SMT
<1>6. Chain(Line) /\ Announces(Line) /\ EndsAt(Line, dmrSeq, streamId)
  BY <1>5, SMT DEF Chain, Announces, EndsAt
<1>7. LineInv
  BY <1>6, LineInvIs
<1> QED
  BY <1>3, <1>7 DEF IInv, LineInv

(* Packets of a burst join the line. *)
LEMMA JoinKeeps ==
  ASSUME IInv, NEW burst \in Seq(Packet), IsBurst(burst),
         sendDataBuffer' = sendDataBuffer \o burst,
         dmrSeq' = SeqAfter(Len(burst)),
         streamId' = NextStream,
         UNCHANGED <<sendDataWhenActive, channelVars, pc, onAir>>
  PROVE  IInv'
<1>1. TypeOK /\ onAir \in Seq(Packet) /\ sendDataBuffer \in Seq(Packet)
  BY DEF IInv, TypeOK
<1>2. sendDataBuffer' \in Seq(Packet)
  BY <1>1, ConcatProperties
<1>3. streamId' \in 0..StreamMax
  BY <1>1, SMT DEF TypeOK, NextStream
<1>4. dmrSeq' \in 0..DmrSeqMax
  <2>1. Len(burst) \in Nat /\ dmrSeq \in 0..DmrSeqMax
    BY <1>1 DEF TypeOK
  <2> QED
    BY <2>1, SMT DEF SeqAfter
<1>5. TypeOK'
  BY <1>1, <1>2, <1>3, <1>4 DEF TypeOK, channelVars
<1>6. Line \in Seq(Packet) /\ Line' = Line \o burst
  BY <1>1, ConcatAssociative, ConcatProperties DEF Line
<1>7. Chain(Line) /\ Announces(Line) /\ EndsAt(Line, dmrSeq, streamId)
  BY LineInvIs DEF IInv, LineInv
<1>8. /\ Chain(Line \o burst)
      /\ Announces(Line \o burst)
      /\ EndsAt(Line \o burst, SeqAfter(Len(burst)), NextStream)
  BY <1>1, <1>6, <1>7, LineGrows
<1>9. LineInv'
  BY <1>6, <1>8, LineInvIsNext
<1> QED
  BY <1>5, <1>9 DEF IInv, LineInv

(* The burst of a datagram announces what is still to come of it. *)
LEMMA BurstIs ==
  ASSUME TypeOK, NEW csbkCount \in 0..MaxPreambles, NEW blocks \in 1..MaxBlocks
  PROVE  Burst(csbkCount, blocks) \in Seq(Packet) /\ IsBurst(Burst(csbkCount, blocks))
<1> DEFINE total == csbkCount + 1 + blocks
           burst == Burst(csbkCount, blocks)
           packet(k) == [kind |-> KindOf(k, csbkCount), seq |-> SeqAfter(k),
                         stream |-> streamId, first |-> k = 1, last |-> k = total,
                         follow |-> Announced(k, csbkCount, blocks)]
<1>1. csbkCount \in Nat /\ blocks \in Nat \ {0} /\ total \in Nat \ {0}
  BY SMT
<1>2. burst = [k \in 1..total |-> packet(k)]
  BY DEF Burst
<1>3. \A k \in 1..total :
        /\ Announced(k, csbkCount, blocks) \in Nat
        /\ k <= csbkCount + 1 => Announced(k, csbkCount, blocks) = total - k
  BY <1>1, SMT DEF Announced
<1>4. \A k \in 1..total :
        /\ KindOf(k, csbkCount) \in Kinds
        /\ KindOf(k, csbkCount) \in {"preamble", "header"} => k <= csbkCount + 1
  <2> SUFFICES ASSUME NEW k \in 1..total
               PROVE  /\ KindOf(k, csbkCount) \in Kinds
                      /\ KindOf(k, csbkCount) \in {"preamble", "header"}
                           => k <= csbkCount + 1
    OBVIOUS
  <2>1. \/ k <= csbkCount /\ ~(k = csbkCount + 1) /\ ~(k > csbkCount + 1)
        \/ k = csbkCount + 1 /\ ~(k <= csbkCount) /\ ~(k > csbkCount + 1)
        \/ k > csbkCount + 1 /\ ~(k <= csbkCount) /\ ~(k = csbkCount + 1)
    BY <1>1, SMT
  <2>2. k <= csbkCount \/ k = csbkCount + 1 => k <= csbkCount + 1
    BY <1>1, SMT
  <2> QED
    BY <2>1, <2>2 DEF KindOf, Kinds
<1> HIDE DEF total
<1>5. dmrSeq \in Nat /\ DmrSeqMax + 1 \in Nat \ {0} /\ streamId \in 0..StreamMax
  BY SMT DEF TypeOK
<1>6. \A k \in 1..total : SeqAfter(k) \in 0..DmrSeqMax
  BY <1>1, <1>5, SMT DEF SeqAfter
<1>7. \A k \in 1..total : packet(k) \in Packet
  BY <1>3, <1>4, <1>5, <1>6 DEF Packet
<1>8. burst \in [1..total -> Packet]
  BY <1>2, <1>7
<1>9. burst \in Seq(Packet) /\ Len(burst) = total
  BY <1>1, <1>8, SMT
<1>10. IsBurst(burst)
  <2>1. Len(burst) > 0
    BY <1>1, <1>9, SMT
  <2>2. ASSUME NEW k \in 1..total
        PROVE  /\ burst[k].seq = SeqAfter(k)
               /\ burst[k].stream = streamId
               /\ burst[k].first = (k = 1)
               /\ burst[k].last = (k = total)
               /\ burst[k].kind \in {"preamble", "header"} => burst[k].follow = total - k
    <3>1. burst[k] = packet(k)
      BY <1>2
    <3> QED
      BY <1>3, <1>4, <3>1
  <2> QED
    BY <1>9, <2>1, <2>2 DEF IsBurst
<1> QED
  BY <1>9, <1>10

LEMMA SendIPPacketKeeps ==
  ASSUME IInv, NEW c \in 0..MaxPreambles, NEW b \in 1..MaxBlocks, SendIPPacket(c, b)
  PROVE  IInv'
<1>1. Burst(c, b) \in Seq(Packet) /\ IsBurst(Burst(c, b))
  BY BurstIs DEF IInv
<1> QED
  BY <1>1, JoinKeeps DEF SendIPPacket

(* A response is a burst of one. *)
LEMMA ResponseIs ==
  ASSUME TypeOK, SendResponse
  PROVE  \E burst \in Seq(Packet) :
           /\ IsBurst(burst) /\ Len(burst) = 1
           /\ sendDataBuffer' = sendDataBuffer \o burst
           /\ UNCHANGED onAir
<1> DEFINE response == [kind |-> "response", seq |-> SeqAfter(1), stream |-> streamId,
                        first |-> TRUE, last |-> TRUE, follow |-> 0]
<1>1. dmrSeq \in Nat /\ streamId \in 0..StreamMax /\ sendDataBuffer \in Seq(Packet)
  BY SMT DEF TypeOK
<1>2. SeqAfter(1) \in 0..DmrSeqMax
  BY <1>1, SMT DEF SeqAfter
<1>3. response \in Packet
  BY <1>1, <1>2 DEF Packet, Kinds
<1>4. /\ response.seq = SeqAfter(1) /\ response.stream = streamId
      /\ response.first = TRUE /\ response.last = TRUE
      /\ response.kind \notin {"preamble", "header"}
  OBVIOUS
<1>5. sendDataBuffer' = Append(sendDataBuffer, response) /\ UNCHANGED onAir
  BY DEF SendResponse
<1> HIDE DEF response
<1>6. /\ <<response>> \in Seq(Packet)
      /\ Len(<<response>>) = 1
      /\ <<response>>[1] = response
      /\ Append(sendDataBuffer, response) = sendDataBuffer \o <<response>>
  BY <1>1, <1>3, SMT
<1>7. IsBurst(<<response>>)
  <2>1. \A k \in 1..1 : k = 1
    BY SMT
  <2>2. Len(<<response>>) > 0
    BY <1>6, SMT
  <2> QED
    BY <1>4, <1>6, <2>1, <2>2 DEF IsBurst
<1> QED
  BY <1>5, <1>6, <1>7

LEMMA SendResponseKeeps ==
  ASSUME IInv, SendResponse
  PROVE  IInv'
<1>1. PICK burst \in Seq(Packet) :
        /\ IsBurst(burst) /\ Len(burst) = 1
        /\ sendDataBuffer' = sendDataBuffer \o burst
  BY ResponseIs DEF IInv
<1> QED
  BY <1>1, JoinKeeps DEF SendResponse

(* The head of the buffer goes on the air, in place of the one before it. *)
LEMMA SendHeadKeeps ==
  ASSUME IInv, StartDrain \/ DrainOne
  PROVE  IInv'
<1>1. /\ sendDataBuffer # <<>>
      /\ onAir' = <<Head(sendDataBuffer)>>
      /\ sendDataBuffer' = Tail(sendDataBuffer)
      /\ UNCHANGED <<sendDataWhenActive, channelVars, dmrSeq, streamId>>
      /\ pc' = "drain"
  BY DEF StartDrain, DrainOne, SendHead
<1>2. TypeOK /\ onAir \in Seq(Packet) /\ sendDataBuffer \in Seq(Packet)
  BY DEF IInv, TypeOK
<1>3. /\ Head(sendDataBuffer) \in Packet
      /\ Tail(sendDataBuffer) \in Seq(Packet)
      /\ <<Head(sendDataBuffer)>> \o Tail(sendDataBuffer) = sendDataBuffer
  BY <1>1, <1>2, SMT
<1>4. onAir' \in Seq(Packet) /\ Len(onAir') <= 1
  BY <1>1, <1>3, SMT
<1>5. TypeOK'
  BY <1>1, <1>2, <1>3, <1>4 DEF TypeOK, channelVars
<1>6. Line' = sendDataBuffer
  BY <1>1, <1>3 DEF Line
<1>7. Chain(Line) /\ Announces(Line) /\ EndsAt(Line, dmrSeq, streamId)
  BY LineInvIs DEF IInv, LineInv
<1>8. /\ Chain(sendDataBuffer) /\ Announces(sendDataBuffer)
      /\ EndsAt(sendDataBuffer, dmrSeq, streamId)
  BY <1>2, <1>7, LineShrinks DEF Line
<1>9. LineInv'
  BY <1>1, <1>6, <1>8, LineInvIsNext
<1> QED
  BY <1>5, <1>9 DEF IInv, LineInv

(* The connection, the channel and the end of a drain leave the line alone. *)
LEMMA SurroundingsKeep ==
  ASSUME IInv,
         EndDrain \/ ConnectionChanges \/ TrafficHeard \/ ChannelQuiet \/ UNCHANGED vars
  PROVE  IInv'
<1>1. UNCHANGED <<sendDataBuffer, dmrSeq, streamId, onAir>>
  BY DEF EndDrain, ConnectionChanges, TrafficHeard, ChannelQuiet, vars
<1>2. TypeOK'
  BY <1>1 DEF IInv, TypeOK, EndDrain, ConnectionChanges, TrafficHeard, ChannelQuiet,
              vars, channelVars
<1>3. Line' = Line
  BY <1>1 DEF Line
<1>4. LineInv'
  BY <1>1, <1>3, LineInvIs, LineInvIsNext DEF IInv, LineInv
<1> QED
  BY <1>2, <1>4 DEF IInv, LineInv

LEMMA NextKeepsIInv == IInv /\ [Next]_vars => IInv'
<1> SUFFICES ASSUME IInv, [Next]_vars PROVE IInv'
  OBVIOUS
<1>1. CASE StartDrain \/ DrainOne
  BY <1>1, SendHeadKeeps
<1>2. CASE SendResponse
  BY <1>2, SendResponseKeeps
<1>3. CASE \E c \in 0..MaxPreambles, b \in 1..MaxBlocks : SendIPPacket(c, b)
  BY <1>3, SendIPPacketKeeps
<1>4. CASE EndDrain \/ ConnectionChanges \/ TrafficHeard \/ ChannelQuiet \/ UNCHANGED vars
  BY <1>4, SurroundingsKeep
<1> QED
  BY <1>1, <1>2, <1>3, <1>4 DEF Next, Sender

-----------------------------------------------------------------------------
(* The inductive invariant of the sender. *)
THEOREM Invariance == Spec => []IInv
<1> QED
  BY InitIInv, NextKeepsIInv, PTL DEF Spec

(* The counters stay in the widths of their fields. *)
THEOREM SenderTypeInvariant == Spec => []TypeOK
<1>1. IInv => TypeOK
  BY DEF IInv
<1> QED
  BY <1>1, Invariance, PTL

(* Bursts are never split and the sequence numbers run on without a gap. *)
THEOREM StreamsWhole == Spec => []Contiguous
<1>1. IInv => Contiguous
  BY DEF IInv
<1> QED
  BY <1>1, Invariance, PTL

(* Every preamble and every header counts true. *)
THEOREM Announcements == Spec => []AnnouncementsTrue
<1>1. IInv => AnnouncementsTrue
  BY DEF IInv
<1> QED
  BY <1>1, Invariance, PTL

-----------------------------------------------------------------------------
(***************************************************************************)
(* The refinement.  What is heard next is the head of the buffer, so it    *)
(* has to be known how the head follows what was heard: Contiguous tells,  *)
(* or, when nothing has been heard yet, StartOfLine.                       *)
(***************************************************************************)
StartOfLine ==
  onAir = <<>> =>
    IF sendDataBuffer = <<>> THEN dmrSeq = 0
    ELSE sendDataBuffer[1].first = TRUE /\ sendDataBuffer[1].seq = 1 % Modulus

(* The two maps of the refinement, of any buffer and of what was sent. *)
Ends(buffer) == {k \in 1..Len(buffer) : buffer[k].last}

Heard(sent) == [k \in 1..Len(sent) |->
                  [number |-> sent[k].seq, stream |-> sent[k].stream,
                   first |-> sent[k].first, last |-> sent[k].last]]

HeardAs(p) == [number |-> p.seq, stream |-> p.stream, first |-> p.first, last |-> p.last]

LEMMA HeardIs ==
  /\ Heard(<<>>) = <<>>
  /\ \A p : Heard(<<p>>) = <<HeardAs(p)>>
<1>1. Heard(<<>>) = <<>>
  BY SMT DEF Heard
<1>2. ASSUME NEW p PROVE Heard(<<p>>) = <<HeardAs(p)>>
  <2>1. Len(<<p>>) = 1 /\ <<p>>[1] = p /\ 1..1 = {1}
    BY SMT
  <2> DEFINE h == HeardAs(p)
  <2>2. Heard(<<p>>) = [k \in 1..1 |-> h]
    BY <2>1 DEF Heard, HeardAs
  <2> HIDE DEF h
  <2>3. [k \in 1..1 |-> h] = <<h>>
    BY SMT
  <2> QED
    BY <2>2, <2>3 DEF h
<1> QED
  BY <1>1, <1>2

(* What a burst adds to the buffer is one datagram. *)
LEMMA EndsGrow ==
  ASSUME NEW buffer \in Seq(Packet), NEW burst \in Seq(Packet), IsBurst(burst)
  PROVE  /\ Len(buffer \o burst) > Len(buffer)
         /\ Ends(buffer \o burst) = Ends(buffer) \cup {Len(buffer \o burst)}
<1> DEFINE n == Len(buffer)
           m == Len(burst)
           longer == buffer \o burst
<1>1. /\ n \in Nat /\ m \in Nat \ {0}
      /\ Len(longer) = n + m
      /\ \A k \in 1..n : longer[k] = buffer[k]
      /\ \A k \in n+1..n+m : longer[k] = burst[k - n]
  BY SMT DEF IsBurst
<1>2. \A k \in 1..m : burst[k].last = (k = m)
  BY DEF IsBurst
<1>3. Ends(buffer) = {k \in 1..n : buffer[k].last}
  BY DEF Ends
<1>4. Ends(longer) = {k \in 1..Len(longer) : longer[k].last}
  BY DEF Ends
<1> HIDE DEF longer, n, m
<1>5. \A k \in n+1..n+m : longer[k].last <=> k = n + m
  <2> SUFFICES ASSUME NEW k \in n+1..n+m PROVE longer[k].last <=> k = n + m
    OBVIOUS
  <2>1. PICK h \in 1..m : h = k - n
    BY <1>1, SMT
  <2>2. longer[k] = burst[h] /\ burst[h].last = (h = m)
    BY <1>1, <1>2, <2>1
  <2>3. h = m <=> k = n + m
    BY <1>1, <2>1, SMT
  <2> QED
    BY <2>2, <2>3
<1>6. /\ \A k : k \in 1..n+m <=> k \in 1..n \/ k \in n+1..n+m
      /\ n + m \in n+1..n+m
      /\ n + m > n
  BY <1>1, SMT
<1>7. Ends(longer) = Ends(buffer) \cup {n + m}
  BY <1>1, <1>3, <1>4, <1>5, <1>6
<1> QED
  BY <1>1, <1>6, <1>7 DEF longer, n

(* The head leaves, and the ends of datagrams move up by one. *)
LEMMA EndsShrink ==
  ASSUME NEW buffer \in Seq(Packet), buffer # <<>>
  PROVE  /\ Len(buffer) > 0
         /\ Len(Tail(buffer)) = Len(buffer) - 1
         /\ Ends(Tail(buffer)) = {e - 1 : e \in Ends(buffer) \ {1}}
         /\ Head(buffer) = buffer[1]
         /\ 1 \in Ends(buffer) <=> buffer[1].last
<1> DEFINE n == Len(buffer)
           rest == Tail(buffer)
<1>1. /\ n \in Nat \ {0}
      /\ Len(rest) = n - 1
      /\ \A k \in 1..n - 1 : rest[k] = buffer[k + 1]
      /\ Head(buffer) = buffer[1]
  BY SMT
<1>2. /\ Ends(rest) = {k \in 1..Len(rest) : rest[k].last}
      /\ Ends(buffer) = {k \in 1..n : buffer[k].last}
  BY DEF Ends
<1> HIDE DEF rest, n
<1>3. \A k : k \in Ends(rest) <=> k \in 1..n-1 /\ buffer[k + 1].last
  BY <1>1, <1>2
<1>4. \A e \in Ends(buffer) \ {1} : e - 1 \in Ends(rest)
  <2> SUFFICES ASSUME NEW e \in Ends(buffer) \ {1} PROVE e - 1 \in Ends(rest)
    OBVIOUS
  <2>1. e \in 1..n /\ e # 1 /\ buffer[e].last
    BY <1>2
  <2>2. e - 1 \in 1..n-1 /\ (e - 1) + 1 = e
    BY <1>1, <2>1, SMT
  <2> QED
    BY <1>3, <2>1, <2>2
<1>5. \A k \in Ends(rest) : k + 1 \in Ends(buffer) \ {1} /\ (k + 1) - 1 = k
  <2> SUFFICES ASSUME NEW k \in Ends(rest)
               PROVE  k + 1 \in Ends(buffer) \ {1} /\ (k + 1) - 1 = k
    OBVIOUS
  <2>1. k \in 1..n-1 /\ buffer[k + 1].last
    BY <1>3
  <2>2. k + 1 \in 1..n /\ k + 1 # 1 /\ (k + 1) - 1 = k
    BY <1>1, <2>1, SMT
  <2> QED
    BY <1>2, <2>1, <2>2
<1>6. Ends(rest) = {e - 1 : e \in Ends(buffer) \ {1}}
  <2>1. \A k \in Ends(rest) : \E e \in Ends(buffer) \ {1} : k = e - 1
    BY <1>5
  <2> QED
    BY <1>4, <2>1
<1>7. n > 0 /\ 1 \in 1..n
  BY <1>1, SMT
<1> QED
  BY <1>1, <1>2, <1>6, <1>7 DEF rest, n

(* A datagram or a response is accepted. *)
LEMMA JoinAccepts ==
  ASSUME TypeOK, NEW burst \in Seq(Packet), IsBurst(burst),
         sendDataBuffer' = sendDataBuffer \o burst, UNCHANGED onAir
  PROVE  Promise!ANext
<1>1. sendDataBuffer \in Seq(Packet)
  BY DEF TypeOK
<1>2. /\ Len(sendDataBuffer') > Len(sendDataBuffer)
      /\ Ends(sendDataBuffer') = Ends(sendDataBuffer) \cup {Len(sendDataBuffer')}
  BY <1>1, EndsGrow
<1>3. Promise!Accept
  BY <1>2 DEF Promise!Accept, Ends
<1> QED
  BY <1>3 DEF Promise!ANext

(* The sender lets the next packet be heard. *)
LEMMA SendHeadHeard ==
  ASSUME IInv, StartOfLine, StartDrain \/ DrainOne
  PROVE  Promise!ANext
<1> DEFINE p == Head(sendDataBuffer)
<1>1. /\ sendDataBuffer # <<>> /\ sendDataBuffer \in Seq(Packet)
      /\ onAir \in Seq(Packet) /\ Len(onAir) <= 1
      /\ onAir' = <<p>>
      /\ sendDataBuffer' = Tail(sendDataBuffer)
  BY DEF StartDrain, DrainOne, SendHead, IInv, TypeOK
<1>2. /\ Len(sendDataBuffer) > 0
      /\ Len(sendDataBuffer') = Len(sendDataBuffer) - 1
      /\ Ends(sendDataBuffer') = {e - 1 : e \in Ends(sendDataBuffer) \ {1}}
      /\ p = sendDataBuffer[1]
      /\ 1 \in Ends(sendDataBuffer) <=> p.last
  BY <1>1, EndsShrink
<1>3. p.stream \in 0..StreamMax /\ p.first \in BOOLEAN /\ p.last \in BOOLEAN
  <2>1. 1 \in 1..Len(sendDataBuffer)
    BY <1>1, <1>2, SMT
  <2> QED
    BY <1>1, <1>2, <2>1, PacketFields
<1> HIDE DEF p
<1>4. Heard(onAir') = <<HeardAs(p)>>
  BY <1>1, HeardIs
<1>5. p.last = (1 \in Ends(sendDataBuffer))
  BY <1>2, <1>3
<1>6. CASE onAir = <<>>
  <2>1. Heard(onAir) = <<>>
    BY <1>6, HeardIs
  <2>2. p.first = TRUE /\ p.seq = 1 % Modulus
    BY <1>1, <1>2, <1>6 DEF StartOfLine
  <2>3. Promise!Opens = p.first /\ Promise!Following = p.seq /\ Promise!Continues(p.stream)
    <3>1. Promise!Opens = TRUE
      BY <2>1 DEF Promise!Opens, Heard
    <3>2. Promise!Following = (0 + 1) % Modulus
      BY <2>1 DEF Promise!Following, Heard, Modulus
    <3>3. Promise!Continues(p.stream)
      BY <2>1 DEF Promise!Continues, Heard
    <3>4. 0 + 1 = 1
      BY SMT
    <3> QED
      BY <2>2, <3>1, <3>2, <3>3, <3>4
  <2> QED
    BY <1>1, <1>2, <1>3, <1>4, <1>5, <2>3 DEF Promise!ANext, Promise!Hear, Ends, Heard, HeardAs
<1>7. CASE onAir # <<>>
  <2>1. PICK q : q = onAir[1]
    OBVIOUS
  <2>2. onAir = <<q>> /\ q \in Packet
    BY <1>1, <1>7, <2>1, SMT
  <2>3. Heard(onAir) = <<HeardAs(q)>> /\ q.last \in BOOLEAN
    BY <2>2, HeardIs DEF Packet
  <2>4. /\ p.first = q.last
        /\ (p.stream = q.stream) = ~q.last
        /\ p.seq = (q.seq + 1) % Modulus
    <3>1. Line = <<q>> \o sendDataBuffer /\ Chain(Line)
      BY <2>2, LineInvIs DEF Line, IInv, LineInv
    <3>2. /\ 1 \in 1..Len(<<q>> \o sendDataBuffer) - 1
          /\ (<<q>> \o sendDataBuffer)[1] = q
          /\ (<<q>> \o sendDataBuffer)[1 + 1] = sendDataBuffer[1]
      BY <1>1, <1>2, <2>2, SMT
    <3> QED
      BY <1>2, <3>1, <3>2 DEF Chain
  <2>5. Heard(onAir) # <<>> /\ Heard(onAir)[1] = HeardAs(q)
    BY <2>3, SMT
  <2>6. Promise!Opens = p.first
    <3>1. Promise!Opens <=> q.last
      BY <2>5 DEF Promise!Opens, Heard, HeardAs
    <3>2. Promise!Opens \in BOOLEAN
      BY DEF Promise!Opens
    <3> QED
      BY <1>3, <2>3, <2>4, <3>1, <3>2
  <2>7. Promise!Following = p.seq
    BY <2>4, <2>5 DEF Promise!Following, Heard, HeardAs, Modulus
  <2>8. Promise!Continues(p.stream)
    BY <2>4, <2>5 DEF Promise!Continues, Heard, HeardAs
  <2> QED
    BY <1>1, <1>2, <1>3, <1>4, <1>5, <2>6, <2>7, <2>8 DEF Promise!ANext, Promise!Hear, Ends, Heard, HeardAs
<1> QED
  BY <1>6, <1>7

LEMMA InitStart == Init => StartOfLine
BY DEF Init, StartOfLine

(* What joins an empty line first is numbered 1, and stays where it is. *)
LEMMA NextKeepsStart == IInv /\ StartOfLine /\ [Next]_vars => StartOfLine'
<1> SUFFICES ASSUME IInv, StartOfLine, [Next]_vars PROVE StartOfLine'
  OBVIOUS
<1>1. ASSUME NEW burst \in Seq(Packet), IsBurst(burst),
             sendDataBuffer' = sendDataBuffer \o burst, UNCHANGED onAir
      PROVE  StartOfLine'
  <2>1. sendDataBuffer \in Seq(Packet)
    BY DEF IInv, TypeOK
  <2>2. 1 \in 1..Len(burst)
    BY <1>1, SMT DEF IsBurst
  <2>3. sendDataBuffer' # <<>>
    BY <1>1, <2>1, <2>2, SMT
  <2>4. CASE sendDataBuffer = <<>>
    <3>1. sendDataBuffer'[1] = burst[1]
      BY <1>1, <2>2, <2>4, SMT
    <3>2. burst[1].first = TRUE /\ burst[1].seq = (dmrSeq + 1) % Modulus
      BY <1>1, <2>2 DEF IsBurst, SeqAfter, Modulus
    <3>3. onAir = <<>> => (dmrSeq + 1) % Modulus = 1 % Modulus
      <4>1. onAir = <<>> => dmrSeq + 1 = 1
        BY <2>4, SMT DEF StartOfLine
      <4> QED
        BY <4>1
    <3> QED
      BY <1>1, <2>3, <3>1, <3>2, <3>3 DEF StartOfLine, Modulus
  <2>5. CASE sendDataBuffer # <<>>
    <3>1. sendDataBuffer'[1] = sendDataBuffer[1]
      BY <1>1, <2>1, <2>5, SMT
    <3> QED
      BY <1>1, <2>3, <2>5, <3>1 DEF StartOfLine, Modulus
  <2> QED
    BY <2>4, <2>5
<1>2. CASE StartDrain \/ DrainOne
  <2>1. onAir' # <<>>
    BY <1>2, SMT DEF StartDrain, DrainOne, SendHead
  <2> QED
    BY <2>1 DEF StartOfLine
<1>3. CASE SendResponse
  <2>1. PICK burst \in Seq(Packet) :
          /\ IsBurst(burst) /\ sendDataBuffer' = sendDataBuffer \o burst /\ UNCHANGED onAir
    BY <1>3, ResponseIs DEF IInv
  <2> QED
    BY <1>1, <2>1
<1>4. CASE \E c \in 0..MaxPreambles, b \in 1..MaxBlocks : SendIPPacket(c, b)
  <2>1. PICK c \in 0..MaxPreambles, b \in 1..MaxBlocks : SendIPPacket(c, b)
    BY <1>4
  <2>2. Burst(c, b) \in Seq(Packet) /\ IsBurst(Burst(c, b))
    BY BurstIs DEF IInv
  <2> QED
    BY <1>1, <2>1, <2>2 DEF SendIPPacket
<1>5. CASE EndDrain \/ ConnectionChanges \/ TrafficHeard \/ ChannelQuiet \/ UNCHANGED vars
  BY <1>5 DEF StartOfLine, Modulus, EndDrain, ConnectionChanges, TrafficHeard,
              ChannelQuiet, vars
<1> QED
  BY <1>2, <1>3, <1>4, <1>5 DEF Next, Sender

(* Every step of the sender is one of DatagramLine, or none. *)
LEMMA StepRefines == IInv /\ StartOfLine /\ [Next]_vars => [Promise!ANext]_(Promise!avars)
<1> SUFFICES ASSUME IInv, StartOfLine, [Next]_vars
             PROVE  Promise!ANext \/ UNCHANGED <<sendDataBuffer, onAir>>
  BY DEF Promise!avars
<1>1. CASE StartDrain \/ DrainOne
  BY <1>1, SendHeadHeard
<1>2. CASE SendResponse
  BY <1>2, ResponseIs, JoinAccepts DEF IInv
<1>3. CASE \E c \in 0..MaxPreambles, b \in 1..MaxBlocks : SendIPPacket(c, b)
  <2>1. PICK c \in 0..MaxPreambles, b \in 1..MaxBlocks : SendIPPacket(c, b)
    BY <1>3
  <2>2. Burst(c, b) \in Seq(Packet) /\ IsBurst(Burst(c, b))
    BY BurstIs DEF IInv
  <2> QED
    BY <2>1, <2>2, JoinAccepts DEF IInv, SendIPPacket
<1>4. CASE EndDrain \/ ConnectionChanges \/ TrafficHeard \/ ChannelQuiet \/ UNCHANGED vars
  BY <1>4 DEF EndDrain, ConnectionChanges, TrafficHeard, ChannelQuiet, vars
<1> QED
  BY <1>1, <1>2, <1>3, <1>4 DEF Next, Sender

(***************************************************************************)
(* The sender keeps the promise of DatagramLine, for any ranges of the     *)
(* counters: datagrams are heard whole, one after the other and numbered   *)
(* without a gap, and nothing that waits is lost.                          *)
(***************************************************************************)
THEOREM ImplementsDatagramLine == Spec => LineSpec
<1>1. Init => Promise!AInit
  <2> SUFFICES ASSUME Init PROVE Promise!AInit
    OBVIOUS
  <2>1. sendDataBuffer = <<>> /\ onAir = <<>>
    BY DEF Init
  <2>2. Len(sendDataBuffer) = 0 /\ 1..0 = {}
    BY <2>1, SMT
  <2>3. Heard(onAir) = <<>> /\ Ends(sendDataBuffer) = {}
    BY <2>1, <2>2, HeardIs DEF Ends
  <2> QED
    BY <2>2, <2>3 DEF Promise!AInit, Heard, Ends
<1> QED
  BY <1>1, InitStart, NextKeepsStart, StepRefines, Invariance, PTL
     DEF Spec, LineSpec, Promise!ASpec
=============================================================================
