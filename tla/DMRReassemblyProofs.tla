------------------------ MODULE DMRReassemblyProofs ------------------------
(***************************************************************************)
(* What holds of DMRReassembly for any sources, any shapes of datagrams    *)
(* and any channels.                                                       *)
(*                                                                         *)
(* In every channel a DataBlock counts its blocks and takes those of its   *)
(* source only, checked where they have a CRC (Accounted).  In an orderly one the packets of a source     *)
(* between two headers are parts of one datagram, in order (Ordered), and  *)
(* those before the next header belong to the open DataBlock (Under), or   *)
(* there are none because the datagram is complete (Complete).             *)
(***************************************************************************)
EXTENDS DMRReassembly, SequenceTheorems, TLAPS

Open(s)   == dataBuffer[s] # Nothing
Buffer(s) == dataBuffer[s][1]

(* The packets of s in the air from j + 1 to k hold no header. *)
NoHeader(line, s, j, k) == \A i \in j+1..k : line[i].src = s => line[i].part # 0

(* Parts of one datagram, ascending, the radio's next one (of d) included. *)
Ordered(line, s, d, part) ==
  /\ \A j, k \in 1..Len(line) :
       j < k /\ line[j].src = s /\ line[k].src = s /\ NoHeader(line, s, j, k)
         => line[k].d = line[j].d /\ line[k].part > line[j].part
  /\ \A j \in 1..Len(line) :
       part # 0 /\ line[j].src = s /\ NoHeader(line, s, j, Len(line))
         => d = line[j].d /\ part > line[j].part

(* What comes before the next header is of datagram h. *)
Under(line, s, h, d, part) ==
  /\ \A k \in 1..Len(line) : line[k].src = s /\ NoHeader(line, s, 0, k) => line[k].d = h
  /\ part # 0 /\ NoHeader(line, s, 0, Len(line)) => d = h

(* Nothing comes before the next header. *)
Complete(line, s, d, part) ==
  /\ \A k \in 1..Len(line) : line[k].src = s => ~NoHeader(line, s, 0, k)
  /\ part # 0 /\ NoHeader(line, s, 0, Len(line)) => part > d.shape.blocks

(* A block of s whose own CRC, if it has one, is right. *)
Fits(part, s) == part.src = s /\ (HasOwnCRC(part) => Intact(part))

Accounted ==
  \A s \in Sources : Open(s) =>
    /\ Buffer(s).remain + Len(Buffer(s).parts) = Buffer(s).header.shape.blocks
    /\ \A i \in 1..Len(Buffer(s).parts) : Fits(Buffer(s).parts[i], s)

(* The row of s: its DataBlock holds what was heard in a row. *)
InRow(s) ==
  whole[s] >= 0 /\ Open(s) =>
    /\ Len(Buffer(s).parts) = whole[s]
    /\ \A i \in 1..Len(Buffer(s).parts) :
         Buffer(s).parts[i].part = i /\ Intact(Buffer(s).parts[i])

Tidy(s) ==
  /\ Ordered(air, s, radio[s].d, radio[s].part)
  /\ Open(s) => /\ Under(air, s, Buffer(s).header, radio[s].d, radio[s].part)
                /\ \A i \in 1..Len(Buffer(s).parts) : Buffer(s).parts[i].d = Buffer(s).header
  /\ whole[s] >= 0 /\ ~Open(s) => Complete(air, s, radio[s].d, radio[s].part)
  /\ InRow(s)

TidyInOrder == Orderly => \A s \in Sources : Tidy(s)

IInv == TypeOK /\ Accounted /\ TidyInOrder /\ DecodedWhole /\ OwnHeader /\ CrashesOnlyOfItself

Removed(line, k) == SubSeq(line, 1, k - 1) \o SubSeq(line, k + 1, Len(line))

USE ShapesAssumption, AirAssumption

-----------------------------------------------------------------------------
(* Taking a packet out moves the ones behind it. *)
LEMMA RemovedIs ==
  ASSUME NEW line \in Seq(Message), NEW k \in 1..Len(line)
  PROVE  /\ Removed(line, k) \in Seq(Message)
         /\ Len(Removed(line, k)) = Len(line) - 1
         /\ \A i \in 1..Len(line) - 1 :
              Removed(line, k)[i] = IF i < k THEN line[i] ELSE line[i + 1]
<1> DEFINE front == SubSeq(line, 1, k - 1)
           back  == SubSeq(line, k + 1, Len(line))
           n     == Len(line)
<1>1. n \in Nat /\ k \in 1..n
  OBVIOUS
<1>2. /\ front \in Seq(Message) /\ Len(front) = k - 1
      /\ \A i \in 1..k-1 : front[i] = line[i]
  BY <1>1, SMT
<1>3. /\ back \in Seq(Message) /\ Len(back) = n - k
      /\ \A i \in 1..n-k : back[i] = line[k + i]
  BY <1>1, SMT
<1>4. Removed(line, k) = front \o back
  BY DEF Removed
<1> HIDE DEF front, back, n
<1>5. /\ front \o back \in Seq(Message)
      /\ Len(front \o back) = Len(front) + Len(back)
      /\ \A i \in 1..Len(front) + Len(back) :
           (front \o back)[i] = IF i <= Len(front) THEN front[i] ELSE back[i - Len(front)]
  BY <1>2, <1>3, ConcatProperties
<1>6. ASSUME NEW i \in 1..n-1
      PROVE  (front \o back)[i] = IF i < k THEN line[i] ELSE line[i + 1]
  <2>1. i \in 1..Len(front) + Len(back)
    BY <1>1, <1>2, <1>3, SMT
  <2>2. CASE i < k
    <3>1. i <= Len(front) /\ i \in 1..k-1
      BY <1>1, <1>2, <2>2, SMT
    <3> QED
      BY <1>2, <1>5, <2>1, <2>2, <3>1
  <2>3. CASE ~(i < k)
    <3>1. PICK h \in 1..n-k : h = i - Len(front)
      BY <1>1, <1>2, <2>3, SMT
    <3>2. ~(i <= Len(front)) /\ k + h = i + 1
      BY <1>1, <1>2, <2>3, <3>1, SMT
    <3>3. (front \o back)[i] = back[h]
      BY <1>5, <2>1, <3>1, <3>2
    <3> QED
      BY <1>3, <2>3, <3>2, <3>3
  <2> QED
    BY <2>2, <2>3
<1>7. Len(front \o back) = n - 1
  BY <1>1, <1>2, <1>3, <1>5, SMT
<1> QED
  BY <1>4, <1>5, <1>6, <1>7 DEF n

(* A packet is a record of these fields. *)
LEMMA MessageFields ==
  ASSUME NEW m \in Message
  PROVE  /\ m.src \in Sources /\ m.d \in Datagrams /\ m.damage \in Damage
         /\ m.part \in Nat /\ m.d.shape.blocks \in Nat
         /\ m.part <= m.d.shape.blocks
         /\ m.d.shape \in Shapes
BY DEF Message, Datagrams, Shape

LEMMA ElementIsMessage ==
  ASSUME NEW line \in Seq(Message), NEW k \in 1..Len(line)
  PROVE  line[k] \in Message
BY ElementOfSeq

(***************************************************************************)
(* What stays free of headers: if places a + 1 to c of the line go, but    *)
(* for place k, to places j + 1 to h of the line without it, and k is no   *)
(* header of the source or not among them.                                 *)
(***************************************************************************)
LEMMA NoHeaderKept ==
  ASSUME NEW line \in Seq(Message), NEW k \in 1..Len(line), NEW s,
         NEW a \in Nat, NEW c \in 0..Len(line), NEW j \in Nat, NEW h \in 0..Len(line) - 1,
         k \in a+1..c /\ line[k].src = s => line[k].part # 0,
         \A i \in a+1..c : /\ i < k => i \in j+1..h
                           /\ i > k => i - 1 \in j+1..h,
         NoHeader(Removed(line, k), s, j, h)
  PROVE  NoHeader(line, s, a, c)
<1> SUFFICES ASSUME NEW i \in a+1..c, line[i].src = s PROVE line[i].part # 0
  BY DEF NoHeader
<1> DEFINE rest == Removed(line, k)
<1>1. \A x \in 1..Len(line) - 1 : rest[x] = IF x < k THEN line[x] ELSE line[x + 1]
  BY RemovedIs
<1>2. \A x \in j+1..h : rest[x].src = s => rest[x].part # 0
  BY DEF NoHeader
<1> HIDE DEF rest
<1>3. Len(line) \in Nat /\ i \in Nat /\ k \in Nat
  OBVIOUS
<1>4. CASE i = k
  BY <1>4
<1>5. CASE i < k
  <2>1. i \in j+1..h /\ i \in 1..Len(line) - 1
    BY <1>3, <1>5, SMT
  <2> QED
    BY <1>1, <1>2, <1>5, <2>1
<1>6. CASE i > k
  <2>1. PICK x \in j+1..h : x = i - 1
    BY <1>3, <1>6
  <2>2. x \in 1..Len(line) - 1 /\ x + 1 = i /\ ~(x < k)
    BY <1>3, <1>6, <2>1, SMT
  <2> QED
    BY <1>1, <1>2, <2>1, <2>2
<1> QED
  BY <1>3, <1>4, <1>5, <1>6, SMT

(* Where a packet was before another one was taken out. *)
LEMMA PlaceBefore ==
  ASSUME NEW line \in Seq(Message), NEW k \in 1..Len(line), NEW i \in 1..Len(Removed(line, k))
  PROVE  \E p \in 1..Len(line) : /\ Removed(line, k)[i] = line[p]
                                 /\ i < k => p = i
                                 /\ ~(i < k) => p = i + 1
<1>1. i \in 1..Len(line) - 1 /\ Len(line) \in Nat
  BY RemovedIs
<1>2. Removed(line, k)[i] = IF i < k THEN line[i] ELSE line[i + 1]
  BY <1>1, RemovedIs
<1>3. CASE i < k
  <2>1. i \in 1..Len(line)
    BY <1>1, SMT
  <2> QED
    BY <1>2, <1>3, <2>1
<1>4. CASE ~(i < k)
  <2>1. PICK p \in 1..Len(line) : p = i + 1
    BY <1>1, SMT
  <2> QED
    BY <1>2, <1>4, <2>1
<1> QED
  BY <1>3, <1>4

-----------------------------------------------------------------------------
(* A packet that is no header of s, or the first one, is taken out. *)
LEMMA OrderedLess ==
  ASSUME NEW line \in Seq(Message), NEW k \in 1..Len(line), NEW s, NEW d, NEW part,
         line[k].src = s => line[k].part # 0 \/ k = 1,
         Ordered(line, s, d, part)
  PROVE  Ordered(Removed(line, k), s, d, part)
<1> DEFINE rest == Removed(line, k)
<1>1. Len(line) \in Nat /\ k \in 1..Len(line) /\ Len(rest) = Len(line) - 1
  BY RemovedIs
<1>2. \A i \in 1..Len(rest) :
        \E p \in 1..Len(line) : rest[i] = line[p] /\ (i < k => p = i) /\ (~(i < k) => p = i + 1)
  BY PlaceBefore, SMTT(30)
<1> HIDE DEF rest
<1>3. ASSUME NEW j \in 1..Len(rest), NEW i \in 1..Len(rest),
             j < i, rest[j].src = s, rest[i].src = s, NoHeader(rest, s, j, i)
      PROVE  rest[i].d = rest[j].d /\ rest[i].part > rest[j].part
  <2>1. PICK a \in 1..Len(line) : rest[j] = line[a] /\ (j < k => a = j) /\ (~(j < k) => a = j + 1)
    BY <1>2
  <2>2. PICK c \in 1..Len(line) : rest[i] = line[c] /\ (i < k => c = i) /\ (~(i < k) => c = i + 1)
    BY <1>2
  <2>3. /\ a < c /\ a \in Nat /\ c \in 0..Len(line) /\ j \in Nat /\ i \in 0..Len(line) - 1
        /\ \A x \in a+1..c : (x < k => x \in j+1..i) /\ (x > k => x - 1 \in j+1..i)
    BY <1>1, <1>3, <2>1, <2>2, SMTT(30)
  <2>4. k \in a+1..c /\ line[k].src = s => line[k].part # 0
    BY <2>1, SMT
  <2>5. NoHeader(line, s, a, c)
    BY <1>3, <2>3, <2>4, NoHeaderKept DEF rest
  <2> QED
    BY <1>3, <2>1, <2>2, <2>3, <2>5 DEF Ordered
<1>4. ASSUME NEW j \in 1..Len(rest), part # 0, rest[j].src = s, NoHeader(rest, s, j, Len(rest))
      PROVE  d = rest[j].d /\ part > rest[j].part
  <2>1. PICK a \in 1..Len(line) : rest[j] = line[a] /\ (j < k => a = j) /\ (~(j < k) => a = j + 1)
    BY <1>2
  <2>2. PICK h \in 0..Len(line) - 1 : h = Len(rest)
    BY <1>1, SMT
  <2>3. /\ a \in Nat /\ j \in Nat /\ Len(line) \in 0..Len(line)
        /\ \A x \in a+1..Len(line) : (x < k => x \in j+1..h) /\ (x > k => x - 1 \in j+1..h)
    BY <1>1, <2>1, <2>2, SMT
  <2>4. NoHeader(rest, s, j, h)
    BY <1>4, <2>2
  <2>5. k \in a+1..Len(line) /\ line[k].src = s => line[k].part # 0
    BY <2>1, SMT
  <2>6. NoHeader(line, s, a, Len(line))
    BY <2>3, <2>4, <2>5, NoHeaderKept DEF rest
  <2> QED
    BY <1>4, <2>1, <2>6 DEF Ordered
<1> QED
  BY <1>3, <1>4 DEF Ordered, rest

(* Nor do the packets before the next header change their datagram. *)
LEMMA UnderLess ==
  ASSUME NEW line \in Seq(Message), NEW k \in 1..Len(line), NEW s, NEW g, NEW d, NEW part,
         line[k].src = s => line[k].part # 0,
         Under(line, s, g, d, part)
  PROVE  Under(Removed(line, k), s, g, d, part)
<1> DEFINE rest == Removed(line, k)
<1>1. Len(line) \in Nat /\ k \in 1..Len(line) /\ Len(rest) = Len(line) - 1
  BY RemovedIs
<1>2. \A i \in 1..Len(rest) :
        \E p \in 1..Len(line) : rest[i] = line[p] /\ (i < k => p = i) /\ (~(i < k) => p = i + 1)
  BY PlaceBefore, SMTT(30)
<1> HIDE DEF rest
<1>3. ASSUME NEW i \in 1..Len(rest), rest[i].src = s, NoHeader(rest, s, 0, i)
      PROVE  rest[i].d = g
  <2>1. PICK c \in 1..Len(line) : rest[i] = line[c] /\ (i < k => c = i) /\ (~(i < k) => c = i + 1)
    BY <1>2
  <2>2. /\ i \in 0..Len(line) - 1 /\ 0 \in Nat /\ c \in 0..Len(line)
        /\ \A x \in 0+1..c : (x < k => x \in 0+1..i) /\ (x > k => x - 1 \in 0+1..i)
    BY <1>1, <2>1, SMT
  <2>3. NoHeader(line, s, 0, c)
    BY <1>3, <2>2, NoHeaderKept DEF rest
  <2> QED
    BY <1>3, <2>1, <2>3 DEF Under
<1>4. ASSUME part # 0, NoHeader(rest, s, 0, Len(rest)) PROVE d = g
  <2>1. PICK h \in 0..Len(line) - 1 : h = Len(rest)
    BY <1>1, SMT
  <2>2. /\ 0 \in Nat /\ Len(line) \in 0..Len(line)
        /\ \A x \in 0+1..Len(line) : (x < k => x \in 0+1..h) /\ (x > k => x - 1 \in 0+1..h)
    BY <1>1, <2>1, SMT
  <2>3. NoHeader(line, s, 0, Len(line))
    BY <1>4, <2>1, <2>2, NoHeaderKept DEF rest
  <2> QED
    BY <1>4, <2>3 DEF Under
<1> QED
  BY <1>3, <1>4 DEF Under, rest

LEMMA CompleteLess ==
  ASSUME NEW line \in Seq(Message), NEW k \in 1..Len(line), NEW s, NEW d, NEW part,
         line[k].src = s => line[k].part # 0,
         Complete(line, s, d, part)
  PROVE  Complete(Removed(line, k), s, d, part)
<1> DEFINE rest == Removed(line, k)
<1>1. Len(line) \in Nat /\ k \in 1..Len(line) /\ Len(rest) = Len(line) - 1
  BY RemovedIs
<1>2. \A i \in 1..Len(rest) :
        \E p \in 1..Len(line) : rest[i] = line[p] /\ (i < k => p = i) /\ (~(i < k) => p = i + 1)
  BY PlaceBefore, SMTT(30)
<1> HIDE DEF rest
<1>3. ASSUME NEW i \in 1..Len(rest), rest[i].src = s, NoHeader(rest, s, 0, i)
      PROVE  FALSE
  <2>1. PICK c \in 1..Len(line) : rest[i] = line[c] /\ (i < k => c = i) /\ (~(i < k) => c = i + 1)
    BY <1>2
  <2>2. /\ i \in 0..Len(line) - 1 /\ 0 \in Nat /\ c \in 0..Len(line)
        /\ \A x \in 0+1..c : (x < k => x \in 0+1..i) /\ (x > k => x - 1 \in 0+1..i)
    BY <1>1, <2>1, SMT
  <2>3. NoHeader(line, s, 0, c)
    BY <1>3, <2>2, NoHeaderKept DEF rest
  <2> QED
    BY <1>3, <2>1, <2>3 DEF Complete
<1>4. ASSUME part # 0, NoHeader(rest, s, 0, Len(rest)) PROVE part > d.shape.blocks
  <2>1. PICK h \in 0..Len(line) - 1 : h = Len(rest)
    BY <1>1, SMT
  <2>2. /\ 0 \in Nat /\ Len(line) \in 0..Len(line)
        /\ \A x \in 0+1..Len(line) : (x < k => x \in 0+1..h) /\ (x > k => x - 1 \in 0+1..h)
    BY <1>1, <2>1, SMT
  <2>3. NoHeader(line, s, 0, Len(line))
    BY <1>4, <2>1, <2>2, NoHeaderKept DEF rest
  <2> QED
    BY <1>4, <2>3 DEF Complete
<1> QED
  BY <1>3, <1>4 DEF Complete, rest

(* What comes before the next header belongs behind packet m. *)
Follows(line, m, s, d, part) ==
  /\ \A k \in 1..Len(line) : line[k].src = s /\ NoHeader(line, s, 0, k)
                              => line[k].d = m.d /\ line[k].part > m.part
  /\ part # 0 /\ NoHeader(line, s, 0, Len(line)) => d = m.d /\ part > m.part

(* Behind the first packet in the air, if it is one of s, comes more of its datagram. *)
LEMMA BehindFirst ==
  ASSUME NEW line \in Seq(Message), NEW s, NEW d, NEW part \in Nat, 1 \in 1..Len(line),
         line[1].src = s, Ordered(line, s, d, part)
  PROVE  Follows(Removed(line, 1), line[1], s, d, part)
<1> DEFINE rest == Removed(line, 1)
<1>1. Len(line) \in Nat /\ Len(rest) = Len(line) - 1
  BY RemovedIs
<1>2. \A i \in 1..Len(line) - 1 : rest[i] = IF i < 1 THEN line[i] ELSE line[i + 1]
  BY RemovedIs
<1> HIDE DEF rest
<1>3. \A i \in 1..Len(rest) : rest[i] = line[i + 1]
  BY <1>1, <1>2, SMT
<1>4. ASSUME NEW i \in 1..Len(rest), rest[i].src = s, NoHeader(rest, s, 0, i)
      PROVE  rest[i].d = line[1].d /\ rest[i].part > line[1].part
  <2>1. PICK c \in 1..Len(line) : c = i + 1
    BY <1>1, SMT
  <2>2. /\ 1 \in Nat /\ 0 \in Nat /\ c \in 0..Len(line) /\ i \in 0..Len(line) - 1 /\ 1 < c
        /\ ~(1 \in 1+1..c)
        /\ \A x \in 1+1..c : (x < 1 => x \in 0+1..i) /\ (x > 1 => x - 1 \in 0+1..i)
    BY <1>1, <2>1, SMT
  <2>3. NoHeader(line, s, 1, c)
    BY <1>4, <2>2, NoHeaderKept DEF rest
  <2>4. rest[i] = line[c]
    BY <1>3, <2>1
  <2> QED
    BY <1>4, <2>2, <2>3, <2>4 DEF Ordered
<1>5. ASSUME part # 0, NoHeader(rest, s, 0, Len(rest))
      PROVE  d = line[1].d /\ part > line[1].part
  <2>1. PICK h \in 0..Len(line) - 1 : h = Len(rest)
    BY <1>1, SMT
  <2>2. /\ 1 \in Nat /\ 0 \in Nat /\ Len(line) \in 0..Len(line)
        /\ ~(1 \in 1+1..Len(line))
        /\ \A x \in 1+1..Len(line) : (x < 1 => x \in 0+1..h) /\ (x > 1 => x - 1 \in 0+1..h)
    BY <1>1, <2>1, SMT
  <2>3. NoHeader(line, s, 1, Len(line))
    BY <1>5, <2>1, <2>2, NoHeaderKept DEF rest
  <2> QED
    BY <1>5, <2>3 DEF Ordered
<1> QED
  BY <1>4, <1>5 DEF rest, Follows

(* The header of a datagram is taken: its parts come next. *)
LEMMA UnderHeader ==
  ASSUME NEW line \in Seq(Message), NEW s, NEW d, NEW part \in Nat, 1 \in 1..Len(line),
         line[1].src = s, Ordered(line, s, d, part)
  PROVE  Under(Removed(line, 1), s, line[1].d, d, part)
<1>1. Follows(Removed(line, 1), line[1], s, d, part)
  BY BehindFirst
<1> HIDE DEF Removed
<1> QED
  BY <1>1 DEF Under, Follows

(* The last block of a datagram is taken: nothing of it can follow. *)
LEMMA CompleteAfterLast ==
  ASSUME NEW line \in Seq(Message), NEW s, NEW d, NEW part \in Nat, 1 \in 1..Len(line),
         line[1].src = s, Ordered(line, s, d, part), line[1].part = line[1].d.shape.blocks
  PROVE  Complete(Removed(line, 1), s, d, part)
<1> DEFINE rest == Removed(line, 1)
<1>1. rest \in Seq(Message)
  BY RemovedIs
<1>2. /\ \A i \in 1..Len(rest) : rest[i].src = s /\ NoHeader(rest, s, 0, i)
           => rest[i].d = line[1].d /\ rest[i].part > line[1].part
      /\ part # 0 /\ NoHeader(rest, s, 0, Len(rest)) => d = line[1].d /\ part > line[1].part
  BY BehindFirst DEF Follows
<1> HIDE DEF rest
<1>3. ASSUME NEW i \in 1..Len(rest), rest[i].src = s, NoHeader(rest, s, 0, i)
      PROVE  FALSE
  <2>1. rest[i] \in Message /\ line[1] \in Message
    BY <1>1, ElementIsMessage
  <2>2. /\ rest[i].part \in Nat /\ rest[i].d.shape.blocks \in Nat
        /\ rest[i].part <= rest[i].d.shape.blocks
    BY <2>1, MessageFields
  <2>3. rest[i].d = line[1].d /\ rest[i].part > line[1].part
    BY <1>2, <1>3
  <2> QED
    BY <2>2, <2>3, SMT
<1> QED
  BY <1>2, <1>3 DEF Complete, rest

-----------------------------------------------------------------------------
(* A packet joins the line. *)
LEMMA NoHeaderAppended ==
  ASSUME NEW line \in Seq(Message), NEW m \in Message, NEW s, NEW j \in Nat
  PROVE  /\ \A k \in 0..Len(line) : NoHeader(Append(line, m), s, j, k) => NoHeader(line, s, j, k)
         /\ j <= Len(line) /\ NoHeader(Append(line, m), s, j, Len(line) + 1)
              => /\ NoHeader(line, s, j, Len(line))
                 /\ m.src = s => m.part # 0
<1> DEFINE more == Append(line, m)
           n == Len(line)
<1>1. n \in Nat /\ more[n + 1] = m /\ \A i \in 1..n : more[i] = line[i]
  BY SMT
<1> HIDE DEF more, n
<1>2. ASSUME NEW k \in 0..n, NoHeader(more, s, j, k) PROVE NoHeader(line, s, j, k)
  <2> SUFFICES ASSUME NEW i \in j+1..k, line[i].src = s PROVE line[i].part # 0
    BY DEF NoHeader
  <2>1. i \in 1..n
    BY <1>1, SMT
  <2> QED
    BY <1>1, <1>2, <2>1 DEF NoHeader
<1>3. ASSUME j <= n, NoHeader(more, s, j, n + 1)
      PROVE  NoHeader(line, s, j, n) /\ (m.src = s => m.part # 0)
  <2>1. /\ n + 1 \in j+1..n+1
        /\ \A i \in j+1..n : i \in j+1..n+1 /\ i \in 1..n
    BY <1>1, <1>3, SMT
  <2> QED
    BY <1>1, <1>3, <2>1 DEF NoHeader
<1> QED
  BY <1>2, <1>3 DEF more, n

(* ... of another source. *)
LEMMA OthersAppended ==
  ASSUME NEW line \in Seq(Message), NEW m \in Message, NEW s, NEW g, NEW d, NEW part, m.src # s
  PROVE  /\ Ordered(line, s, d, part) => Ordered(Append(line, m), s, d, part)
         /\ Under(line, s, g, d, part) => Under(Append(line, m), s, g, d, part)
         /\ Complete(line, s, d, part) => Complete(Append(line, m), s, d, part)
<1> DEFINE more == Append(line, m)
           n == Len(line)
<1>1. n \in Nat /\ Len(more) = n + 1 /\ more[n + 1] = m /\ \A i \in 1..n : more[i] = line[i]
  BY SMT
<1>2. \A j \in Nat : /\ \A k \in 0..n : NoHeader(more, s, j, k) => NoHeader(line, s, j, k)
                     /\ j <= n /\ NoHeader(more, s, j, n + 1) => NoHeader(line, s, j, n)
  BY NoHeaderAppended
<1> HIDE DEF more, n
<1>3. \A i \in 1..Len(more) : more[i].src = s => i \in 1..n
  BY <1>1, SMT
<1>4. 0 \in Nat /\ 0 <= n /\ \A i \in 1..n : i \in 0..n /\ i \in Nat /\ i <= n
  BY <1>1, SMT
<1>5. Ordered(line, s, d, part) => Ordered(more, s, d, part)
  BY <1>1, <1>2, <1>3, <1>4 DEF Ordered, n
<1>6. Under(line, s, g, d, part) => Under(more, s, g, d, part)
  BY <1>1, <1>2, <1>3, <1>4 DEF Under, n
<1>7. Complete(line, s, d, part) => Complete(more, s, d, part)
  BY <1>1, <1>2, <1>3, <1>4 DEF Complete, n
<1> QED
  BY <1>5, <1>6, <1>7 DEF more

(* ... the part the radio is at. *)
LEMMA PartAppended ==
  ASSUME NEW line \in Seq(Message), NEW m \in Message, NEW s, NEW g, NEW d, NEW part \in Nat,
         m.src = s, m.d = d, m.part = part
  PROVE  /\ Ordered(line, s, d, part) => Ordered(Append(line, m), s, d, part + 1)
         /\ Under(line, s, g, d, part) => Under(Append(line, m), s, g, d, part + 1)
         /\ Complete(line, s, d, part) => Complete(Append(line, m), s, d, part + 1)
<1> DEFINE more == Append(line, m)
           n == Len(line)
<1>1. n \in Nat /\ Len(more) = n + 1 /\ more[n + 1] = m /\ \A i \in 1..n : more[i] = line[i]
  BY SMT
<1>2. \A j \in Nat : /\ \A k \in 0..n : NoHeader(more, s, j, k) => NoHeader(line, s, j, k)
                     /\ j <= n /\ NoHeader(more, s, j, n + 1)
                          => NoHeader(line, s, j, n) /\ part # 0
  BY NoHeaderAppended
<1>m. m.src = s /\ m.d = d /\ m.part = part /\ part + 1 # 0 /\ part + 1 > part
  BY SMT
<1> HIDE DEF more, n
<1>3. \A i \in 1..Len(more) : i \in 1..n \/ i = n + 1
  BY <1>1, SMT
<1>4. 0 \in Nat /\ 0 <= n /\ \A i \in 1..n : i \in 0..n /\ i \in Nat /\ i <= n
  BY <1>1, SMT
<1>5. ASSUME Ordered(line, s, d, part) PROVE Ordered(more, s, d, part + 1)
  <2>1. \A j \in 1..n : NoHeader(line, s, j, n) /\ part # 0 /\ line[j].src = s
          => d = line[j].d /\ part > line[j].part
    BY <1>5 DEF Ordered, n
  <2>2. ASSUME NEW j \in 1..Len(more), NEW k \in 1..Len(more), j < k,
               more[j].src = s, more[k].src = s, NoHeader(more, s, j, k)
        PROVE  more[k].d = more[j].d /\ more[k].part > more[j].part
    <3>1. j \in 1..n
      BY <1>1, <1>3, <2>2, SMT
    <3>2. CASE k \in 1..n
      BY <1>1, <1>2, <1>4, <1>5, <2>2, <3>1, <3>2 DEF Ordered, n
    <3>3. CASE k = n + 1
      BY <1>1, <1>2, <1>4, <1>m, <2>1, <2>2, <3>1, <3>3
    <3> QED
      BY <1>3, <3>2, <3>3
  <2>3. ASSUME NEW j \in 1..Len(more), more[j].src = s, NoHeader(more, s, j, Len(more))
        PROVE  d = more[j].d /\ part + 1 > more[j].part
    <3>1. CASE j \in 1..n
      <4>1. d = line[j].d /\ part > line[j].part
        BY <1>1, <1>2, <1>4, <2>1, <2>3, <3>1
      <4>2. line[j].part \in Nat
        BY <3>1, ElementIsMessage, MessageFields DEF n
      <4>3. part + 1 > line[j].part
        BY <4>1, <4>2, SMT
      <4> QED
        BY <1>1, <3>1, <4>1, <4>3
    <3>2. CASE j = n + 1
      BY <1>1, <1>m, <3>2
    <3> QED
      BY <1>3, <3>1, <3>2
  <2> QED
    BY <2>2, <2>3 DEF Ordered
<1>6. ASSUME Under(line, s, g, d, part) PROVE Under(more, s, g, d, part + 1)
  <2>1. part # 0 /\ NoHeader(line, s, 0, n) => d = g
    BY <1>6 DEF Under, n
  <2>2. ASSUME NEW k \in 1..Len(more), more[k].src = s, NoHeader(more, s, 0, k)
        PROVE  more[k].d = g
    <3>1. CASE k \in 1..n
      BY <1>1, <1>2, <1>4, <1>6, <2>2, <3>1 DEF Under, n
    <3>2. CASE k = n + 1
      BY <1>1, <1>2, <1>4, <1>m, <2>1, <2>2, <3>2
    <3> QED
      BY <1>3, <3>1, <3>2
  <2>3. NoHeader(more, s, 0, Len(more)) => d = g
    BY <1>1, <1>2, <1>4, <2>1
  <2> QED
    BY <2>2, <2>3 DEF Under
<1>7. ASSUME Complete(line, s, d, part) PROVE Complete(more, s, d, part + 1)
  <2>1. part # 0 /\ NoHeader(line, s, 0, n) => part > d.shape.blocks
    BY <1>7 DEF Complete, n
  <2>2. part <= d.shape.blocks /\ d.shape.blocks \in Nat
    BY <1>m, MessageFields
  <2>3. ~(part # 0 /\ NoHeader(line, s, 0, n))
    BY <2>1, <2>2, SMT
  <2>4. \A k \in 1..Len(more) : more[k].src = s => ~NoHeader(more, s, 0, k)
    BY <1>1, <1>2, <1>3, <1>4, <1>7, <2>3 DEF Complete, n
  <2>5. ~NoHeader(more, s, 0, Len(more))
    BY <1>1, <1>2, <1>4, <2>3
  <2> QED
    BY <2>4, <2>5 DEF Complete
<1> QED
  BY <1>5, <1>6, <1>7 DEF more

-----------------------------------------------------------------------------
(* An open DataBlock. *)
LEMMA BufferIs ==
  ASSUME TypeOK, NEW s \in Sources, Open(s)
  PROVE  /\ Buffer(s) \in DataBlock
         /\ Head(dataBuffer[s]) = Buffer(s)
<1>1. Len(dataBuffer[s]) = 1 /\ dataBuffer[s][1] \in DataBlock
  BY DEF TypeOK, Open
<1>2. Head(dataBuffer[s]) = dataBuffer[s][1]
  BY SMT
<1> QED
  BY <1>1, <1>2 DEF Buffer

(* addPacket. *)
LEMMA AddPacketIs ==
  ASSUME NEW b \in DataBlock, NEW m \in Message
  PROVE  /\ AddPacket(b, m) \in DataBlock
         /\ AddPacket(b, m).header = b.header
         /\ Accepts(b, m) => /\ AddPacket(b, m).remain = b.remain - 1
                             /\ AddPacket(b, m).parts = Append(b.parts, m)
         /\ ~Accepts(b, m) => AddPacket(b, m) = b
<1>1. b.header \in Datagrams /\ b.remain \in Nat /\ b.parts \in Seq(Message)
  BY DEF DataBlock
<1>2. CASE Accepts(b, m)
  <2>1. b.remain > 0
    BY <1>2 DEF Accepts
  <2>2. b.remain - 1 \in Nat /\ Append(b.parts, m) \in Seq(Message)
    BY <1>1, <2>1, SMT
  <2>3. b = [header |-> b.header, remain |-> b.remain, parts |-> b.parts]
    BY DEF DataBlock
  <2>4. AddPacket(b, m) = [header |-> b.header, remain |-> b.remain - 1,
                           parts |-> Append(b.parts, m)]
    BY <1>2, <2>3 DEF AddPacket
  <2> QED
    BY <1>1, <1>2, <2>2, <2>4 DEF DataBlock
<1>3. CASE ~Accepts(b, m)
  BY <1>3 DEF AddPacket
<1> QED
  BY <1>2, <1>3

(* Whatever a row holds still holds when a packet like it joins. *)
LEMMA PartsAppended ==
  ASSUME NEW parts \in Seq(Message), NEW m \in Message
  PROVE  /\ Append(parts, m) \in Seq(Message)
         /\ Len(Append(parts, m)) = Len(parts) + 1
         /\ Append(parts, m) # <<>>
         /\ \A i \in 1..Len(Append(parts, m)) :
              \/ i \in 1..Len(parts) /\ Append(parts, m)[i] = parts[i]
              \/ i = Len(parts) + 1 /\ Append(parts, m)[i] = m
BY SMT

-----------------------------------------------------------------------------
(* What onDMRPacket does with packet m, with the DataBlock of its source. *)
Added(m) == AddPacket(Buffer(m.src), m)

Sets(m, value) == dataBuffer' = [dataBuffer EXCEPT ![m.src] = value]

Starts(m) ==
  m.part = 0 /\ Sets(m, <<NewDataBlock(m)>>) /\ out' = Nothing /\ UNCHANGED crashed

Ignores(m) ==
  m.part # 0 /\ ~Open(m.src) /\ out' = Nothing /\ UNCHANGED <<dataBuffer, crashed>>

Collects(m) ==
  /\ m.part # 0 /\ Open(m.src) /\ Added(m).remain > 0
  /\ Sets(m, <<Added(m)>>) /\ out' = Nothing /\ UNCHANGED crashed

Crashes(m) ==
  /\ m.part # 0 /\ Open(m.src) /\ Added(m).remain = 0 /\ Added(m).parts = <<>>
  /\ crashed' = TRUE /\ out' = Nothing /\ UNCHANGED dataBuffer

(* The record of a payload that a decoder made v of. *)
Decoded(b, v) ==
  [header |-> b.header, parts |-> b.parts, verdict |-> v,
   confirms |-> v = "packet" /\ b.header.shape.confirmed]

Decodes(m) ==
  /\ CRCMatches(Added(m).parts)
  /\ \E v \in Verdicts(Added(m).header.shape, Added(m).parts[1].d.shape) :
       out' = <<Decoded(Added(m), v)>> /\ crashed' = (v = "throws")

Finishes(m) ==
  /\ m.part # 0 /\ Open(m.src) /\ Added(m).remain = 0 /\ Added(m).parts # <<>>
  /\ Sets(m, Nothing)
  /\ \/ ~CRCMatches(Added(m).parts) /\ out' = Nothing /\ UNCHANGED crashed
     \/ Decodes(m)

LEMMA PacketCases ==
  ASSUME TypeOK, NEW m \in Message, OnDMRPacket(m)
  PROVE  Starts(m) \/ Ignores(m) \/ Collects(m) \/ Crashes(m) \/ Finishes(m)
<1>1. m.src \in Sources
  BY MessageFields
<1>2. Open(m.src) => Head(dataBuffer[m.src]) = Buffer(m.src) /\ Buffer(m.src) \in DataBlock
  BY <1>1, BufferIs
<1>3. Open(m.src) => Added(m).remain \in Nat
  BY <1>2, AddPacketIs DEF Added, DataBlock
<1>4. CASE m.part = 0
  BY <1>4 DEF OnDMRPacket, Starts, Sets
<1>5. CASE m.part # 0 /\ ~Open(m.src)
  BY <1>5 DEF OnDMRPacket, Ignores, Open
<1>6. CASE m.part # 0 /\ Open(m.src)
  <2>1. AddPacket(Head(dataBuffer[m.src]), m) = Added(m)
    BY <1>2, <1>6 DEF Added
  <2>2. CASE Added(m).remain > 0
    BY <1>6, <2>1, <2>2 DEF OnDMRPacket, Collects, Sets, Open
  <2>3. CASE ~(Added(m).remain > 0)
    <3>1. Added(m).remain = 0
      BY <1>3, <1>6, <2>3, SMT
    <3>2. CASE Added(m).parts = <<>>
      BY <1>6, <2>1, <2>3, <3>1, <3>2 DEF OnDMRPacket, Crashes, Open
    <3>3. CASE Added(m).parts # <<>>
      BY <1>6, <2>1, <2>3, <3>1, <3>3 DEF OnDMRPacket, Finishes, Sets, Open, Decodes, Decoded
    <3> QED
      BY <3>2, <3>3
  <2> QED
    BY <2>2, <2>3
<1> QED
  BY <1>4, <1>5, <1>6

(* The delivery of a packet in the air; in an orderly channel of the first. *)
Delivers(k) ==
  /\ k \in 1..Len(air) /\ ~crashed
  /\ OnDMRPacket(air[k])
  /\ air' = air \/ air' = Removed(air, k)
  /\ Orderly => k = 1 /\ air' = Removed(air, 1)
  /\ whole' = [whole EXCEPT ![air[k].src] = WholeAfter(air[k])]
  /\ UNCHANGED <<channel, radio>>

LEMMA NextCases ==
  ASSUME TypeOK, [Next]_vars
  PROVE  \/ \E s \in Sources : RadioSends(s)
         \/ \E s \in Sources : RadioBegins(s)
         \/ \E k \in 1..Len(air) : Lose(k)
         \/ \E k \in 1..Len(air) : Delivers(k)
         \/ UNCHANGED vars
<1>1. ASSUME DeliverNext PROVE \E k \in 1..Len(air) : Delivers(k)
  <2>1. air \in Seq(Message) /\ air # <<>>
    BY <1>1 DEF TypeOK, DeliverNext
  <2>2. 1 \in 1..Len(air)
    BY <2>1, SMT
  <2>3. Delivers(1)
    BY <1>1, <2>2 DEF DeliverNext, Deliver, Delivers, Without, Removed
  <2> QED
    BY <2>2, <2>3
<1>2. ASSUME DeliverOutOfOrder PROVE \E k \in 1..Len(air) : Delivers(k)
  <2>1. channel.disorder
    BY <1>2 DEF DeliverOutOfOrder
  <2>2. ~Orderly
    BY <2>1 DEF Orderly
  <2>3. PICK k \in 1..Len(air) : Deliver(k, TRUE) \/ Deliver(k, FALSE)
    BY <1>2 DEF DeliverOutOfOrder
  <2>4. Delivers(k)
    BY <2>2, <2>3 DEF Deliver, Delivers, Without, Removed
  <2> QED
    BY <2>4
<1> QED
  BY <1>1, <1>2 DEF Next

-----------------------------------------------------------------------------
(* Type correctness. *)
LEMMA TypeInit == Init => TypeOK
<1> SUFFICES ASSUME Init PROVE TypeOK
  OBVIOUS
<1>1. radio \in [Sources -> [d : Datagrams, part : Nat]] /\ \A s \in Sources : radio[s].part = 0
  BY DEF Init, Datagrams
<1>2. \A s \in Sources : radio[s].part <= radio[s].d.shape.blocks + 1
  <2> SUFFICES ASSUME NEW s \in Sources PROVE radio[s].part <= radio[s].d.shape.blocks + 1
    OBVIOUS
  <2>1. radio[s].d.shape.blocks \in Nat
    BY <1>1 DEF Datagrams, Shape
  <2> QED
    BY <1>1, <2>1, SMT
<1>3. air \in Seq(Message) /\ Len(air) <= MaxAir
  BY SMT DEF Init
<1>4. DOMAIN dataBuffer = Sources /\ \A s \in Sources : dataBuffer[s] = Nothing
  BY DEF Init
<1>5. channel \in Channels /\ crashed \in BOOLEAN
  BY Zenon DEF Init
<1>6. whole \in [Sources -> Int]
  BY SMT DEF Init
<1> QED
  BY <1>1, <1>2, <1>3, <1>4, <1>5, <1>6 DEF TypeOK

(* What the radio of s sends next. *)
LEMMA RadioIs ==
  ASSUME TypeOK, NEW s \in Sources
  PROVE  /\ radio[s].d \in Datagrams /\ radio[s].part \in Nat
         /\ radio[s].d.shape.blocks \in Nat
         /\ radio[s].part <= radio[s].d.shape.blocks
              => \A damage \in Damage :
                   [src |-> s, d |-> radio[s].d, part |-> radio[s].part, damage |-> damage] \in Message
<1>1. radio[s] \in [d : Datagrams, part : Nat]
  BY DEF TypeOK
<1>2. radio[s].d \in Datagrams /\ radio[s].part \in Nat
  BY <1>1
<1>3. radio[s].d.shape.blocks \in Nat
  BY <1>2 DEF Datagrams, Shape
<1> QED
  BY <1>2, <1>3 DEF Message

LEMMA SendIs ==
  ASSUME TypeOK, NEW s \in Sources, RadioSends(s)
  PROVE  \E m \in Message :
           /\ m.src = s /\ m.d = radio[s].d /\ m.part = radio[s].part
           /\ air' = Append(air, m)
           /\ radio'[s].d = radio[s].d /\ radio'[s].part = radio[s].part + 1
           /\ \A t \in Sources \ {s} : radio'[t] = radio[t]
           /\ radio' \in [Sources -> [d : Datagrams, part : Nat]]
<1>1. PICK damage \in Damage : air' = Append(air, [src |-> s, d |-> radio[s].d,
                                                    part |-> radio[s].part, damage |-> damage])
  BY DEF RadioSends
<1>2. [src |-> s, d |-> radio[s].d, part |-> radio[s].part, damage |-> damage] \in Message
  BY RadioIs DEF RadioSends
<1>3. radio \in [Sources -> [d : Datagrams, part : Nat]] /\ radio' = [radio EXCEPT ![s].part = @ + 1]
  BY DEF RadioSends, TypeOK
<1>4. radio[s].part \in Nat /\ radio[s].part + 1 \in Nat
  BY RadioIs, SMT
<1>5. /\ radio'[s].d = radio[s].d /\ radio'[s].part = radio[s].part + 1
      /\ \A t \in Sources \ {s} : radio'[t] = radio[t]
      /\ radio' \in [Sources -> [d : Datagrams, part : Nat]]
  BY <1>3, <1>4
<1> QED
  BY <1>1, <1>2, <1>5

LEMMA BeginIs ==
  ASSUME TypeOK, NEW s \in Sources, RadioBegins(s)
  PROVE  /\ radio'[s].part = 0 /\ radio'[s].d.shape.blocks \in Nat
         /\ \A t \in Sources \ {s} : radio'[t] = radio[t]
         /\ radio' \in [Sources -> [d : Datagrams, part : Nat]]
<1>1. PICK f \in Shapes :
        radio' = [radio EXCEPT ![s] = [d |-> [num |-> 1 - radio[s].d.num, shape |-> f], part |-> 0]]
  BY DEF RadioBegins
<1>2. radio[s].d \in Datagrams /\ radio \in [Sources -> [d : Datagrams, part : Nat]]
  BY RadioIs DEF TypeOK
<1>3. 1 - radio[s].d.num \in {0, 1}
  BY <1>2 DEF Datagrams
<1>4. [num |-> 1 - radio[s].d.num, shape |-> f] \in Datagrams
  BY <1>3 DEF Datagrams
<1>5. f.blocks \in Nat
  BY DEF Shape
<1> QED
  BY <1>1, <1>2, <1>4, <1>5

(* A packet is handled: the types stay, and so does another source's DataBlock. *)
LEMMA HandledTypes ==
  ASSUME TypeOK, NEW m \in Message, OnDMRPacket(m)
  PROVE  /\ DOMAIN dataBuffer' = Sources
         /\ \A s \in Sources : dataBuffer'[s] # Nothing => /\ Len(dataBuffer'[s]) = 1
                                                          /\ dataBuffer'[s][1] \in DataBlock
         /\ \A s \in Sources \ {m.src} : dataBuffer'[s] = dataBuffer[s]
         /\ crashed' \in BOOLEAN
<1>1. /\ m.src \in Sources /\ DOMAIN dataBuffer = Sources
      /\ \A s \in Sources : dataBuffer[s] # Nothing => /\ Len(dataBuffer[s]) = 1
                                                      /\ dataBuffer[s][1] \in DataBlock
  BY MessageFields DEF TypeOK
<1>2. crashed' \in BOOLEAN
  <2>1. UNCHANGED crashed => crashed' \in BOOLEAN
    BY Zenon DEF TypeOK
  <2>2. Decodes(m) => crashed' \in BOOLEAN
    BY DEF Decodes
  <2> QED
    BY <2>1, <2>2, PacketCases DEF Starts, Ignores, Collects, Crashes, Finishes
<1>3. ASSUME NEW b \in DataBlock, Sets(m, <<b>>)
      PROVE  /\ DOMAIN dataBuffer' = Sources
             /\ \A s \in Sources : dataBuffer'[s] # Nothing => /\ Len(dataBuffer'[s]) = 1
                                                              /\ dataBuffer'[s][1] \in DataBlock
             /\ \A s \in Sources \ {m.src} : dataBuffer'[s] = dataBuffer[s]
  <2>1. Len(<<b>>) = 1 /\ <<b>>[1] \in DataBlock
    BY SMT
  <2> QED
    BY <1>1, <1>3, <2>1 DEF Sets
<1>4. CASE Starts(m)
  <2>1. m.d \in Datagrams /\ m.d.shape.blocks \in Nat /\ <<>> \in Seq(Message)
    BY MessageFields, EmptySeq
  <2>2. NewDataBlock(m) \in DataBlock
    BY <2>1 DEF NewDataBlock, DataBlock
  <2> QED
    BY <1>2, <1>3, <1>4, <2>2 DEF Starts
<1>5. CASE Ignores(m) \/ Crashes(m)
  BY <1>1, <1>2, <1>5 DEF Ignores, Crashes
<1>6. CASE Collects(m)
  <2>1. Added(m) \in DataBlock
    BY <1>1, <1>6, BufferIs, AddPacketIs DEF Added, Collects
  <2> QED
    BY <1>2, <1>3, <1>6, <2>1 DEF Collects
<1>7. CASE Finishes(m)
  BY <1>1, <1>2, <1>7 DEF Finishes, Sets
<1> QED
  BY <1>4, <1>5, <1>6, <1>7, PacketCases

LEMMA TypeStep ==
  ASSUME TypeOK, [Next]_vars
  PROVE  TypeOK'
<1>1. ASSUME NEW s \in Sources, RadioSends(s) PROVE TypeOK'
  <2>1. PICK m \in Message :
           /\ air' = Append(air, m)
           /\ radio'[s].d = radio[s].d /\ radio'[s].part = radio[s].part + 1
           /\ \A t \in Sources \ {s} : radio'[t] = radio[t]
           /\ radio' \in [Sources -> [d : Datagrams, part : Nat]]
    BY <1>1, SendIs
  <2>2. radio[s].part <= radio[s].d.shape.blocks /\ Len(air) < MaxAir
    BY <1>1 DEF RadioSends
  <2>3. radio'[s].part <= radio'[s].d.shape.blocks + 1
    BY <2>1, <2>2, RadioIs, SMT
  <2>4. air \in Seq(Message)
    BY DEF TypeOK
  <2>5. air' \in Seq(Message) /\ Len(air') <= MaxAir
    BY <2>1, <2>2, <2>4, SMT
  <2> QED
    BY <1>1, <2>1, <2>3, <2>5 DEF RadioSends, TypeOK
<1>2. ASSUME NEW s \in Sources, RadioBegins(s) PROVE TypeOK'
  <2>1. radio'[s].part <= radio'[s].d.shape.blocks + 1
    BY <1>2, BeginIs, SMT
  <2> QED
    BY <1>2, <2>1, BeginIs DEF RadioBegins, TypeOK
<1>3. ASSUME NEW k \in 1..Len(air), air' = Removed(air, k)
      PROVE  air' \in Seq(Message) /\ Len(air') <= MaxAir
  <2>1. air \in Seq(Message) /\ Len(air) <= MaxAir
    BY DEF TypeOK
  <2>2. air' \in Seq(Message) /\ Len(air') = Len(air) - 1
    BY <1>3, <2>1, RemovedIs
  <2> QED
    BY <2>1, <2>2, SMT
<1>4. ASSUME NEW k \in 1..Len(air), Lose(k) PROVE TypeOK'
  <2>1. air' = Removed(air, k)
    BY <1>4 DEF Lose, Without, Removed
  <2> QED
    BY <1>3, <1>4, <2>1 DEF Lose, TypeOK
<1>5. ASSUME NEW k \in 1..Len(air), Delivers(k) PROVE TypeOK'
  <2>1. air[k] \in Message
    BY ElementIsMessage DEF TypeOK
  <2>2. air' \in Seq(Message) /\ Len(air') <= MaxAir
    BY <1>3, <1>5 DEF Delivers, TypeOK
  <2>3. WholeAfter(air[k]) \in Int
    BY <2>1, MessageFields, SMT DEF WholeAfter
  <2>4. whole' \in [Sources -> Int]
    BY <1>5, <2>3 DEF Delivers, TypeOK
  <2>5. /\ DOMAIN dataBuffer' = Sources
        /\ \A s \in Sources : dataBuffer'[s] # Nothing => /\ Len(dataBuffer'[s]) = 1
                                                         /\ dataBuffer'[s][1] \in DataBlock
        /\ crashed' \in BOOLEAN
    BY <1>5, <2>1, HandledTypes DEF Delivers
  <2> QED
    BY <1>5, <2>2, <2>4, <2>5 DEF Delivers, TypeOK
<1>6. UNCHANGED vars => TypeOK'
  BY DEF TypeOK, vars
<1> QED
  BY <1>1, <1>2, <1>4, <1>5, <1>6, NextCases

-----------------------------------------------------------------------------
(***************************************************************************)
(* Blocks are counted, in every channel.  The rest of the steps leave the  *)
(* DataBlocks alone.                                                       *)
(***************************************************************************)
Counts(b, s) ==
  /\ b.remain + Len(b.parts) = b.header.shape.blocks
  /\ \A i \in 1..Len(b.parts) : Fits(b.parts[i], s)

LEMMA AddedCounts ==
  ASSUME NEW b \in DataBlock, NEW m \in Message, Counts(b, m.src)
  PROVE  Counts(AddPacket(b, m), m.src)
<1>1. b.remain \in Nat /\ b.parts \in Seq(Message) /\ Len(b.parts) \in Nat
  BY DEF DataBlock
<1>2. CASE Accepts(b, m)
  <2>1. /\ AddPacket(b, m).header = b.header
        /\ AddPacket(b, m).remain = b.remain - 1
        /\ AddPacket(b, m).parts = Append(b.parts, m)
    BY <1>2, AddPacketIs
  <2>2. Len(Append(b.parts, m)) = Len(b.parts) + 1
    BY <1>1, PartsAppended
  <2>3. (b.remain - 1) + (Len(b.parts) + 1) = b.remain + Len(b.parts)
    BY <1>1, SMT
  <2>4. Fits(m, m.src)
    BY <1>2 DEF Accepts, Fits
  <2>5. \A i \in 1..Len(Append(b.parts, m)) : Fits(Append(b.parts, m)[i], m.src)
    BY <1>1, <2>4, PartsAppended DEF Counts
  <2> QED
    BY <2>1, <2>2, <2>3, <2>5 DEF Counts
<1>3. CASE ~Accepts(b, m)
  BY <1>3, AddPacketIs
<1> QED
  BY <1>2, <1>3

LEMMA AccountedStep ==
  ASSUME TypeOK, Accounted, [Next]_vars
  PROVE  Accounted'
<1>1. CASE UNCHANGED dataBuffer
  BY <1>1 DEF Accounted, Open, Buffer
<1>2. ASSUME NEW k \in 1..Len(air), Delivers(k) PROVE Accounted'
  <2>1. PICK m \in Message : m = air[k]
    BY ElementIsMessage DEF TypeOK
  <2>2. m.src \in Sources
    BY MessageFields
  <2>3. OnDMRPacket(m)
    BY <1>2, <2>1 DEF Delivers
  <2>4. \A s \in Sources \ {m.src} : dataBuffer'[s] = dataBuffer[s]
    BY <2>2, <2>3, HandledTypes
  <2>5. Open(m.src) => Buffer(m.src) \in DataBlock /\ Counts(Buffer(m.src), m.src)
    BY <2>2, BufferIs DEF Accounted, Counts
  <2>6. Open(m.src) => Counts(Added(m), m.src)
    BY <2>2, <2>5, AddedCounts DEF Added
  <2>7. Open(m.src)' => Counts(Buffer(m.src)', m.src)
    <3>1. DOMAIN dataBuffer = Sources
      BY DEF TypeOK
    <3>2. CASE Starts(m)
      <4>1. Buffer(m.src)' = NewDataBlock(m)
        BY <2>2, <3>1, <3>2 DEF Starts, Sets, Buffer
      <4>2. m.d.shape.blocks \in Nat /\ Len(<<>>) = 0
        BY <2>2, MessageFields, SMT
      <4>3. Counts(NewDataBlock(m), m.src)
        BY <4>2, SMT DEF Counts, NewDataBlock
      <4> QED
        BY <4>1, <4>3
    <3>3. CASE Ignores(m) \/ Crashes(m)
      BY <2>5, <3>3 DEF Ignores, Crashes, Open, Buffer
    <3>4. CASE Collects(m)
      <4>1. Buffer(m.src)' = Added(m)
        BY <2>2, <3>1, <3>4 DEF Collects, Sets, Buffer
      <4> QED
        BY <2>6, <3>4, <4>1 DEF Collects
    <3>5. CASE Finishes(m)
      BY <2>2, <3>1, <3>5 DEF Finishes, Sets, Open
    <3> QED
      BY <2>2, <2>3, <3>2, <3>3, <3>4, <3>5, PacketCases
  <2>8. ASSUME NEW s \in Sources, Open(s)' PROVE Counts(Buffer(s)', s)
    <3>1. CASE s = m.src
      BY <2>7, <2>8, <3>1
    <3>2. CASE s # m.src
      <4>1. dataBuffer'[s] = dataBuffer[s]
        BY <2>4, <3>2
      <4> QED
        BY <2>8, <4>1 DEF Open, Buffer, Accounted, Counts
    <3> QED
      BY <3>1, <3>2
  <2> QED
    BY <2>8 DEF Accounted, Counts
<1> QED
  BY <1>1, <1>2, NextCases DEF RadioSends, RadioBegins, Lose, vars

(* What is decoded had a CRC that matched. *)
LEMMA DecodedIs ==
  ASSUME NEW m, Finishes(m), out' # Nothing
  PROVE  /\ CRCMatches(Added(m).parts)
         /\ out'[1].header = Added(m).header /\ out'[1].parts = Added(m).parts
         /\ out'[1].verdict \in Verdicts(Added(m).header.shape, Added(m).parts[1].d.shape)
         /\ crashed' = (out'[1].verdict = "throws")
<1>1. CRCMatches(Added(m).parts)
  BY DEF Finishes, Decodes
<1>2. PICK v \in Verdicts(Added(m).header.shape, Added(m).parts[1].d.shape) :
        out' = <<Decoded(Added(m), v)>> /\ crashed' = (v = "throws")
  BY DEF Finishes, Decodes
<1>3. out'[1] = Decoded(Added(m), v)
  BY <1>2
<1>4. out'[1].header = Added(m).header /\ out'[1].parts = Added(m).parts /\ out'[1].verdict = v
  BY <1>3 DEF Decoded
<1> QED
  BY <1>1, <1>2, <1>4, Zenon

LEMMA DecodesSomething ==
  ASSUME NEW m, Decodes(m)
  PROVE  out' # Nothing
<1>1. PICK v : out' = <<Decoded(Added(m), v)>>
  BY DEF Decodes
<1>2. \A x : <<x>> # Nothing
  BY SMT DEF Nothing
<1> QED
  BY <1>1, <1>2

(***************************************************************************)
(* A CRC that matches leaves no block out, and one octet at most: not of a *)
(* block with a CRC9, nor of the second header.                            *)
(***************************************************************************)
LEMMA DecodedWholeStep ==
  ASSUME TypeOK, Accounted, DecodedWhole, [Next]_vars
  PROVE  DecodedWhole'
<1>1. CASE UNCHANGED out
  BY <1>1 DEF DecodedWhole
<1>2. CASE out' = Nothing
  BY <1>2 DEF DecodedWhole
<1>3. ASSUME NEW k \in 1..Len(air), Delivers(k), Finishes(air[k]),
             CRCMatches(Added(air[k]).parts), out'[1].parts = Added(air[k]).parts
      PROVE  DecodedWhole'
  <2> DEFINE m == air[k]
             parts == Added(m).parts
             first == parts[1]
             shape == first.d.shape
  <2>1. m \in Message /\ m.src \in Sources
    BY ElementIsMessage, MessageFields DEF TypeOK
  <2>2. Open(m.src) /\ parts # <<>>
    BY <1>3 DEF Finishes
  <2>3. Buffer(m.src) \in DataBlock /\ Counts(Buffer(m.src), m.src)
    BY <2>1, <2>2, BufferIs DEF Accounted, Counts
  <2>4. Added(m) \in DataBlock /\ Counts(Added(m), m.src)
    BY <2>1, <2>3, AddedCounts, AddPacketIs DEF Added
  <2>5. parts \in Seq(Message)
    BY <2>4 DEF DataBlock
  <2>6. /\ Len(parts) = shape.blocks
        /\ \A i \in 1..Len(parts) : parts[i].part = i /\ parts[i].d = first.d
        /\ \A i \in 1..Len(parts) : Intact(parts[i]) \/ LeftOut(parts[i])
    BY <1>3 DEF CRCMatches
  <2>7. \A i \in 1..Len(parts) : Fits(parts[i], m.src)
    BY <2>4 DEF Counts
  <2>8. out'[1].parts = parts
    BY <1>3
  <2> HIDE DEF m, parts
  <2>9. 1 \in 1..Len(parts) /\ Len(parts) \in Nat
    BY <2>2, <2>5, SMT
  <2>10. [i \in 1..Len(parts) |-> parts[i].part] = [i \in 1..shape.blocks |-> i]
    BY <2>6
  <2>11. ASSUME NEW i \in 1..Len(parts), ~Intact(parts[i])
         PROVE  /\ parts[i].damage = "beforeCRC" /\ i = shape.blocks
                /\ shape.sap = "moto" /\ ~shape.confirmed /\ i > 1
    <3>1. parts[i].damage = "beforeCRC" /\ shape.sap = "moto" /\ i = shape.blocks
      BY <2>6, <2>11 DEF LeftOut
    <3>2. ~HasOwnCRC(parts[i])
      BY <2>7, <2>11 DEF Fits
    <3>3. ~shape.confirmed /\ i # 1
      BY <2>6, <3>1, <3>2 DEF HasOwnCRC
    <3>4. i > 1
      BY <2>9, <3>3, SMT
    <3> QED
      BY <3>1, <3>3, <3>4
  <2>12. \A i \in 1..Len(parts) : parts[i].src = first.src
    BY <2>7, <2>9 DEF Fits
  <2> QED
    BY <2>6, <2>8, <2>10, <2>11, <2>12 DEF DecodedWhole
<1>4. ASSUME NEW k \in 1..Len(air), Delivers(k) PROVE DecodedWhole'
  <2>1. air[k] \in Message
    BY ElementIsMessage DEF TypeOK
  <2>2. Starts(air[k]) \/ Ignores(air[k]) \/ Collects(air[k]) \/ Crashes(air[k]) \/ Finishes(air[k])
    BY <1>4, <2>1, PacketCases DEF Delivers
  <2>3. CASE Finishes(air[k]) /\ out' # Nothing
    BY <1>3, <1>4, <2>3, DecodedIs
  <2> QED
    BY <1>2, <2>2, <2>3 DEF Starts, Ignores, Collects, Crashes
<1> QED
  BY <1>1, <1>4, NextCases DEF RadioSends, RadioBegins, Lose, vars

(* Under its own header a payload has one verdict. *)
LEMMA WorthIsOne ==
  ASSUME NEW f, NEW v \in Worth(f)
  PROVE  Worth(f) = {v}
<1>1. \E w : Worth(f) = {w}
  <2>1. \/ Worth(f) = {"throws"}
        \/ Worth(f) = {f.verdict}
    BY Zenon DEF Worth, Verdicts
  <2> QED
    BY <2>1
<1> QED
  BY <1>1

(***************************************************************************)
(* An empty buffer with nothing to come was announced empty; and what a    *)
(* decoder throws on it throws on under the payload's own header.          *)
(***************************************************************************)
LEMMA CrashStep ==
  ASSUME TypeOK, Accounted, CrashesOnlyOfItself, [Next]_vars, OwnHeader'
  PROVE  CrashesOnlyOfItself'
<1>1. CASE UNCHANGED <<crashed, dataBuffer, out, channel>>
  BY <1>1 DEF CrashesOnlyOfItself, Orderly
<1>2. ASSUME NEW k \in 1..Len(air), Delivers(k) PROVE CrashesOnlyOfItself'
  <2> DEFINE m == air[k]
  <2>1. m \in Message /\ m.src \in Sources /\ ~crashed
    BY <1>2, ElementIsMessage, MessageFields DEF TypeOK, Delivers
  <2>2. OnDMRPacket(m)
    BY <1>2 DEF Delivers
  <2> HIDE DEF m
  <2>3. CASE ~crashed'
    BY <2>3 DEF CrashesOnlyOfItself
  <2>4. CASE Crashes(m)
    <3>1. Open(m.src) /\ Added(m).remain = 0 /\ Added(m).parts = <<>>
      BY <2>4 DEF Crashes
    <3>2. Buffer(m.src) \in DataBlock /\ Counts(Buffer(m.src), m.src)
      BY <2>1, <3>1, BufferIs DEF Accounted, Counts
    <3>3. Counts(Added(m), m.src) /\ Added(m).header = Buffer(m.src).header
      BY <2>1, <3>2, AddedCounts, AddPacketIs DEF Added
    <3>4. Len(<<>>) = 0 /\ 0 + 0 = 0
      BY SMT
    <3>5. Buffer(m.src).header.shape.blocks = 0
      BY <3>1, <3>3, <3>4 DEF Counts
    <3>6. UNCHANGED dataBuffer /\ out' = Nothing
      BY <2>4 DEF Crashes
    <3> QED
      BY <2>1, <3>1, <3>5, <3>6 DEF CrashesOnlyOfItself, Open, Buffer
  <2>5. CASE Finishes(m) /\ crashed'
    <3>1. out' # Nothing
      BY <2>1, <2>5, DecodesSomething DEF Finishes
    <3>2. /\ out'[1].header = Added(m).header /\ out'[1].parts = Added(m).parts
          /\ out'[1].verdict \in Verdicts(Added(m).header.shape, Added(m).parts[1].d.shape)
          /\ out'[1].verdict = "throws"
      BY <2>5, <3>1, DecodedIs
    <3>3. ASSUME Orderly' PROVE Worth(out'[1].parts[1].d.shape) = {"throws"}
      <4>1. Added(m).header = Added(m).parts[1].d
        BY <3>1, <3>2, <3>3 DEF OwnHeader
      <4>2. "throws" \in Worth(Added(m).parts[1].d.shape)
        BY <3>2, <4>1 DEF Worth
      <4> QED
        BY <3>2, <4>2, WorthIsOne
    <3> QED
      BY <3>1, <3>2, <3>3 DEF CrashesOnlyOfItself
  <2> QED
    BY <2>1, <2>2, <2>3, <2>4, <2>5, PacketCases DEF Starts, Ignores, Collects
<1> QED
  BY <1>1, <1>2, NextCases DEF RadioSends, RadioBegins, Lose, vars

-----------------------------------------------------------------------------
(***************************************************************************)
(* The orderly channel.  What the environment does keeps its order.        *)
(***************************************************************************)
LEMMA TidySend ==
  ASSUME TypeOK, NEW r \in Sources, RadioSends(r), NEW s \in Sources, Tidy(s)
  PROVE  Tidy(s)'
<1>1. PICK m \in Message :
         /\ m.src = r /\ m.d = radio[r].d /\ m.part = radio[r].part
         /\ air' = Append(air, m)
         /\ radio'[r].d = radio[r].d /\ radio'[r].part = radio[r].part + 1
         /\ \A t \in Sources \ {r} : radio'[t] = radio[t]
  BY SendIs
<1>2. UNCHANGED <<dataBuffer, whole>>
  BY DEF RadioSends
<1>3. air \in Seq(Message) /\ radio[s].part \in Nat
  BY RadioIs DEF TypeOK
<1>4. ASSUME NEW g
      PROVE  /\ Ordered(air, s, radio[s].d, radio[s].part)
                  => Ordered(air', s, radio'[s].d, radio'[s].part)
             /\ Under(air, s, g, radio[s].d, radio[s].part)
                  => Under(air', s, g, radio'[s].d, radio'[s].part)
             /\ Complete(air, s, radio[s].d, radio[s].part)
                  => Complete(air', s, radio'[s].d, radio'[s].part)
  <2>1. CASE s = r
    <3>1. m.src = s /\ m.d = radio[s].d /\ m.part = radio[s].part
      BY <1>1, <2>1
    <3>2. /\ air' = Append(air, m)
          /\ radio'[s].d = radio[s].d /\ radio'[s].part = radio[s].part + 1
      BY <1>1, <2>1
    <3>3. PICK part \in Nat : part = radio[s].part
      BY <1>3
    <3>4. /\ Ordered(air, s, m.d, part) => Ordered(Append(air, m), s, m.d, part + 1)
          /\ Under(air, s, g, m.d, part) => Under(Append(air, m), s, g, m.d, part + 1)
          /\ Complete(air, s, m.d, part) => Complete(Append(air, m), s, m.d, part + 1)
      BY <1>3, <3>1, <3>3, PartAppended
    <3> QED
      BY <3>1, <3>2, <3>3, <3>4
  <2>2. CASE s # r
    <3>1. m.src # s /\ radio'[s] = radio[s]
      BY <1>1, <2>2
    <3> QED
      BY <1>1, <1>3, <3>1, OthersAppended
  <2> QED
    BY <2>1, <2>2
<1> QED
  BY <1>2, <1>4 DEF Tidy, InRow, Open, Buffer

(* Nothing of the new datagram is sent yet. *)
LEMMA NothingSent ==
  ASSUME NEW line, NEW s, NEW g, NEW d, NEW part, NEW e
  PROVE  /\ Ordered(line, s, d, part) => Ordered(line, s, e, 0)
         /\ Under(line, s, g, d, part) => Under(line, s, g, e, 0)
         /\ Complete(line, s, d, part) => Complete(line, s, e, 0)
<1>1. Ordered(line, s, d, part) => Ordered(line, s, e, 0)
  BY DEF Ordered
<1>2. Under(line, s, g, d, part) => Under(line, s, g, e, 0)
  BY DEF Under
<1>3. Complete(line, s, d, part) => Complete(line, s, e, 0)
  BY DEF Complete
<1> QED
  BY <1>1, <1>2, <1>3

LEMMA TidyBegin ==
  ASSUME TypeOK, NEW r \in Sources, RadioBegins(r), NEW s \in Sources, Tidy(s)
  PROVE  Tidy(s)'
<1>1. air' = air /\ UNCHANGED <<dataBuffer, whole>>
  BY DEF RadioBegins
<1>2. CASE s = r
  <2>1. radio'[s].part = 0
    BY <1>2, BeginIs
  <2>2. ASSUME NEW g
        PROVE  /\ Ordered(air, s, radio[s].d, radio[s].part)
                    => Ordered(air', s, radio'[s].d, radio'[s].part)
               /\ Under(air, s, g, radio[s].d, radio[s].part)
                    => Under(air', s, g, radio'[s].d, radio'[s].part)
               /\ Complete(air, s, radio[s].d, radio[s].part)
                    => Complete(air', s, radio'[s].d, radio'[s].part)
    BY <1>1, <2>1, NothingSent
  <2> QED
    BY <1>1, <2>2 DEF Tidy, InRow, Open, Buffer
<1>3. CASE s # r
  <2>1. radio'[s] = radio[s]
    BY <1>3, BeginIs
  <2> QED
    BY <1>1, <2>1 DEF Tidy, InRow, Open, Buffer
<1> QED
  BY <1>2, <1>3

(* A packet that is no header of s is gone, and s has not heard of it. *)
LEMMA TidyWithout ==
  ASSUME TypeOK, NEW k \in 1..Len(air), air' = Removed(air, k), NEW s \in Sources, Tidy(s),
         air[k].src = s => air[k].part # 0,
         UNCHANGED radio, dataBuffer'[s] = dataBuffer[s], whole'[s] = whole[s]
  PROVE  Tidy(s)'
<1>1. air \in Seq(Message)
  BY DEF TypeOK
<1>2. ASSUME NEW g
      PROVE  /\ Ordered(air, s, radio[s].d, radio[s].part)
                  => Ordered(air', s, radio'[s].d, radio'[s].part)
             /\ Under(air, s, g, radio[s].d, radio[s].part)
                  => Under(air', s, g, radio'[s].d, radio'[s].part)
             /\ Complete(air, s, radio[s].d, radio[s].part)
                  => Complete(air', s, radio'[s].d, radio'[s].part)
  BY <1>1, OrderedLess, UnderLess, CompleteLess
<1> QED
  BY <1>2 DEF Tidy, InRow, Open, Buffer

-----------------------------------------------------------------------------
(* What DataBlock holds when the next part m of its source has been added. *)
LEMMA NextPart ==
  ASSUME TypeOK, Accounted, NEW m \in Message, 1 \in 1..Len(air), m = air[1], m.part # 0,
         Tidy(m.src), Open(m.src)
  PROVE  /\ Added(m) \in DataBlock /\ Counts(Added(m), m.src)
         /\ Added(m).header = Buffer(m.src).header
         /\ m.d = Added(m).header
         /\ \A i \in 1..Len(Added(m).parts) : Added(m).parts[i].d = Added(m).header
         /\ Intact(m) /\ whole[m.src] = m.part - 1 =>
              /\ Added(m).parts # <<>> /\ Len(Added(m).parts) = m.part
              /\ \A i \in 1..Len(Added(m).parts) :
                   Added(m).parts[i].part = i /\ Intact(Added(m).parts[i])
<1> DEFINE b == Buffer(m.src)
<1>1. m.src \in Sources /\ m.part \in Nat /\ m.part <= m.d.shape.blocks /\ m.d.shape.blocks \in Nat
  BY MessageFields
<1>2. b \in DataBlock /\ Counts(b, m.src)
  BY <1>1, BufferIs DEF Accounted, Counts
<1>3. /\ Under(air, m.src, b.header, radio[m.src].d, radio[m.src].part)
      /\ \A i \in 1..Len(b.parts) : b.parts[i].d = b.header
      /\ whole[m.src] >= 0 =>
           /\ Len(b.parts) = whole[m.src]
           /\ \A i \in 1..Len(b.parts) : b.parts[i].part = i /\ Intact(b.parts[i])
  BY DEF Tidy, InRow
<1>4. Added(m) = AddPacket(b, m)
  BY DEF Added
<1> HIDE DEF b
<1>5. Added(m) \in DataBlock /\ Counts(Added(m), m.src) /\ Added(m).header = b.header
  BY <1>2, <1>4, AddedCounts, AddPacketIs
<1>6. m.d = b.header
  <2>1. \A i \in 0+1..1 : i = 1
    BY SMT
  <2>2. NoHeader(air, m.src, 0, 1)
    BY <2>1 DEF NoHeader
  <2> QED
    BY <1>3, <2>2 DEF Under
<1>7. b.parts \in Seq(Message) /\ b.remain \in Nat /\ Len(b.parts) \in Nat
  BY <1>2 DEF DataBlock
<1>8. Accepts(b, m) => Added(m).parts = Append(b.parts, m)
  BY <1>2, <1>4, AddPacketIs
<1>9. \A i \in 1..Len(Added(m).parts) : Added(m).parts[i].d = b.header
  <2>1. CASE Accepts(b, m)
    <3>1. ASSUME NEW i \in 1..Len(Append(b.parts, m))
          PROVE  Append(b.parts, m)[i].d = b.header
      <4>1. CASE i \in 1..Len(b.parts) /\ Append(b.parts, m)[i] = b.parts[i]
        BY <1>3, <4>1
      <4>2. CASE Append(b.parts, m)[i] = m
        BY <1>6, <4>2
      <4> QED
        BY <1>7, <4>1, <4>2, PartsAppended
    <3> QED
      BY <1>8, <2>1, <3>1
  <2>2. CASE ~Accepts(b, m)
    <3>1. Added(m) = b
      BY <1>2, <1>4, <2>2, AddPacketIs
    <3> QED
      BY <1>3, <3>1
  <2> QED
    BY <2>1, <2>2
<1>10. ASSUME Intact(m), whole[m.src] = m.part - 1
       PROVE  /\ Added(m).parts # <<>> /\ Len(Added(m).parts) = m.part
              /\ \A i \in 1..Len(Added(m).parts) :
                   Added(m).parts[i].part = i /\ Intact(Added(m).parts[i])
  <2>1. whole[m.src] >= 0
    BY <1>1, <1>10, SMT
  <2>2. Len(b.parts) = m.part - 1
    BY <1>3, <1>10, <2>1
  <2>3. b.remain + Len(b.parts) = m.d.shape.blocks
    BY <1>2, <1>6 DEF Counts
  <2>4. b.remain > 0
    BY <1>1, <1>7, <2>2, <2>3, SMT
  <2>5. Added(m).parts = Append(b.parts, m)
    BY <1>8, <1>10, <2>4 DEF Accepts
  <2>6. Len(b.parts) + 1 = m.part
    BY <1>1, <2>2, SMT
  <2>7. ASSUME NEW i \in 1..Len(Append(b.parts, m))
        PROVE  Append(b.parts, m)[i].part = i /\ Intact(Append(b.parts, m)[i])
    <3>1. CASE i \in 1..Len(b.parts) /\ Append(b.parts, m)[i] = b.parts[i]
      BY <1>3, <2>1, <3>1
    <3>2. CASE i = Len(b.parts) + 1 /\ Append(b.parts, m)[i] = m
      BY <1>10, <2>6, <3>2
    <3> QED
      BY <1>7, <3>1, <3>2, PartsAppended
  <2>8. Append(b.parts, m) # <<>> /\ Len(Append(b.parts, m)) = m.part
    BY <1>7, <2>6, PartsAppended
  <2> QED
    BY <2>5, <2>7, <2>8
<1> QED
  BY <1>5, <1>6, <1>9, <1>10 DEF b

(* The source whose packet is heard: the next part of its row, or a new header. *)
LEMMA TidyHeard ==
  ASSUME TypeOK, Accounted, NEW m \in Message, 1 \in 1..Len(air), m = air[1],
         OnDMRPacket(m), air' = Removed(air, 1), UNCHANGED radio, Tidy(m.src),
         whole'[m.src] = WholeAfter(m)
  PROVE  Tidy(m.src)'
<1> DEFINE s == m.src
           d == radio[s].d
           part == radio[s].part
<1>1. /\ s \in Sources /\ m.part \in Nat /\ m.d.shape.blocks \in Nat
      /\ DOMAIN dataBuffer = Sources /\ air \in Seq(Message) /\ part \in Nat
  BY MessageFields, RadioIs DEF TypeOK
<1>2. radio' = radio /\ air[1] = m
  OBVIOUS
<1>3. Ordered(air, s, d, part)
  BY DEF Tidy
<1>4. Ordered(air', s, d, part)
  BY <1>1, <1>3, OrderedLess
<1>5. m.part # 0 => \A g : Under(air, s, g, d, part) => Under(air', s, g, d, part)
  BY <1>1, UnderLess
<1>6. whole'[s] >= 0 /\ m.part # 0 => /\ whole'[s] = m.part /\ Intact(m)
                                      /\ whole[s] = m.part - 1 /\ whole[s] >= 0
  BY <1>1, SMT DEF WholeAfter
<1>7. CASE Starts(m)
  <2>1. Open(s)' /\ Buffer(s)' = NewDataBlock(m)
    <3>1. dataBuffer'[s] = <<NewDataBlock(m)>>
      BY <1>1, <1>7 DEF Starts, Sets
    <3>2. <<NewDataBlock(m)>> # Nothing /\ <<NewDataBlock(m)>>[1] = NewDataBlock(m)
      BY SMT DEF Nothing
    <3> QED
      BY <3>1, <3>2 DEF Open, Buffer
  <2>2. NewDataBlock(m).header = m.d /\ NewDataBlock(m).parts = <<>>
    BY DEF NewDataBlock
  <2>3. Under(air', s, m.d, d, part)
    BY <1>1, <1>2, <1>3, UnderHeader
  <2>4. whole'[s] = 0
    BY <1>7 DEF Starts, WholeAfter
  <2>5. Len(<<>>) = 0 /\ \A i \in 1..Len(<<>>) : FALSE
    BY SMT
  <2> QED
    BY <1>2, <1>4, <2>1, <2>2, <2>3, <2>4, <2>5 DEF Tidy, InRow
<1>8. CASE Ignores(m)
  <2>1. ~Open(s) /\ ~Open(s)' /\ m.part # 0
    BY <1>8 DEF Ignores, Open
  <2>2. NoHeader(air, s, 0, 1)
    <3>1. \A i \in 0+1..1 : i = 1
      BY SMT
    <3> QED
      BY <1>2, <2>1, <3>1 DEF NoHeader
  <2>3. ~(whole[s] >= 0)
    BY <1>2, <2>1, <2>2 DEF Tidy, Complete
  <2> QED
    BY <1>2, <1>4, <1>6, <2>1, <2>3 DEF Tidy, InRow
<1>9. CASE Collects(m)
  <2>1. Open(s) /\ m.part # 0
    BY <1>9 DEF Collects
  <2>2. Open(s)' /\ Buffer(s)' = Added(m)
    <3>1. dataBuffer'[s] = <<Added(m)>>
      BY <1>1, <1>9 DEF Collects, Sets
    <3>2. <<Added(m)>> # Nothing /\ <<Added(m)>>[1] = Added(m)
      BY SMT DEF Nothing
    <3> QED
      BY <3>1, <3>2 DEF Open, Buffer
  <2>3. Under(air, s, Buffer(s).header, d, part)
    BY <2>1 DEF Tidy
  <2>4. Under(air', s, Added(m).header, d, part)
    BY <1>1, <1>2, <1>5, <2>1, <2>3, NextPart
  <2>5. \A i \in 1..Len(Added(m).parts) : Added(m).parts[i].d = Added(m).header
    BY <2>1, NextPart
  <2>6. whole'[s] >= 0 =>
          /\ Len(Added(m).parts) = whole'[s]
          /\ \A i \in 1..Len(Added(m).parts) : Added(m).parts[i].part = i /\ Intact(Added(m).parts[i])
    BY <1>6, <2>1, NextPart
  <2> QED
    BY <1>2, <1>4, <2>2, <2>4, <2>5, <2>6 DEF Tidy, InRow
<1>10. CASE Crashes(m)
  <2>1. Open(s) /\ m.part # 0 /\ Added(m).remain = 0 /\ Added(m).parts = <<>>
    BY <1>10 DEF Crashes
  <2>2. m.d = Added(m).header /\ Counts(Added(m), s)
    BY <2>1, NextPart
  <2>3. Len(<<>>) = 0
    BY SMT
  <2>4. 0 + 0 = m.d.shape.blocks
    BY <2>1, <2>2, <2>3 DEF Counts
  <2> QED
    BY <1>1, <2>1, <2>4, MessageFields, SMT
<1>11. CASE Finishes(m)
  <2>1. Open(s) /\ m.part # 0 /\ Added(m).remain = 0
    BY <1>11 DEF Finishes
  <2>2. ~Open(s)'
    BY <1>1, <1>11 DEF Finishes, Sets, Open
  <2>3. ASSUME whole'[s] >= 0 PROVE Complete(air', s, d, part)
    <3>1. Len(Added(m).parts) = m.part /\ m.d = Added(m).header /\ Counts(Added(m), s)
      BY <1>6, <2>1, <2>3, NextPart
    <3>2. 0 + m.part = m.d.shape.blocks
      BY <2>1, <3>1 DEF Counts
    <3>3. m.part = m.d.shape.blocks
      BY <1>1, <3>2, SMT
    <3> QED
      BY <1>1, <1>2, <1>3, <3>3, CompleteAfterLast
  <2> QED
    BY <1>2, <1>4, <2>2, <2>3 DEF Tidy, InRow
<1> QED
  BY <1>7, <1>8, <1>9, <1>10, <1>11, PacketCases

LEMMA TidyStep ==
  ASSUME TypeOK, Accounted, TidyInOrder, [Next]_vars
  PROVE  TidyInOrder'
<1>1. channel' = channel
  BY NextCases DEF RadioSends, RadioBegins, Lose, Delivers, vars
<1>2. SUFFICES ASSUME Orderly, NEW s \in Sources PROVE Tidy(s)'
  BY <1>1 DEF TidyInOrder, Orderly
<1>3. Tidy(s)
  BY <1>2 DEF TidyInOrder
<1>4. ASSUME NEW k \in 1..Len(air), Lose(k) PROVE Tidy(s)'
  <2>1. air[k].part # 0
    BY <1>2, <1>4 DEF Lose, Orderly
  <2>2. air' = Removed(air, k) /\ UNCHANGED <<radio, dataBuffer, whole>>
    BY <1>4 DEF Lose, Without, Removed
  <2> QED
    BY <1>3, <2>1, <2>2, TidyWithout
<1>5. ASSUME NEW k \in 1..Len(air), Delivers(k) PROVE Tidy(s)'
  <2>1. k = 1 /\ air' = Removed(air, 1) /\ UNCHANGED radio
    BY <1>2, <1>5 DEF Delivers
  <2>2. PICK m \in Message : m = air[1]
    BY <2>1, ElementIsMessage DEF TypeOK
  <2>3. OnDMRPacket(m) /\ whole' = [whole EXCEPT ![m.src] = WholeAfter(m)]
    BY <1>5, <2>1, <2>2 DEF Delivers
  <2>4. m.src \in Sources /\ whole \in [Sources -> Int]
    BY MessageFields DEF TypeOK
  <2>5. 1 \in 1..Len(air)
    BY <2>1
  <2>6. CASE s = m.src
    <3>1. whole'[m.src] = WholeAfter(m)
      BY <2>3, <2>4
    <3> QED
      BY <1>3, <2>1, <2>2, <2>3, <2>5, <2>6, <3>1, TidyHeard
  <2>7. CASE s # m.src
    <3>1. whole'[s] = whole[s] /\ dataBuffer'[s] = dataBuffer[s]
      BY <2>3, <2>4, <2>7, HandledTypes
    <3> QED
      BY <1>3, <2>1, <2>2, <2>5, <2>7, <3>1, TidyWithout
  <2> QED
    BY <2>6, <2>7
<1>6. CASE UNCHANGED vars
  BY <1>3, <1>6 DEF Tidy, InRow, Open, Buffer, vars
<1> QED
  BY <1>3, <1>4, <1>5, <1>6, NextCases, TidySend, TidyBegin

(* What is handed on was collected under its own header. *)
LEMMA OwnHeaderStep ==
  ASSUME TypeOK, Accounted, TidyInOrder, OwnHeader, [Next]_vars
  PROVE  OwnHeader'
<1>1. channel' = channel
  BY NextCases DEF RadioSends, RadioBegins, Lose, Delivers, vars
<1>2. CASE out' = out
  BY <1>1, <1>2 DEF OwnHeader, Orderly
<1>3. CASE out' = Nothing
  BY <1>3 DEF OwnHeader
<1>4. ASSUME NEW k \in 1..Len(air), Delivers(k), Orderly, out' # Nothing
      PROVE  out'[1].header = out'[1].parts[1].d
  <2>1. k = 1
    BY <1>4 DEF Delivers
  <2>2. PICK m \in Message : m = air[1]
    BY <2>1, ElementIsMessage DEF TypeOK
  <2>3. m.src \in Sources /\ OnDMRPacket(m)
    BY <1>4, <2>1, <2>2, MessageFields DEF Delivers
  <2>4. Finishes(m)
    BY <1>4, <2>3, PacketCases DEF Starts, Ignores, Collects, Crashes
  <2>5. m.part # 0 /\ Open(m.src) /\ Added(m).parts # <<>>
    BY <2>4 DEF Finishes
  <2>6. /\ Added(m).parts \in Seq(Message)
        /\ \A i \in 1..Len(Added(m).parts) : Added(m).parts[i].d = Added(m).header
    BY <1>4, <2>1, <2>2, <2>3, <2>5, NextPart DEF TidyInOrder, DataBlock
  <2>8. out'[1].header = Added(m).header /\ out'[1].parts = Added(m).parts
    BY <1>4, <2>4, DecodedIs
  <2>9. 1 \in 1..Len(Added(m).parts)
    BY <2>5, <2>6, EmptySeq, SMT
  <2> QED
    BY <2>6, <2>8, <2>9
<1> QED
  BY <1>1, <1>2, <1>3, <1>4, NextCases
  DEF RadioSends, RadioBegins, Lose, vars, OwnHeader, Orderly

-----------------------------------------------------------------------------
LEMMA InvInit == Init => IInv
<1> SUFFICES ASSUME Init PROVE IInv
  OBVIOUS
<1>1. TypeOK
  BY TypeInit
<1>2. \A s \in Sources : ~Open(s) /\ whole[s] = -1
  BY DEF Init, Open
<1>3. air = <<>> /\ Len(<<>>) = 0 /\ out = Nothing /\ ~crashed
  BY SMT DEF Init
<1>4. Accounted
  BY <1>2 DEF Accounted
<1>5. ASSUME NEW s \in Sources PROVE Tidy(s)
  <2>1. radio[s].part = 0
    BY DEF Init
  <2>2. ~(-1 >= 0)
    BY SMT
  <2>3. \A j \in 1..Len(air) : FALSE
    BY <1>3, SMT
  <2>4. Ordered(air, s, radio[s].d, radio[s].part)
    BY <2>1, <2>3 DEF Ordered
  <2> QED
    BY <1>2, <2>2, <2>4 DEF Tidy, InRow
<1>6. DecodedWhole /\ OwnHeader /\ CrashesOnlyOfItself
  BY <1>3 DEF DecodedWhole, OwnHeader, CrashesOnlyOfItself
<1> QED
  BY <1>1, <1>4, <1>5, <1>6 DEF IInv, TidyInOrder

LEMMA InvStep ==
  ASSUME IInv, [Next]_vars
  PROVE  IInv'
<1>1. TypeOK'
  BY TypeStep DEF IInv
<1>2. Accounted'
  BY AccountedStep DEF IInv
<1>3. TidyInOrder'
  BY TidyStep DEF IInv
<1>4. DecodedWhole'
  BY DecodedWholeStep DEF IInv
<1>5. OwnHeader'
  BY OwnHeaderStep DEF IInv
<1>6. CrashesOnlyOfItself'
  BY <1>5, CrashStep DEF IInv
<1> QED
  BY <1>1, <1>2, <1>3, <1>4, <1>5, <1>6 DEF IInv

(* IInv holds in every state DMRIPGateway.onDMRPacket can reach. *)
THEOREM Invariance == Spec => []IInv
BY InvInit, InvStep, PTL DEF Spec

(***************************************************************************)
(* Type correctness: a source has at most one DataBlock, whose blocks are  *)
(* packets the air has carried.                                            *)
(***************************************************************************)
THEOREM ReassemblyTypeInvariant == Spec => []TypeOK
<1>1. IInv => TypeOK
  BY DEF IInv
<1> QED
  BY <1>1, Invariance, PTL

(***************************************************************************)
(* Whatever the air loses, damages, duplicates or reorders, the payload    *)
(* DataBlock.getBuffer returns is all of one datagram's, in order, and     *)
(* undamaged but for the octet its CRC32 leaves out behind a second header.*)
(***************************************************************************)
THEOREM DecodedWholeAlways == Spec => []DecodedWhole
<1>1. IInv => DecodedWhole
  BY DEF IInv
<1> QED
  BY <1>1, Invariance, PTL

(***************************************************************************)
(* DMRIPGateway.onDMRPacket throws only after a header without blocks or   *)
(* on a payload; where packets are in order, on one that its own decoder   *)
(* throws on.                                                              *)
(***************************************************************************)
THEOREM CrashesOnlyOfItselfAlways == Spec => []CrashesOnlyOfItself
<1>1. IInv => CrashesOnlyOfItself
  BY DEF IInv
<1> QED
  BY <1>1, Invariance, PTL

(***************************************************************************)
(* Where headers arrive and packets stay in order, a payload is handed on, *)
(* and confirmed, under its own header: it never takes the header of the   *)
(* datagram before, however many blocks are lost.                          *)
(***************************************************************************)
THEOREM OwnHeaderAlways == Spec => []OwnHeader
<1>1. IInv => OwnHeader
  BY DEF IInv
<1> QED
  BY <1>1, Invariance, PTL

-----------------------------------------------------------------------------
(* The last part of a row finishes its datagram. *)
LEMMA LastPartFinishes ==
  ASSUME IInv, NEW m \in Message, air # <<>>, m = air[1], Orderly, DeliverNext,
         m.part > 0, whole'[m.src] = m.d.shape.blocks
  PROVE  /\ out' # Nothing /\ out'[1].parts[1].d = m.d
         /\ {out'[1].verdict} = Worth(m.d.shape)
         /\ crashed' = (Worth(m.d.shape) = {"throws"})
<1>1. TypeOK /\ Accounted /\ Tidy(m.src) /\ m.src \in Sources
  BY MessageFields DEF IInv, TidyInOrder
<1>2. m.part \in Nat /\ m.d.shape.blocks \in Nat /\ m.part # 0
  BY MessageFields, SMT
<1>3. 1 \in 1..Len(air)
  <2>1. air \in Seq(Message)
    BY <1>1 DEF TypeOK
  <2> QED
    BY <2>1, SMT
<1>4. OnDMRPacket(m) /\ whole'[m.src] = WholeAfter(m)
  BY <1>1 DEF DeliverNext, Deliver, TypeOK
<1>5. Intact(m) /\ whole[m.src] = m.part - 1 /\ m.part = m.d.shape.blocks /\ whole[m.src] >= 0
  BY <1>2, <1>4, SMT DEF WholeAfter
<1>6. Open(m.src)
  <2>1. \A i \in 0+1..1 : i = 1
    BY SMT
  <2>2. NoHeader(air, m.src, 0, 1)
    BY <1>2, <2>1 DEF NoHeader
  <2>3. ~Complete(air, m.src, radio[m.src].d, radio[m.src].part)
    BY <1>3, <2>2 DEF Complete
  <2> QED
    BY <1>1, <1>5, <2>3 DEF Tidy
<1>7. /\ Added(m) \in DataBlock /\ Counts(Added(m), m.src) /\ m.d = Added(m).header
      /\ \A i \in 1..Len(Added(m).parts) :
           /\ Added(m).parts[i].d = m.d
           /\ Added(m).parts[i].part = i /\ Intact(Added(m).parts[i])
      /\ Added(m).parts # <<>> /\ Len(Added(m).parts) = m.d.shape.blocks
  BY <1>1, <1>2, <1>3, <1>5, <1>6, NextPart
<1>8. Added(m).remain = 0
  <2>1. Added(m).remain \in Nat /\ Added(m).remain + m.d.shape.blocks = m.d.shape.blocks
    BY <1>7 DEF Counts, DataBlock
  <2> QED
    BY <1>2, <2>1, SMT
<1>9. Finishes(m)
  <2>1. ~(0 > 0)
    BY SMT
  <2> QED
    BY <1>1, <1>2, <1>4, <1>6, <1>7, <1>8, <2>1, PacketCases
    DEF Starts, Ignores, Collects, Crashes, Open
<1>10. 1 \in 1..Len(Added(m).parts)
  BY <1>2, <1>5, <1>7, SMT
<1>11. Added(m).parts[1].d = m.d
  BY <1>7, <1>10
<1>12. CRCMatches(Added(m).parts)
  <2>1. /\ Len(Added(m).parts) = Added(m).parts[1].d.shape.blocks
        /\ \A i \in 1..Len(Added(m).parts) : /\ Added(m).parts[i].part = i
                                             /\ Added(m).parts[i].d = Added(m).parts[1].d
                                             /\ Intact(Added(m).parts[i])
    BY <1>7, <1>11
  <2> QED
    BY <2>1 DEF CRCMatches
<1>13. out' # Nothing
  BY <1>9, <1>12, DecodesSomething DEF Finishes
<1>14. /\ out'[1].parts = Added(m).parts
       /\ out'[1].verdict \in Worth(m.d.shape) /\ crashed' = (out'[1].verdict = "throws")
  BY <1>7, <1>9, <1>11, <1>13, DecodedIs DEF Worth
<1>15. Worth(m.d.shape) = {out'[1].verdict}
  BY <1>14, WorthIsOne
<1>16. crashed' = (Worth(m.d.shape) = {"throws"})
  BY <1>14, <1>15, SMT
<1> QED
  BY <1>11, <1>13, <1>14, <1>15, <1>16

(***************************************************************************)
(* Whatever came before, lost blocks, abandoned datagrams or damage, in an *)
(* orderly channel DMRIPGateway decodes a datagram heard in a row with its *)
(* last block, and it comes to what it is worth by itself.                 *)
(***************************************************************************)
THEOREM Resynchronisation == Spec => Resynchronises
<1> DEFINE Resync(s) ==
      LET m == air[1]
      IN  /\ Orderly /\ air # <<>> /\ DeliverNext
          /\ m.src = s /\ m.part > 0 /\ whole'[s] = m.d.shape.blocks
          => /\ out' # Nothing
             /\ out'[1].parts[1].d = m.d
             /\ {out'[1].verdict} = Worth(m.d.shape)
             /\ crashed' = (Worth(m.d.shape) = {"throws"})
<1>1. ASSUME IInv, NEW s \in Sources PROVE Resync(s)
  <2>1. SUFFICES ASSUME Orderly, air # <<>>, DeliverNext, air[1].src = s, air[1].part > 0,
                        whole'[s] = air[1].d.shape.blocks
                 PROVE  /\ out' # Nothing /\ out'[1].parts[1].d = air[1].d
                        /\ {out'[1].verdict} = Worth(air[1].d.shape)
                        /\ crashed' = (Worth(air[1].d.shape) = {"throws"})
    BY Zenon
  <2>2. air \in Seq(Message)
    BY <1>1 DEF IInv, TypeOK
  <2>3. 1 \in 1..Len(air)
    BY <2>1, <2>2, SMT
  <2>4. air[1] \in Message
    BY <2>2, <2>3, ElementIsMessage
  <2> QED
    BY <1>1, <2>1, <2>4, LastPartFinishes
<1>2. IInv => [\A s \in Sources : Resync(s)]_vars
  BY <1>1
<1>3. Spec => [][\A s \in Sources : Resync(s)]_vars
  BY <1>2, Invariance, PTL
<1> QED
  BY <1>3 DEF Resynchronises
=============================================================================
