------------------------- MODULE HBDMRGatewayProofs -------------------------
(***************************************************************************)
(* What holds of HBDMRGateway for any repeaters, any number of sequence    *)
(* numbers and any bounds.                                                 *)
(*                                                                         *)
(* The frames are safe because a registration never ends: the drain loop   *)
(* starts with a repeater and never loses it (DrainHasPeer), although it   *)
(* does not look.  The numbers run on because the last frame of the line   *)
(* always carries packetSeq and ends a datagram (EndOfLine).               *)
(***************************************************************************)
EXTENDS HBDMRGateway, SequenceTheorems, TLAPS

Modulus == SeqMax + 1

Registered == state = "STATE_OK" => peerInfo \in Peers
DrainHasPeer == pc = "drain" => state = "STATE_OK"
OneOnAir == Len(onAir) <= 1

(* The chain of FramesContiguous, of any line. *)
Chain(line) ==
  \A k \in 1..Len(line) - 1 :
    /\ line[k + 1].first = line[k].last
    /\ line[k + 1].seq = (line[k].seq + 1) % Modulus
    /\ ~line[k].last => line[k + 1].stream = line[k].stream

EndsAt(line, seq) ==
  Len(line) > 0 => line[Len(line)].last = TRUE /\ line[Len(line)].seq = seq

EndOfLine == EndsAt(Line, packetSeq)

IInv ==
  /\ TypeOK
  /\ Registered
  /\ DrainHasPeer
  /\ OneOnAir
  /\ AnnouncedIsPeer
  /\ FramesContiguous
  /\ EndOfLine

USE SeqMaxAssumption, ClockAssumption, BoundsAssumption

-----------------------------------------------------------------------------
(* Counting modulo m: the number after that of an earlier call. *)
LEMMA NextNumber ==
  ASSUME NEW m \in Nat \ {0}, NEW a \in Nat
  PROVE  ((a % m) + 1) % m = (a + 1) % m
<1> DEFINE r == a % m
           s == (a + 1) % m
           d == ((a + 1) \div m) - (a \div m)
<1>1. r \in 0..m-1 /\ s \in 0..m-1 /\ d \in Int /\ m * d = r + 1 - s
  BY SMT
<1>2. d <= -1 => m * d <= -m
  BY <1>1, SMT
<1>3. d >= 2 => m * d >= m + m
  BY <1>1, SMT
<1>4. d \in {0, 1}
  BY <1>1, <1>2, <1>3, SMT
<1>5. s = (IF r + 1 < m THEN r + 1 ELSE 0)
  BY <1>1, <1>4, SMT
<1>6. (r + 1) % m = (IF r + 1 < m THEN r + 1 ELSE 0)
  BY <1>1, SMT
<1>7. QED
  BY <1>5, <1>6

(* A chain without its head is a chain. *)
LEMMA ChainTail ==
  ASSUME NEW f \in Frame, NEW line \in Seq(Frame), NEW seq \in Int
  PROVE  /\ Chain(<<f>> \o line) => Chain(line)
         /\ EndsAt(<<f>> \o line, seq) => EndsAt(line, seq)
<1> DEFINE whole == <<f>> \o line
<1>1. /\ Len(whole) = Len(line) + 1
      /\ \A k \in 1..Len(line) : whole[k + 1] = line[k]
      /\ Len(line) \in Nat
  BY SMT
<1> HIDE DEF whole
<1>2. Chain(whole) => Chain(line)
  BY <1>1, SMT DEF Chain
<1>4. EndsAt(whole, seq) => EndsAt(line, seq)
  BY <1>1, SMT DEF EndsAt
<1> QED
  BY <1>2, <1>4 DEF whole

(* The frames sendDMRData makes of a datagram. *)
NewFrames(frames) ==
  [k \in 1..frames |->
     [seq |-> SeqAfter(k), stream |-> streamId, first |-> k = 1, last |-> k = frames]]

LEMMA NewFramesType ==
  ASSUME TypeOK, NEW frames \in 1..MaxFrames
  PROVE  /\ NewFrames(frames) \in Seq(Frame)
         /\ Len(NewFrames(frames)) = frames
         /\ SeqAfter(frames) \in 0..SeqMax
<1>1. \A k \in 1..frames : SeqAfter(k) \in 0..SeqMax
  BY SMT DEF TypeOK, SeqAfter
<1>2. \A k \in 1..frames : NewFrames(frames)[k] \in Frame
  BY <1>1 DEF NewFrames, Frame, TypeOK
<1>3. frames \in Nat /\ frames \in 1..frames
  BY SMT
<1>4. NewFrames(frames) \in [1..frames -> Frame]
  BY <1>2 DEF NewFrames
<1> QED
  BY <1>1, <1>3, <1>4, SMT

(* A datagram behind a chain that ends at packetSeq makes a longer one. *)
LEMMA ChainGrows ==
  ASSUME TypeOK, NEW line \in Seq(Frame), NEW frames \in 1..MaxFrames,
         Chain(line), EndsAt(line, packetSeq)
  PROVE  LET longer == line \o NewFrames(frames)
         IN  /\ Chain(longer)
             /\ EndsAt(longer, SeqAfter(frames))
<1> DEFINE n == Len(line)
           new == NewFrames(frames)
           longer == line \o new
<1>0. new \in Seq(Frame) /\ Len(new) = frames
  BY NewFramesType
<1> HIDE DEF new
<1>1. /\ n \in Nat
      /\ frames \in Nat \ {0}
      /\ Len(longer) = n + frames
      /\ \A k \in 1..n : longer[k] = line[k]
      /\ \A k \in n+1..n+frames : longer[k] = new[k - n]
  BY <1>0, SMT
<1>2. \A k \in n+1..n+frames :
        /\ longer[k].seq = SeqAfter(k - n)
        /\ longer[k].stream = streamId
        /\ longer[k].first = (k = n + 1)
        /\ longer[k].last = (k = n + frames)
  <2> SUFFICES ASSUME NEW k \in n+1..n+frames
               PROVE  /\ longer[k].seq = SeqAfter(k - n)
                      /\ longer[k].stream = streamId
                      /\ longer[k].first = (k = n + 1)
                      /\ longer[k].last = (k = n + frames)
    OBVIOUS
  <2> HIDE DEF longer, n
  <2>1. k - n \in 1..frames /\ (k - n = 1 <=> k = n + 1) /\ (k - n = frames <=> k = n + frames)
    BY <1>1, SMT
  <2>2. longer[k] = [seq |-> SeqAfter(k - n), stream |-> streamId, first |-> k - n = 1, last |-> k - n = frames]
    BY <1>1, <2>1 DEF new, NewFrames
  <2> QED
    BY <2>1, <2>2
<1> HIDE DEF longer, n
<1>3. packetSeq \in 0..SeqMax /\ Modulus \in Nat \ {0}
  BY SMT DEF TypeOK, Modulus
<1>4. \A j \in Nat : SeqAfter(j + 1) = (SeqAfter(j) + 1) % Modulus
  <2> SUFFICES ASSUME NEW j \in Nat PROVE SeqAfter(j + 1) = (SeqAfter(j) + 1) % Modulus
    OBVIOUS
  <2>1. packetSeq + j \in Nat /\ packetSeq + (j + 1) = (packetSeq + j) + 1
    BY <1>3, SMT
  <2> QED
    BY <1>3, <2>1, NextNumber DEF SeqAfter, Modulus
<1>5. SeqAfter(1) = (packetSeq + 1) % Modulus
  BY DEF SeqAfter, Modulus
<1>6. Chain(longer)
  <2> SUFFICES ASSUME NEW k \in 1..Len(longer) - 1
               PROVE  /\ longer[k + 1].first = longer[k].last
                      /\ longer[k + 1].seq = (longer[k].seq + 1) % Modulus
                      /\ ~longer[k].last => longer[k + 1].stream = longer[k].stream
    BY DEF Chain
  <2>1. CASE k < n
    <3>1. k \in 1..n-1 /\ k \in 1..n /\ k + 1 \in 1..n
      BY <1>1, <2>1, SMT
    <3> QED
      BY <1>1, <3>1 DEF Chain, n
  <2>2. CASE k = n
    <3>1. PICK i \in n+1..n+frames : i = k + 1
      BY <1>1, <2>2, SMT
    <3>2. k \in 1..n /\ i - n = 1 /\ i = n + 1 /\ n > 0
      BY <1>1, <2>2, <3>1, SMT
    <3>3. longer[k].last = TRUE /\ longer[k].seq = packetSeq
      BY <1>1, <2>2, <3>2 DEF EndsAt, n
    <3>4. longer[i].first = (i = n + 1) /\ longer[i].seq = SeqAfter(i - n)
      BY <1>2
    <3>5. longer[i].first = TRUE /\ longer[i].seq = SeqAfter(1)
      BY <3>2, <3>4
    <3> QED
      BY <1>5, <3>1, <3>3, <3>5
  <2>3. CASE k > n
    <3>1. PICK i \in n+1..n+frames : i = k + 1
      BY <1>1, <2>3, SMT
    <3>2. /\ k \in n+1..n+frames /\ k - n \in Nat /\ i - n = (k - n) + 1
          /\ k # n + frames /\ i # n + 1
      BY <1>1, <2>3, <3>1, SMT
    <3>3. longer[i].seq = (longer[k].seq + 1) % Modulus
      <4>1. longer[i].seq = SeqAfter(i - n) /\ longer[k].seq = SeqAfter(k - n)
        BY <1>2, <3>2
      <4>2. SeqAfter((k - n) + 1) = (SeqAfter(k - n) + 1) % Modulus
        BY <1>4, <3>2
      <4> QED
        BY <3>2, <4>1, <4>2
    <3>4. longer[i].first = FALSE /\ longer[k].last = FALSE
      <4>1. longer[i].first = (i = n + 1) /\ longer[k].last = (k = n + frames)
        BY <1>2, <3>2
      <4> QED
        BY <3>2, <4>1
    <3>5. longer[i].stream = longer[k].stream
      BY <1>2, <3>2
    <3> QED
      BY <3>1, <3>3, <3>4, <3>5
  <2> QED
    BY <1>1, <2>1, <2>2, <2>3, SMT
<1>7. EndsAt(longer, SeqAfter(frames))
  <2>1. PICK i \in n+1..n+frames : i = n + frames
    BY <1>1, SMT
  <2>2. i - n = frames
    BY <1>1, <2>1, SMT
  <2>3. longer[i].seq = SeqAfter(i - n) /\ longer[i].last = (i = n + frames)
    BY <1>2
  <2>4. longer[i].seq = SeqAfter(frames) /\ longer[i].last = TRUE
    BY <2>1, <2>2, <2>3
  <2> QED
    BY <1>1, <2>1, <2>4 DEF EndsAt
<1> QED
  BY <1>6, <1>7 DEF longer, new

-----------------------------------------------------------------------------
(* The line is the buffer, behind the frame on the air if there is one. *)
LEMMA LineIs ==
  ASSUME TypeOK, OneOnAir
  PROVE  /\ Line \in Seq(Frame)
         /\ \/ Line = sendDataBuffer
            \/ \E f \in Frame : Line = <<f>> \o sendDataBuffer
<1>1. onAir \in Seq([frame : Frame, to : Peers]) /\ sendDataBuffer \in Seq(Frame)
  BY DEF TypeOK
<1>2. CASE onAir = <<>>
  <2>1. Line = <<>> \o sendDataBuffer
    BY <1>2 DEF Line
  <2>2. <<>> \o sendDataBuffer = sendDataBuffer
    BY <1>1, SMT
  <2> QED
    BY <1>1, <2>1, <2>2
<1>3. CASE onAir # <<>>
  <2>1. 1 \in 1..Len(onAir)
    BY <1>1, <1>3, SMT
  <2>2. onAir[1] \in [frame : Frame, to : Peers]
    BY <1>1, <2>1, ElementOfSeq
  <2>3. onAir[1].frame \in Frame
    BY <2>2
  <2>4. Line = <<onAir[1].frame>> \o sendDataBuffer
    BY <1>3 DEF Line
  <2>5. <<onAir[1].frame>> \o sendDataBuffer \in Seq(Frame)
    BY <1>1, <2>3, SMT
  <2> QED
    BY <2>3, <2>4, <2>5
<1> QED
  BY <1>2, <1>3

(* What the line invariants say of the line, and that it is all they read. *)
LineInv == FramesContiguous /\ EndOfLine

LEMMA LineInvIs == LineInv <=> Chain(Line) /\ EndsAt(Line, packetSeq)
BY DEF FramesContiguous, Chain, Modulus, LineInv, EndOfLine

LEMMA LineInvIsNext == LineInv' <=> Chain(Line') /\ EndsAt(Line', packetSeq')
BY DEF FramesContiguous, Chain, Modulus, LineInv, EndOfLine

-----------------------------------------------------------------------------
LEMMA InitIInv == Init => IInv
<1> SUFFICES ASSUME Init PROVE IInv
  OBVIOUS
<1>1. /\ sendDataBuffer \in Seq(Frame)
      /\ onAir \in Seq([frame : Frame, to : Peers])
      /\ Len(onAir) <= 1
  BY SMT DEF Init
<1>2. now \in 0..MaxSecond /\ packetSeq \in 0..SeqMax /\ streamId \in 0..MaxSecond
  BY SMT DEF Init
<1>3. TypeOK
  BY <1>1, <1>2 DEF Init, TypeOK
<1>4. Registered /\ DrainHasPeer /\ AnnouncedIsPeer
  BY DEF Init, Registered, DrainHasPeer, AnnouncedIsPeer
<1>5. Line = <<>> \o <<>>
  BY DEF Init, Line
<1>6. Len(Line) = 0
  BY <1>5, SMT
<1>7. Chain(Line) /\ EndsAt(Line, packetSeq)
  BY <1>6, SMT DEF Chain, EndsAt
<1>8. LineInv
  BY <1>7, LineInvIs
<1> QED
  BY <1>1, <1>3, <1>4, <1>8 DEF IInv, OneOnAir, LineInv

(* A repeater registers: it becomes the peer, and the application knows it. *)
LEMMA RegistrationKeeps ==
  ASSUME IInv, NEW info \in Peers, Registration(info)
  PROVE  IInv'
<1> USE DEF Registration, queueVars
<1>1. TypeOK'
  BY DEF IInv, TypeOK
<1>2. Registered' /\ DrainHasPeer' /\ OneOnAir'
  BY DEF IInv, Registered, DrainHasPeer, OneOnAir
<1>3. AnnouncedIsPeer'
  <2>1. CASE IsNewPeer(info)
    BY <2>1 DEF AnnouncedIsPeer
  <2>2. CASE ~IsNewPeer(info)
    <3>1. peerInfo \in Peers /\ peerInfo.address = info.address /\ peerInfo.port = info.port
      BY <2>2 DEF IInv, IsNewPeer, Registered
    <3>2. peerInfo = info
      BY <3>1 DEF Peers
    <3> QED
      BY <2>2, <3>2 DEF IInv, AnnouncedIsPeer
  <2> QED
    BY <2>1, <2>2
<1>4. LineInv'
  <2>1. Line' = Line
    BY DEF Line
  <2> QED
    BY <2>1, LineInvIs, LineInvIsNext DEF IInv, LineInv
<1> QED
  BY <1>1, <1>2, <1>3, <1>4 DEF IInv, LineInv

(* The repeater's traffic and the clock leave the line alone. *)
LEMMA SurroundingsKeep ==
  ASSUME IInv, VoiceDataHeard \/ ChannelQuiet \/ ClockTicks \/ ClockSetBack \/ EndDrain \/ UNCHANGED vars
  PROVE  IInv'
<1>1. now' \in 0..MaxSecond
  BY SMT DEF IInv, TypeOK, VoiceDataHeard, ChannelQuiet, ClockTicks, ClockSetBack, EndDrain, vars
<1>2. /\ UNCHANGED <<state, peerInfo, announced, sendDataBuffer, packetSeq, streamId, onAir>>
      /\ recent' \in BOOLEAN
      /\ pc' \in {"poll", "drain"}
      /\ pc' = "drain" => pc = "drain"
  BY DEF IInv, TypeOK, VoiceDataHeard, ChannelQuiet, ClockTicks, ClockSetBack, EndDrain,
         vars, peerVars, queueVars
<1>3. TypeOK'
  BY <1>1, <1>2 DEF IInv, TypeOK
<1>4. Registered' /\ DrainHasPeer' /\ OneOnAir' /\ AnnouncedIsPeer'
  BY <1>2 DEF IInv, Registered, DrainHasPeer, OneOnAir, AnnouncedIsPeer
<1>5. LineInv'
  <2>1. Line' = Line /\ UNCHANGED packetSeq
    BY <1>2 DEF Line
  <2> QED
    BY <2>1, LineInvIs, LineInvIsNext DEF IInv, LineInv
<1> QED
  BY <1>3, <1>4, <1>5 DEF IInv, LineInv

(* A datagram joins the end of the line, also while the drain loop sleeps. *)
LEMMA SendDatagramKeeps ==
  ASSUME IInv, NEW frames \in 1..MaxFrames, SendDatagram(frames)
  PROVE  IInv'
<1>1. TypeOK /\ OneOnAir /\ Line \in Seq(Frame)
  BY LineIs DEF IInv
<1>2. /\ NewFrames(frames) \in Seq(Frame)
      /\ SeqAfter(frames) \in 0..SeqMax
  BY <1>1, NewFramesType
<1>3. /\ sendDataBuffer' = sendDataBuffer \o NewFrames(frames)
      /\ packetSeq' = SeqAfter(frames)
      /\ streamId' = now
      /\ UNCHANGED <<state, peerInfo, announced, recent, now, pc, onAir>>
  BY DEF SendDatagram, NewFrames, NextStreamId, peerVars
<1>4. sendDataBuffer \in Seq(Frame)
  BY <1>1, SMT DEF TypeOK
<1>5. sendDataBuffer' \in Seq(Frame)
  BY <1>2, <1>3, <1>4, SMT
<1>6. TypeOK'
  BY <1>1, <1>2, <1>3, <1>5 DEF TypeOK
<1>7. Registered' /\ DrainHasPeer' /\ OneOnAir' /\ AnnouncedIsPeer'
  BY <1>3 DEF IInv, Registered, DrainHasPeer, OneOnAir, AnnouncedIsPeer
<1>8. Line' = Line \o NewFrames(frames)
  <2> DEFINE air == IF onAir = <<>> THEN <<>> ELSE <<onAir[1].frame>>
  <2>1. air \in Seq(Frame)
    <3>1. onAir \in Seq([frame : Frame, to : Peers])
      BY <1>1 DEF TypeOK
    <3>2. onAir # <<>> => onAir[1].frame \in Frame
      <4> SUFFICES ASSUME onAir # <<>> PROVE onAir[1].frame \in Frame
        OBVIOUS
      <4>1. 1 \in 1..Len(onAir)
        BY <3>1, SMT
      <4>2. onAir[1] \in [frame : Frame, to : Peers]
        BY <3>1, <4>1, ElementOfSeq
      <4> QED
        BY <4>2
    <3>3. onAir # <<>> => <<onAir[1].frame>> \in Seq(Frame)
      BY <3>2, SMT
    <3> QED
      BY <3>3
  <2>2. Line = air \o sendDataBuffer /\ Line' = air \o sendDataBuffer'
    BY <1>3 DEF Line
  <2> HIDE DEF air
  <2>3. \A more \in Seq(Frame) :
          (air \o sendDataBuffer) \o more = air \o (sendDataBuffer \o more)
    BY <1>4, <2>1, ConcatAssociative
  <2>4. (air \o sendDataBuffer) \o NewFrames(frames)
          = air \o (sendDataBuffer \o NewFrames(frames))
    BY <1>2, <2>3, Zenon
  <2> QED
    BY <1>3, <2>2, <2>4, Zenon
<1>9. Chain(Line) /\ EndsAt(Line, packetSeq)
  BY LineInvIs DEF IInv, LineInv
<1>10. Chain(Line') /\ EndsAt(Line', packetSeq')
  BY <1>1, <1>3, <1>8, <1>9, ChainGrows
<1>11. LineInv'
  BY <1>10, LineInvIsNext
<1> QED
  BY <1>6, <1>7, <1>11 DEF IInv, LineInv

(* The sender sends to the repeater, or would drop frames silently. *)
LEMMA SendHeadSends ==
  ASSUME IInv, StartDrain \/ DrainOne
  PROVE  /\ state = "STATE_OK"
         /\ sendDataBuffer # <<>>
         /\ onAir' = <<[frame |-> Head(sendDataBuffer), to |-> peerInfo]>>
         /\ sendDataBuffer' = Tail(sendDataBuffer)
         /\ UNCHANGED <<state, peerInfo, announced, recent, now, packetSeq, streamId>>
         /\ pc' = "drain"
<1>1. state = "STATE_OK" /\ pc' = "drain" /\ SendHead
  BY DEF IInv, DrainHasPeer, StartDrain, DrainOne, GateOpen
<1> QED
  BY <1>1 DEF SendHead, peerVars

LEMMA SendHeadKeeps ==
  ASSUME IInv, StartDrain \/ DrainOne
  PROVE  IInv'
<1>1. /\ state = "STATE_OK" /\ sendDataBuffer # <<>>
      /\ onAir' = <<[frame |-> Head(sendDataBuffer), to |-> peerInfo]>>
      /\ sendDataBuffer' = Tail(sendDataBuffer)
      /\ UNCHANGED <<state, peerInfo, announced, recent, now, packetSeq, streamId>>
      /\ pc' = "drain"
  BY SendHeadSends
<1>2. TypeOK /\ OneOnAir /\ sendDataBuffer \in Seq(Frame)
  BY DEF IInv, TypeOK
<1>3. /\ Head(sendDataBuffer) \in Frame
      /\ Tail(sendDataBuffer) \in Seq(Frame)
      /\ <<Head(sendDataBuffer)>> \o Tail(sendDataBuffer) = sendDataBuffer
  BY <1>1, <1>2, SMT
<1>4. peerInfo \in Peers
  BY <1>1 DEF IInv, Registered
<1>5. [frame |-> Head(sendDataBuffer), to |-> peerInfo] \in [frame : Frame, to : Peers]
  BY <1>3, <1>4
<1>6. onAir' \in Seq([frame : Frame, to : Peers]) /\ Len(onAir') = 1
  BY <1>1, <1>5, SMT
<1>7. TypeOK'
  BY <1>1, <1>2, <1>3, <1>6 DEF TypeOK
<1>8. Registered' /\ DrainHasPeer' /\ AnnouncedIsPeer'
  BY <1>1 DEF IInv, Registered, DrainHasPeer, AnnouncedIsPeer
<1>9. OneOnAir'
  BY <1>6, SMT DEF OneOnAir
<1>10. Line' = sendDataBuffer
  <2>1. onAir' # <<>> /\ onAir'[1].frame = Head(sendDataBuffer)
    BY <1>1, SMT
  <2> QED
    BY <1>1, <1>3, <2>1 DEF Line
<1>11. Chain(Line) /\ EndsAt(Line, packetSeq)
  BY LineInvIs DEF IInv, LineInv
<1>12. Chain(sendDataBuffer) /\ EndsAt(sendDataBuffer, packetSeq)
  <2>1. packetSeq \in Int
    BY <1>2, SMT DEF TypeOK
  <2>2. CASE Line = sendDataBuffer
    BY <1>11, <2>2
  <2>3. CASE \E f \in Frame : Line = <<f>> \o sendDataBuffer
    <3>1. PICK f \in Frame : Line = <<f>> \o sendDataBuffer
      BY <2>3
    <3>2. Chain(<<f>> \o sendDataBuffer) /\ EndsAt(<<f>> \o sendDataBuffer, packetSeq)
      BY <1>11, <3>1
    <3> QED
      BY <1>2, <2>1, <3>2, ChainTail
  <2> QED
    BY <1>2, <2>2, <2>3, LineIs
<1>13. LineInv'
  BY <1>1, <1>10, <1>11, <1>12, LineInvIsNext
<1> QED
  BY <1>7, <1>8, <1>9, <1>13 DEF IInv, LineInv

LEMMA NextKeepsIInv == IInv /\ [Next]_vars => IInv'
<1> SUFFICES ASSUME IInv, [Next]_vars PROVE IInv'
  OBVIOUS
<1>1. CASE StartDrain \/ DrainOne
  BY <1>1, SendHeadKeeps
<1>2. CASE EndDrain
  BY <1>2, SurroundingsKeep
<1>3. CASE \E info \in Peers : Registration(info)
  BY <1>3, RegistrationKeeps
<1>4. CASE \E frames \in 1..MaxFrames : SendDatagram(frames)
  BY <1>4, SendDatagramKeeps
<1>5. CASE VoiceDataHeard \/ ChannelQuiet \/ ClockTicks \/ ClockSetBack \/ UNCHANGED vars
  BY <1>5, SurroundingsKeep
<1> QED
  BY <1>1, <1>2, <1>3, <1>4, <1>5 DEF Next, Sender

-----------------------------------------------------------------------------
(* The inductive invariant of the gateway, of which the rest are parts. *)
THEOREM Invariance == Spec => []IInv
<1> QED
  BY InitIInv, NextKeepsIInv, PTL DEF Spec

(* The frames of the queue have sequence numbers of the protocol's range. *)
THEOREM TypeCorrect == Spec => []TypeOK
<1>1. IInv => TypeOK
  BY DEF IInv
<1> QED
  BY <1>1, Invariance, PTL

(* Datagrams leave whole and in order, numbered without a gap. *)
THEOREM Contiguity == Spec => []FramesContiguous
<1>1. IInv => FramesContiguous
  BY DEF IInv
<1> QED
  BY <1>1, Invariance, PTL

(* The peer frames are sent to is the one last announced. *)
THEOREM Announcement == Spec => []AnnouncedIsPeer
<1>1. IInv => AnnouncedIsPeer
  BY DEF IInv
<1> QED
  BY <1>1, Invariance, PTL

-----------------------------------------------------------------------------
(***************************************************************************)
(* The refinement.  What is heard next is the head of the queue, so it has *)
(* to be known how the head follows what was heard: FramesContiguous       *)
(* tells, or, when nothing has been heard yet, StartOfLine.                *)
(***************************************************************************)
StartOfLine ==
  onAir = <<>> =>
    IF sendDataBuffer = <<>> THEN packetSeq = 0
    ELSE sendDataBuffer[1].first = TRUE /\ sendDataBuffer[1].seq = 1 % Modulus

(* The two maps of the refinement, of any queue and of what was sent. *)
Ends(buffer) == {k \in 1..Len(buffer) : buffer[k].last}

Heard(sent) == [k \in 1..Len(sent) |->
                  [number |-> sent[k].frame.seq, stream |-> sent[k].frame.stream,
                   first |-> sent[k].frame.first, last |-> sent[k].frame.last]]

HeardAs(f) == [number |-> f.seq, stream |-> f.stream, first |-> f.first, last |-> f.last]

LEMMA HeardIs ==
  /\ Heard(<<>>) = <<>>
  /\ \A q : Heard(<<q>>) = <<HeardAs(q.frame)>>
<1>1. Heard(<<>>) = <<>>
  BY SMT DEF Heard
<1>2. ASSUME NEW q PROVE Heard(<<q>>) = <<HeardAs(q.frame)>>
  <2>1. Len(<<q>>) = 1 /\ <<q>>[1] = q /\ 1..1 = {1}
    BY SMT
  <2> DEFINE h == HeardAs(q.frame)
  <2>2. Heard(<<q>>) = [k \in 1..1 |-> h]
    BY <2>1 DEF Heard, HeardAs
  <2> HIDE DEF h
  <2>3. [k \in 1..1 |-> h] = <<h>>
    BY SMT
  <2> QED
    BY <2>2, <2>3 DEF h
<1> QED
  BY <1>1, <1>2

(* What a datagram adds to the queue ends with it. *)
LEMMA EndsGrow ==
  ASSUME NEW buffer \in Seq(Frame), NEW frames \in 1..MaxFrames, TypeOK
  PROVE  /\ Len(buffer \o NewFrames(frames)) > Len(buffer)
         /\ Ends(buffer \o NewFrames(frames))
              = Ends(buffer) \cup {Len(buffer \o NewFrames(frames))}
<1> DEFINE n == Len(buffer)
           new == NewFrames(frames)
           longer == buffer \o new
<1>1. new \in Seq(Frame) /\ Len(new) = frames
  BY NewFramesType
<1>2. \A k \in 1..frames : new[k].last <=> k = frames
  BY DEF NewFrames
<1> HIDE DEF new
<1>3. /\ n \in Nat /\ frames \in Nat \ {0}
      /\ Len(longer) = n + frames
      /\ \A k \in 1..n : longer[k] = buffer[k]
      /\ \A k \in n+1..n+frames : longer[k] = new[k - n]
  BY <1>1, SMT
<1>4. /\ Ends(buffer) = {k \in 1..n : buffer[k].last}
      /\ Ends(longer) = {k \in 1..Len(longer) : longer[k].last}
  BY DEF Ends
<1> HIDE DEF longer, n
<1>5. \A k \in n+1..n+frames : longer[k].last <=> k = n + frames
  <2> SUFFICES ASSUME NEW k \in n+1..n+frames PROVE longer[k].last <=> k = n + frames
    OBVIOUS
  <2>1. PICK h \in 1..frames : h = k - n
    BY <1>3, SMT
  <2>2. longer[k] = new[h] /\ (new[h].last <=> h = frames)
    BY <1>2, <1>3, <2>1
  <2>3. h = frames <=> k = n + frames
    BY <1>3, <2>1, SMT
  <2> QED
    BY <2>2, <2>3
<1>6. /\ \A k : k \in 1..n+frames <=> k \in 1..n \/ k \in n+1..n+frames
      /\ n + frames \in n+1..n+frames
      /\ n + frames > n
  BY <1>3, SMT
<1>7. Ends(longer) = Ends(buffer) \cup {n + frames}
  BY <1>3, <1>4, <1>5, <1>6
<1> QED
  BY <1>3, <1>6, <1>7 DEF longer, n, new

(* The head leaves, and the ends of datagrams move up by one. *)
LEMMA EndsShrink ==
  ASSUME NEW buffer \in Seq(Frame), buffer # <<>>
  PROVE  /\ Len(buffer) > 0
         /\ Len(Tail(buffer)) = Len(buffer) - 1
         /\ Ends(Tail(buffer)) = {e - 1 : e \in Ends(buffer) \ {1}}
         /\ Head(buffer) = buffer[1]
         /\ 1 \in Ends(buffer) <=> buffer[1].last
<1> DEFINE n == Len(buffer)
           rest == Tail(buffer)
<1>1. /\ n \in Nat \ {0}
      /\ Len(rest) = n - 1
      /\ \A k \in 1..n - 1 : rest[k] = buffer[k + 1]
      /\ Head(buffer) = buffer[1]
  BY SMT
<1>2. /\ Ends(rest) = {k \in 1..Len(rest) : rest[k].last}
      /\ Ends(buffer) = {k \in 1..n : buffer[k].last}
  BY DEF Ends
<1> HIDE DEF rest, n
<1>3. \A k : k \in Ends(rest) <=> k \in 1..n-1 /\ buffer[k + 1].last
  BY <1>1, <1>2
<1>4. \A e \in Ends(buffer) \ {1} : e - 1 \in Ends(rest)
  <2> SUFFICES ASSUME NEW e \in Ends(buffer) \ {1} PROVE e - 1 \in Ends(rest)
    OBVIOUS
  <2>1. e \in 1..n /\ e # 1 /\ buffer[e].last
    BY <1>2
  <2>2. e - 1 \in 1..n-1 /\ (e - 1) + 1 = e
    BY <1>1, <2>1, SMT
  <2> QED
    BY <1>3, <2>1, <2>2
<1>5. \A k \in Ends(rest) : k + 1 \in Ends(buffer) \ {1} /\ (k + 1) - 1 = k
  <2> SUFFICES ASSUME NEW k \in Ends(rest)
               PROVE  k + 1 \in Ends(buffer) \ {1} /\ (k + 1) - 1 = k
    OBVIOUS
  <2>1. k \in 1..n-1 /\ buffer[k + 1].last
    BY <1>3
  <2>2. k + 1 \in 1..n /\ k + 1 # 1 /\ (k + 1) - 1 = k
    BY <1>1, <2>1, SMT
  <2> QED
    BY <1>2, <2>1, <2>2
<1>6. Ends(rest) = {e - 1 : e \in Ends(buffer) \ {1}}
  <2>1. \A k \in Ends(rest) : \E e \in Ends(buffer) \ {1} : k = e - 1
    BY <1>5
  <2> QED
    BY <1>4, <2>1
<1>7. n > 0 /\ 1 \in 1..n
  BY <1>1, SMT
<1> QED
  BY <1>1, <1>2, <1>6, <1>7 DEF rest, n

(* A datagram is accepted. *)
LEMMA DatagramAccepted ==
  ASSUME TypeOK, NEW frames \in 1..MaxFrames, SendDatagram(frames)
  PROVE  Promise!ANext
<1>1. /\ sendDataBuffer \in Seq(Frame)
      /\ sendDataBuffer' = sendDataBuffer \o NewFrames(frames)
      /\ UNCHANGED onAir
  BY DEF TypeOK, SendDatagram, NewFrames
<1>2. /\ Len(sendDataBuffer') > Len(sendDataBuffer)
      /\ Ends(sendDataBuffer') = Ends(sendDataBuffer) \cup {Len(sendDataBuffer')}
  BY <1>1, EndsGrow
<1>3. Promise!Accept
  BY <1>1, <1>2 DEF Promise!Accept, Ends
<1> QED
  BY <1>3 DEF Promise!ANext

(* The sender lets the next frame be heard. *)
LEMMA SendHeadHeard ==
  ASSUME IInv, StartOfLine, StartDrain \/ DrainOne
  PROVE  Promise!ANext
<1> DEFINE p == Head(sendDataBuffer)
<1>1. /\ sendDataBuffer # <<>> /\ sendDataBuffer \in Seq(Frame)
      /\ onAir \in Seq([frame : Frame, to : Peers]) /\ Len(onAir) <= 1
      /\ onAir' = <<[frame |-> p, to |-> peerInfo]>>
      /\ sendDataBuffer' = Tail(sendDataBuffer)
  BY SendHeadSends DEF IInv, TypeOK, OneOnAir
<1>2. /\ Len(sendDataBuffer) > 0
      /\ Len(sendDataBuffer') = Len(sendDataBuffer) - 1
      /\ Ends(sendDataBuffer') = {e - 1 : e \in Ends(sendDataBuffer) \ {1}}
      /\ p = sendDataBuffer[1]
      /\ 1 \in Ends(sendDataBuffer) <=> p.last
  BY <1>1, EndsShrink
<1>3. p.stream \in 0..MaxSecond /\ p.first \in BOOLEAN /\ p.last \in BOOLEAN
  <2>1. p \in Frame
    BY <1>1, SMT
  <2> QED
    BY <2>1 DEF Frame
<1> HIDE DEF p
<1>4. Heard(onAir') = <<HeardAs(p)>>
  <2>1. [frame |-> p, to |-> peerInfo].frame = p
    OBVIOUS
  <2> QED
    BY <1>1, <2>1, HeardIs
<1>5. p.last = (1 \in Ends(sendDataBuffer))
  BY <1>2, <1>3
<1>6. CASE onAir = <<>>
  <2>1. Heard(onAir) = <<>>
    BY <1>6, HeardIs
  <2>2. p.first = TRUE /\ p.seq = 1 % Modulus
    BY <1>1, <1>2, <1>6 DEF StartOfLine
  <2>3. Promise!Opens = p.first /\ Promise!Following = p.seq /\ Promise!Continues(p.stream)
    <3>1. Promise!Opens = TRUE
      BY <2>1 DEF Promise!Opens, Heard
    <3>2. Promise!Following = (0 + 1) % Modulus
      BY <2>1 DEF Promise!Following, Heard, Modulus
    <3>3. Promise!Continues(p.stream)
      BY <2>1 DEF Promise!Continues, Heard
    <3>4. 0 + 1 = 1
      BY SMT
    <3> QED
      BY <2>2, <3>1, <3>2, <3>3, <3>4
  <2> QED
    BY <1>1, <1>2, <1>3, <1>4, <1>5, <2>3 DEF Promise!ANext, Promise!Hear, Ends, Heard, HeardAs
<1>7. CASE onAir # <<>>
  <2>1. PICK r : r = onAir[1]
    OBVIOUS
  <2>2. PICK q : q = r.frame
    OBVIOUS
  <2>3. onAir = <<r>> /\ r \in [frame : Frame, to : Peers]
    <3>1. PICK S : S = [frame : Frame, to : Peers]
      OBVIOUS
    <3>2. onAir \in Seq(S) /\ Len(onAir) <= 1
      BY <1>1, <3>1
    <3>3. Len(onAir) = 1 /\ 1 \in 1..Len(onAir)
      <4>1. Len(onAir) \in Nat \ {0}
        BY <1>7, <3>2, EmptySeq
      <4>2. PICK n : n = Len(onAir)
        OBVIOUS
      <4>3. n \in Nat \ {0} /\ n <= 1
        BY <3>2, <4>1, <4>2, Zenon
      <4>4. n = 1
        BY <4>3
      <4> QED
        BY <4>2, <4>4
    <3>4. onAir[1] \in S
      BY <3>2, <3>3, ElementOfSeq
    <3>5. onAir = <<onAir[1]>>
      BY <3>2, <3>3, SMT
    <3> QED
      BY <2>1, <3>1, <3>4, <3>5, Zenon
  <2>4. q \in Frame
    BY <2>2, <2>3
  <2>5. Heard(onAir) = <<HeardAs(q)>> /\ q.last \in BOOLEAN
    <3>1. \A x : Heard(<<x>>) = <<HeardAs(x.frame)>>
      BY HeardIs
    <3>2. Heard(onAir) = <<HeardAs(q)>>
      BY <2>2, <2>3, <3>1, Zenon
    <3> QED
      BY <2>4, <3>2 DEF Frame
  <2>6. /\ p.first = q.last
        /\ ~q.last => p.stream = q.stream
        /\ p.seq = (q.seq + 1) % Modulus
    <3>1. Line = <<q>> \o sendDataBuffer /\ Chain(Line)
      BY <1>7, <2>1, <2>2, LineInvIs DEF Line, IInv, LineInv
    <3>2. /\ 1 \in 1..Len(<<q>> \o sendDataBuffer) - 1
          /\ (<<q>> \o sendDataBuffer)[1] = q
          /\ (<<q>> \o sendDataBuffer)[1 + 1] = sendDataBuffer[1]
      BY <1>1, <1>2, <2>4, SMT
    <3>3. PICK line : line = <<q>> \o sendDataBuffer
      OBVIOUS
    <3>4. Chain(line) /\ 1 \in 1..Len(line) - 1 /\ line[1] = q /\ line[1 + 1] = p
      BY <1>2, <3>1, <3>2, <3>3
    <3>5. /\ line[1 + 1].first = line[1].last
          /\ line[1 + 1].seq = (line[1].seq + 1) % Modulus
          /\ ~line[1].last => line[1 + 1].stream = line[1].stream
      BY <3>4, Zenon DEF Chain
    <3> QED
      BY <3>4, <3>5, Zenon
  <2>7. Heard(onAir) # <<>> /\ Heard(onAir)[1] = HeardAs(q)
    BY <2>5, SMT
  <2>8. Promise!Opens = p.first
    <3>1. Promise!Opens <=> q.last
      BY <2>7 DEF Promise!Opens, Heard, HeardAs
    <3>2. Promise!Opens \in BOOLEAN
      BY DEF Promise!Opens
    <3> QED
      BY <1>3, <2>5, <2>6, <3>1, <3>2
  <2>9. Promise!Following = p.seq
    BY <2>6, <2>7 DEF Promise!Following, Heard, HeardAs, Modulus
  <2>10. Promise!Continues(p.stream)
    BY <2>6, <2>7 DEF Promise!Continues, Heard, HeardAs
  <2> QED
    BY <1>1, <1>2, <1>3, <1>4, <1>5, <2>8, <2>9, <2>10 DEF Promise!ANext, Promise!Hear, Ends, Heard, HeardAs
<1> QED
  BY <1>6, <1>7

LEMMA InitStart == Init => StartOfLine
BY DEF Init, StartOfLine

(* What joins an empty line first is numbered 1, and stays where it is. *)
LEMMA NextKeepsStart == IInv /\ StartOfLine /\ [Next]_vars => StartOfLine'
<1> SUFFICES ASSUME IInv, StartOfLine, [Next]_vars PROVE StartOfLine'
  OBVIOUS
<1>1. CASE StartDrain \/ DrainOne
  <2>1. onAir' = <<[frame |-> Head(sendDataBuffer), to |-> peerInfo]>>
    BY <1>1, SendHeadSends
  <2>2. onAir' # <<>>
    BY <2>1, SMT
  <2> QED
    BY <2>2 DEF StartOfLine
<1>2. CASE \E frames \in 1..MaxFrames : SendDatagram(frames)
  <2>1. PICK frames \in 1..MaxFrames : SendDatagram(frames)
    BY <1>2
  <2> DEFINE new == NewFrames(frames)
  <2>2. /\ sendDataBuffer \in Seq(Frame)
        /\ sendDataBuffer' = sendDataBuffer \o new
        /\ UNCHANGED onAir
    BY <2>1 DEF IInv, TypeOK, SendDatagram, NewFrames
  <2>3. new \in Seq(Frame) /\ Len(new) = frames /\ 1 \in 1..frames
    BY NewFramesType, SMT DEF IInv
  <2>4. new[1].first = TRUE /\ new[1].seq = (packetSeq + 1) % Modulus
    BY <2>3 DEF NewFrames, SeqAfter, Modulus
  <2> HIDE DEF new
  <2>5. sendDataBuffer' # <<>>
    BY <2>2, <2>3, SMT
  <2>6. CASE sendDataBuffer = <<>>
    <3>1. sendDataBuffer'[1] = new[1]
      BY <2>2, <2>3, <2>6, SMT
    <3>2. onAir = <<>> => (packetSeq + 1) % Modulus = 1 % Modulus
      <4>1. onAir = <<>> => packetSeq + 1 = 1
        BY <2>6, SMT DEF StartOfLine
      <4> QED
        BY <4>1
    <3> QED
      BY <2>2, <2>4, <2>5, <3>1, <3>2 DEF StartOfLine, Modulus
  <2>7. CASE sendDataBuffer # <<>>
    <3>1. sendDataBuffer'[1] = sendDataBuffer[1]
      BY <2>2, <2>3, <2>7, SMT
    <3> QED
      BY <2>2, <2>5, <2>7, <3>1 DEF StartOfLine, Modulus
  <2> QED
    BY <2>6, <2>7
<1>3. CASE \/ EndDrain \/ VoiceDataHeard \/ ChannelQuiet \/ ClockTicks \/ ClockSetBack \/ UNCHANGED vars
           \/ \E info \in Peers : Registration(info)
  BY <1>3 DEF StartOfLine, Modulus, EndDrain, VoiceDataHeard, ChannelQuiet, ClockTicks, ClockSetBack,
              Registration, vars, queueVars
<1> QED
  BY <1>1, <1>2, <1>3 DEF Next, Sender

(* Every step of the gateway is one of DatagramLine, or none. *)
LEMMA StepRefines == IInv /\ StartOfLine /\ [Next]_vars => [Promise!ANext]_(Promise!avars)
<1> SUFFICES ASSUME IInv, StartOfLine, [Next]_vars
             PROVE  Promise!ANext \/ UNCHANGED <<sendDataBuffer, onAir>>
  BY DEF Promise!avars
<1>1. CASE StartDrain \/ DrainOne
  BY <1>1, SendHeadHeard
<1>2. CASE \E frames \in 1..MaxFrames : SendDatagram(frames)
  BY <1>2, DatagramAccepted DEF IInv
<1>3. CASE \/ EndDrain \/ VoiceDataHeard \/ ChannelQuiet \/ ClockTicks \/ ClockSetBack \/ UNCHANGED vars
           \/ \E info \in Peers : Registration(info)
  BY <1>3 DEF EndDrain, VoiceDataHeard, ChannelQuiet, ClockTicks, ClockSetBack, Registration, vars, queueVars
<1> QED
  BY <1>1, <1>2, <1>3 DEF Next, Sender

(***************************************************************************)
(* The gateway keeps the promise of DatagramLine, for any repeaters and    *)
(* sequence numbers: datagrams are heard whole, one after the other and    *)
(* numbered without a gap, and no frame is lost on its way to the socket.  *)
(***************************************************************************)
THEOREM ImplementsDatagramLine == Spec => LineSpec
<1>1. Init => Promise!AInit
  <2> SUFFICES ASSUME Init PROVE Promise!AInit
    OBVIOUS
  <2>1. sendDataBuffer = <<>> /\ onAir = <<>>
    BY DEF Init
  <2>2. Len(sendDataBuffer) = 0 /\ 1..0 = {}
    BY <2>1, SMT
  <2>3. Heard(onAir) = <<>> /\ Ends(sendDataBuffer) = {}
    BY <2>1, <2>2, HeardIs DEF Ends
  <2> QED
    BY <2>2, <2>3 DEF Promise!AInit, Heard, Ends
<1> QED
  BY <1>1, InitStart, NextKeepsStart, StepRefines, Invariance, PTL
     DEF Spec, LineSpec, Promise!ASpec
=============================================================================
