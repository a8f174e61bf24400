---------------------------- MODULE HBDMRGateway ----------------------------
(***************************************************************************)
(* Services/HBDMRGateway.js: the gateway to a HomeBrew repeater (MMDVM).   *)
(* The repeater registers itself with GatewayRegReq packets, which are     *)
(* answered with a ping; its voice and data frames mark the channel busy.  *)
(* Datagrams (of DMRIPGateway) are numbered and queued by sendDMRData and  *)
(* drained by dataPacketSender, one frame per 60 ms, once a repeater has   *)
(* registered and the channel has been quiet for 500 ms.                   *)
(*                                                                         *)
(* A registration never ends: lastPing is written and read by nobody.      *)
(***************************************************************************)
EXTENDS Integers, Sequences

CONSTANTS Addresses, Ports, \* where a repeater may send from
          SeqMax,           \* largest packetSeq: 255 in the code
          MaxSecond,        \* BOUND: seconds the clock runs
          MaxFrames,        \* BOUND: frames of a datagram
          MaxBuffer         \* BOUND: frames in sendDataBuffer

ASSUME SeqMaxAssumption == SeqMax \in Nat \ {0}
ASSUME ClockAssumption == MaxSecond \in Nat
ASSUME BoundsAssumption == MaxFrames \in Nat \ {0} /\ MaxBuffer \in Nat

VARIABLES
  state,          \* STATE_NONE or STATE_OK
  peerInfo,       \* where the last registration came from
  announced,      \* history: the peer of the last EVENT_CONNECTED
  recent,         \* lastDataPacket + 500 > getTime()
  now,            \* Math.round(getTime() / 1000)
  sendDataBuffer,
  packetSeq,
  streamId,
  pc,             \* dataPacketSender: "poll" between timers, "drain" in its loop
  onAir           \* history: the last frame sent and its peer, if there is one

peerVars  == <<state, peerInfo, announced>>
queueVars == <<sendDataBuffer, packetSeq, streamId>>
vars == <<peerVars, recent, now, queueVars, pc, onAir>>

Peers == [address : Addresses, port : Ports]
NoPeer == [address |-> "none", port |-> 0]

Frame == [seq : 0..SeqMax, stream : 0..MaxSecond, first : BOOLEAN, last : BOOLEAN]

TypeOK ==
  /\ state \in {"STATE_NONE", "STATE_OK"}
  /\ peerInfo \in Peers \cup {NoPeer}
  /\ announced \in Peers \cup {NoPeer}
  /\ recent \in BOOLEAN
  /\ now \in 0..MaxSecond
  /\ sendDataBuffer \in Seq(Frame)
  /\ packetSeq \in 0..SeqMax
  /\ streamId \in 0..MaxSecond
  /\ pc \in {"poll", "drain"}
  /\ onAir \in Seq([frame : Frame, to : Peers])

Init ==
  /\ state = "STATE_NONE"
  /\ peerInfo = NoPeer
  /\ announced = NoPeer
  /\ recent = TRUE
  /\ now = 0
  /\ sendDataBuffer = <<>>
  /\ packetSeq = 0
  /\ streamId = 0
  /\ pc = "poll"
  /\ onAir = <<>>

-----------------------------------------------------------------------------
\* mutant of IsNewPeer: the port is not looked at
IsNewPeerByAddress(info) == state # "STATE_OK" \/ peerInfo.address # info.address

IsNewPeer(info) ==
  state # "STATE_OK" \/ peerInfo.address # info.address \/ peerInfo.port # info.port

\* onData with a GatewayRegReq from info
Registration(info) ==
  /\ announced' = IF IsNewPeer(info) THEN info ELSE announced
  /\ state' = "STATE_OK"
  /\ peerInfo' = info
  /\ UNCHANGED <<recent, now, queueVars, pc, onAir>>

\* onData with VoiceData: before a registration nothing is done with it
VoiceDataHeard ==
  /\ state = "STATE_OK"
  /\ recent' = TRUE
  /\ UNCHANGED <<peerVars, now, queueVars, pc, onAir>>

\* 500 ms without traffic
ChannelQuiet ==
  /\ recent
  /\ recent' = FALSE
  /\ UNCHANGED <<peerVars, now, queueVars, pc, onAir>>

\* getTime is the wall clock, which may also be set back
ClockTicks ==
  /\ now < MaxSecond
  /\ now' = now + 1
  /\ UNCHANGED <<peerVars, recent, queueVars, pc, onAir>>

ClockSetBack ==
  /\ now' \in 0..now
  /\ recent' \in BOOLEAN /\ (recent => recent')
  /\ UNCHANGED <<peerVars, queueVars, pc, onAir>>

-----------------------------------------------------------------------------
\* mutant of SeqAfter: the reset comes one late
SeqAfterLate(k) == (packetSeq + k) % (SeqMax + 2)

\* packetSeq k calls later: reset once it has reached 255
SeqAfter(k) == (packetSeq + k) % (SeqMax + 1)

\* taken when the last frame of a datagram is queued, for the next one
NextStreamId == now

(* sendDMRData for each frame of a datagram; its caller does not await. *)
SendDatagram(frames) ==
  /\ Len(sendDataBuffer) + frames <= MaxBuffer
  /\ sendDataBuffer' = sendDataBuffer \o
       [k \in 1..frames |->
          [seq |-> SeqAfter(k), stream |-> streamId, first |-> k = 1, last |-> k = frames]]
  /\ packetSeq' = SeqAfter(frames)
  /\ streamId' = NextStreamId
  /\ UNCHANGED <<peerVars, recent, now, pc, onAir>>

-----------------------------------------------------------------------------
\* mutant of GateOpen: drains whether a repeater has registered or not
GateOpenAnyState == ~recent

GateOpen == state = "STATE_OK" /\ ~recent

(* shift, and send, which does nothing without a repeater; then 60 ms. *)
SendHead ==
  /\ sendDataBuffer # <<>>
  /\ onAir' = IF state = "STATE_OK" THEN <<[frame |-> Head(sendDataBuffer), to |-> peerInfo]>>
                                    ELSE onAir
  /\ sendDataBuffer' = Tail(sendDataBuffer)
  /\ UNCHANGED <<peerVars, recent, now, packetSeq, streamId>>

\* a poll that finds the gate shut only arms the 50 ms timer again
StartDrain == pc = "poll" /\ GateOpen /\ SendHead /\ pc' = "drain"

\* the loop looks at the buffer only
DrainOne == pc = "drain" /\ SendHead /\ UNCHANGED pc

\* mutant of EndDrain: the timer is not armed again
EndDrainNoTimer ==
  /\ pc = "drain"
  /\ sendDataBuffer = <<>>
  /\ pc' = "ended"
  /\ UNCHANGED <<peerVars, recent, now, queueVars, onAir>>

EndDrain ==
  /\ pc = "drain"
  /\ sendDataBuffer = <<>>
  /\ pc' = "poll"
  /\ UNCHANGED <<peerVars, recent, now, queueVars, onAir>>

Sender == StartDrain \/ DrainOne \/ EndDrain

Next ==
  \/ Sender
  \/ \E info \in Peers : Registration(info)
  \/ \E frames \in 1..MaxFrames : SendDatagram(frames)
  \/ VoiceDataHeard \/ ChannelQuiet \/ ClockTicks \/ ClockSetBack

Spec == Init /\ [][Next]_vars

\* timers fire; nothing is assumed of the repeater, the channel or the caller
FairSpec == Spec /\ WF_vars(Sender)

-----------------------------------------------------------------------------
Line == (IF onAir = <<>> THEN <<>> ELSE <<onAir[1].frame>>) \o sendDataBuffer

(***************************************************************************)
(* The frames of a datagram leave together and in order under one stream   *)
(* id, and the numbers run on without a gap over datagrams and the reset:  *)
(* sendDMRData may be called while the drain loop sleeps.  Nothing is said *)
(* of the stream ids of two datagrams: the id is the second in which the   *)
(* one before was queued, which they may share, and the clock may go back. *)
(***************************************************************************)
FramesContiguous ==
  \A k \in 1..Len(Line) - 1 :
    LET p == Line[k]
        q == Line[k + 1]
    IN  /\ q.first = p.last
        /\ q.seq = (p.seq + 1) % (SeqMax + 1)
        /\ ~p.last => q.stream = p.stream

(***************************************************************************)
(* An application that goes by EVENT_CONNECTED knows the repeater frames   *)
(* are sent to, also when another one, or another port of the same host,   *)
(* has taken its place.                                                    *)
(***************************************************************************)
AnnouncedIsPeer == announced = peerInfo

(***************************************************************************)
(* Every queued frame is sent, if the channel comes to stay quiet after a  *)
(* registration: whichever frame is at the head does not stay there.       *)
(***************************************************************************)
Heading(s) == sendDataBuffer # <<>> /\ Head(sendDataBuffer).seq = s

EveryFrameLeaves ==
  <>[]GateOpen => \A s \in 0..SeqMax : Heading(s) ~> ~Heading(s)

(***************************************************************************)
(* Refinement: a datagram is accepted whole, and heard as DatagramLine     *)
(* promises.  No frame is lost between the queue and the socket, although  *)
(* send drops frames silently without a repeater and the drain loop does   *)
(* not look.                                                               *)
(***************************************************************************)
Promise == INSTANCE DatagramLine WITH
  Modulus <- SeqMax + 1,
  Streams <- 0..MaxSecond,
  Distinct <- FALSE,
  waiting <- Len(sendDataBuffer),
  ends    <- {k \in 1..Len(sendDataBuffer) : sendDataBuffer[k].last},
  heard   <- [k \in 1..Len(onAir) |->
                [number |-> onAir[k].frame.seq, stream |-> onAir[k].frame.stream,
                 first |-> onAir[k].frame.first, last |-> onAir[k].frame.last]]

LineSpec == Promise!ASpec
=============================================================================
