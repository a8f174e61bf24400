----------------------------- MODULE DMRSender -----------------------------
(***************************************************************************)
(* The way of an outgoing datagram: DMRIPGateway.sendIPPacket cuts it into *)
(* preamble CSBKs, a data header and blocks and hands them one by one to   *)
(* IPSCPeer.sendDMRData, which numbers them and puts them in               *)
(* sendDataBuffer; dataPacketSender drains the buffer, one packet per      *)
(* 60 ms, once the connection is up and the channel is free.               *)
(*                                                                         *)
(* The connection (module IPSCPeer) and the traffic of the channel are     *)
(* environment here: they change between any two turns of the sender.      *)
(***************************************************************************)
EXTENDS Integers, Sequences

CONSTANTS StreamMax,      \* largest streamId: 255 in the code
          DmrSeqMax,      \* largest dmrSeq: 65535 in the code
          MaxBlocks,      \* BOUND: blocks of a datagram
          MaxPreambles,   \* BOUND: csbkCount
          MaxBuffer       \* BOUND: packets in sendDataBuffer

ASSUME StreamMaxAssumption == StreamMax \in Nat \ {0}
ASSUME DmrSeqMaxAssumption == DmrSeqMax \in Nat \ {0}

(***************************************************************************)
(* BOUND: a datagram has at most 127 blocks.  The header field is masked   *)
(* to 7 bits, so a longer one would announce too little.                   *)
(***************************************************************************)
ASSUME BoundsAssumption == /\ MaxBlocks \in 1..127
                           /\ MaxPreambles \in 0..127
                           /\ MaxBuffer \in Nat

VARIABLES
  sendDataWhenActive, \* option: send only while the repeater is keyed up
  up,             \* state = STATE_OK
  recent,         \* lastDataPacket + 500 > getTime()
  isTXActive,
  sendDataBuffer,
  dmrSeq,
  streamId,
  pc,             \* dataPacketSender: "poll" between timers, "drain" in its loop
  onAir           \* history: the last packet sent, as a sequence of at most one

channelVars == <<up, recent, isTXActive>>
vars == <<sendDataWhenActive, channelVars, sendDataBuffer, dmrSeq, streamId, pc,
          onAir>>

Kinds == {"preamble", "header", "block", "response"}

Packet == [kind : Kinds, seq : 0..DmrSeqMax, stream : 0..StreamMax,
           first : BOOLEAN, last : BOOLEAN, follow : Nat]

TypeOK ==
  /\ sendDataWhenActive \in BOOLEAN
  /\ up \in BOOLEAN
  /\ recent \in BOOLEAN
  /\ isTXActive \in BOOLEAN
  /\ sendDataBuffer \in Seq(Packet)
  /\ dmrSeq \in 0..DmrSeqMax
  /\ streamId \in 0..StreamMax
  /\ pc \in {"poll", "drain"}
  /\ onAir \in Seq(Packet) /\ Len(onAir) <= 1

Init ==
  /\ sendDataWhenActive \in BOOLEAN
  /\ up = FALSE
  /\ recent = TRUE
  /\ isTXActive = FALSE
  /\ sendDataBuffer = <<>>
  /\ dmrSeq = 0
  /\ streamId = 0
  /\ pc = "poll"
  /\ onAir = <<>>

-----------------------------------------------------------------------------
\* counters of sendDMRData: k calls later, with the reset past the maximum
SeqAfter(k) == (dmrSeq + k) % (DmrSeqMax + 1)

NextStream == IF streamId >= StreamMax THEN 0 ELSE streamId + 1

(***************************************************************************)
(* createDataBlock and the preambles put before it.  The i-th preamble     *)
(* that is unshifted, i = 0 first, carries blocksCount + i.                *)
(***************************************************************************)
Announced(k, csbkCount, blocks) ==
  CASE k <= csbkCount     -> (1 + blocks) + (csbkCount - k)
    [] k = csbkCount + 1  -> blocks
    [] k > csbkCount + 1  -> 0

KindOf(k, csbkCount) ==
  CASE k <= csbkCount     -> "preamble"
    [] k = csbkCount + 1  -> "header"
    [] k > csbkCount + 1  -> "block"

\* mutant of Burst: the preambles are counted from the other end
BurstReversed(csbkCount, blocks) ==
  LET total == csbkCount + 1 + blocks
  IN  [k \in 1..total |->
         [kind |-> KindOf(k, csbkCount), seq |-> SeqAfter(k), stream |-> streamId,
          first |-> k = 1, last |-> k = total,
          follow |-> IF k <= csbkCount THEN blocks + k
                                       ELSE Announced(k, csbkCount, blocks)]]

Burst(csbkCount, blocks) ==
  LET total == csbkCount + 1 + blocks
  IN  [k \in 1..total |->
         [kind |-> KindOf(k, csbkCount), seq |-> SeqAfter(k), stream |-> streamId,
          first |-> k = 1, last |-> k = total,
          follow |-> Announced(k, csbkCount, blocks)]]

\* sendIPPacket: the loop over sendDMRData has no await
SendIPPacket(csbkCount, blocks) ==
  LET burst == Burst(csbkCount, blocks)
  IN  /\ Len(sendDataBuffer) + Len(burst) <= MaxBuffer
      /\ sendDataBuffer' = sendDataBuffer \o burst
      /\ dmrSeq' = SeqAfter(Len(burst))
      /\ streamId' = NextStream
      /\ UNCHANGED <<sendDataWhenActive, channelVars, pc, onAir>>

\* mutant of SendResponse: streamId is not moved on
SendResponseSameStream ==
  /\ Len(sendDataBuffer) < MaxBuffer
  /\ sendDataBuffer' =
       Append(sendDataBuffer,
              [kind |-> "response", seq |-> SeqAfter(1), stream |-> streamId,
               first |-> TRUE, last |-> TRUE, follow |-> 0])
  /\ dmrSeq' = SeqAfter(1)
  /\ UNCHANGED <<sendDataWhenActive, channelVars, streamId, pc, onAir>>

\* the Response header of a confirmed datagram, first and last of its stream
SendResponse ==
  /\ Len(sendDataBuffer) < MaxBuffer
  /\ sendDataBuffer' =
       Append(sendDataBuffer,
              [kind |-> "response", seq |-> SeqAfter(1), stream |-> streamId,
               first |-> TRUE, last |-> TRUE, follow |-> 0])
  /\ dmrSeq' = SeqAfter(1)
  /\ streamId' = NextStream
  /\ UNCHANGED <<sendDataWhenActive, channelVars, pc, onAir>>

-----------------------------------------------------------------------------
GateOpen == up /\ ~recent /\ (sendDataWhenActive => isTXActive)

\* mutant of SendHead: pop for shift
SendHeadPops ==
  /\ onAir' = <<sendDataBuffer[Len(sendDataBuffer)]>>
  /\ sendDataBuffer' = SubSeq(sendDataBuffer, 1, Len(sendDataBuffer) - 1)
  /\ UNCHANGED <<sendDataWhenActive, channelVars, dmrSeq, streamId>>

\* shift and send; then 60 ms
SendHead ==
  /\ onAir' = <<Head(sendDataBuffer)>>
  /\ sendDataBuffer' = Tail(sendDataBuffer)
  /\ UNCHANGED <<sendDataWhenActive, channelVars, dmrSeq, streamId>>

\* mutant of StartDrain: the condition on the channel is inverted
StartDrainInverted ==
  /\ pc = "poll"
  /\ sendDataBuffer # <<>>
  /\ up /\ ~recent /\ (sendDataWhenActive => ~isTXActive)
  /\ SendHead
  /\ pc' = "drain"

\* a poll that finds the gate shut only arms the 50 ms timer again
StartDrain ==
  /\ pc = "poll"
  /\ sendDataBuffer # <<>>
  /\ GateOpen
  /\ SendHead
  /\ pc' = "drain"

\* the loop looks at the buffer only: not at the connection or the channel
DrainOne ==
  /\ pc = "drain"
  /\ sendDataBuffer # <<>>
  /\ SendHead
  /\ UNCHANGED pc

EndDrain ==
  /\ pc = "drain"
  /\ sendDataBuffer = <<>>
  /\ pc' = "poll"
  /\ UNCHANGED <<sendDataWhenActive, channelVars, sendDataBuffer, dmrSeq,
                 streamId, onAir>>

-----------------------------------------------------------------------------
\* the connection is opened or closed
ConnectionChanges ==
  /\ up' = ~up
  /\ UNCHANGED <<sendDataWhenActive, recent, isTXActive, sendDataBuffer, dmrSeq,
                 streamId, pc, onAir>>

\* onData: voice, data and RepeaterBlock packets mark the channel busy, and
\* a RepeaterBlock says whether the repeater transmits
TrafficHeard ==
  /\ recent' = TRUE
  /\ isTXActive' \in BOOLEAN
  /\ UNCHANGED <<sendDataWhenActive, up, sendDataBuffer, dmrSeq, streamId, pc,
                 onAir>>

\* 500 ms without traffic
ChannelQuiet ==
  /\ recent
  /\ recent' = FALSE
  /\ UNCHANGED <<sendDataWhenActive, up, isTXActive, sendDataBuffer, dmrSeq,
                 streamId, pc, onAir>>

Sender == StartDrain \/ DrainOne \/ EndDrain

Next ==
  \/ Sender
  \/ SendResponse
  \/ \E c \in 0..MaxPreambles, b \in 1..MaxBlocks : SendIPPacket(c, b)
  \/ ConnectionChanges \/ TrafficHeard \/ ChannelQuiet

Spec == Init /\ [][Next]_vars

\* timers fire; nothing is assumed of the channel
FairSpec == Spec /\ WF_vars(Sender)

-----------------------------------------------------------------------------
(***************************************************************************)
(* What is on the air or waits to be, in order.                            *)
(***************************************************************************)
Line == onAir \o sendDataBuffer

(***************************************************************************)
(* Datagrams follow one another whole: a packet is the first of a stream   *)
(* exactly when the one before it was the last of another, and the         *)
(* sequence numbers run on without a gap.                                  *)
(***************************************************************************)
Contiguous ==
  \A k \in 1..Len(Line) - 1 :
    LET p == Line[k]
        q == Line[k + 1]
    IN  /\ q.first = p.last
        /\ (q.stream = p.stream) = ~p.last
        /\ q.seq = (p.seq + 1) % (DmrSeqMax + 1)

(***************************************************************************)
(* Every preamble and every header announces exactly the packets of its    *)
(* stream that are still to come: so many packets later, and not before,   *)
(* comes the last one.                                                     *)
(***************************************************************************)
AnnouncementsTrue ==
  \A k \in 1..Len(Line) :
    Line[k].kind \in {"preamble", "header"} =>
      /\ k + Line[k].follow <= Len(Line)
      /\ \A j \in k..k + Line[k].follow :
           Line[j].last = (j = k + Line[k].follow)

(***************************************************************************)
(* A datagram that waits is sent, if the gate comes to stay open.          *)
(***************************************************************************)
Waiting(s) == \E k \in 1..Len(sendDataBuffer) : sendDataBuffer[k].stream = s

EveryDatagramLeaves ==
  <>[]GateOpen => \A s \in 0..StreamMax : Waiting(s) ~> ~Waiting(s)

(***************************************************************************)
(* Refinement: sendIPPacket and the Response header are a datagram each,   *)
(* accepted whole, and what the drain loop sends is heard as DatagramLine  *)
(* promises, whatever is queued, and whatever the connection and the       *)
(* channel do, between two turns of the loop.                              *)
(***************************************************************************)
Promise == INSTANCE DatagramLine WITH
  Modulus <- DmrSeqMax + 1,
  Streams <- 0..StreamMax,
  Distinct <- TRUE,
  waiting <- Len(sendDataBuffer),
  ends    <- {k \in 1..Len(sendDataBuffer) : sendDataBuffer[k].last},
  heard   <- [k \in 1..Len(onAir) |->
                [number |-> onAir[k].seq, stream |-> onAir[k].stream,
                 first |-> onAir[k].first, last |-> onAir[k].last]]

LineSpec == Promise!ASpec
=============================================================================
