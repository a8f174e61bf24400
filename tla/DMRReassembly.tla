--------------------------- MODULE DMRReassembly ---------------------------
(***************************************************************************)
(* The way of an incoming datagram: DMRIPGateway.onDMRPacket collects the  *)
(* data header and the blocks of each source in a DataBlock, checks them   *)
(* and hands the IP packet on.  The radios and the air between are the     *)
(* environment: packets are lost, damaged, duplicated and reordered as the *)
(* channel allows.                                                         *)
(*                                                                         *)
(* Payload octets are abstracted to the block they belong to, their number *)
(* and what a decoder makes of them.  CRC9 and CRC32 tell every damaged or *)
(* misplaced block that they cover: the CRC32 of a collected buffer        *)
(* matches when its blocks are all blocks of one datagram, in order and    *)
(* undamaged but for the octet that CRC leaves out, see CRCMatches.        *)
(***************************************************************************)
EXTENDS Integers, Sequences

CONSTANTS Sources,       \* radio ids
          Shapes,        \* datagrams a radio may send, see Shape
          MaxAir,        \* BOUND: packets in the air
          Channels       \* what the air may do, see Channel

(***************************************************************************)
(* blocks: blocksToFollow.  confirmed: Confirmed header and blocks with a  *)
(* CRC9.  sap: SAP_IP_PACKET, SAP_UDP_COMPRESSION, or SAP_PROPRIETARY with *)
(* the second header (ProprietaryCompressed) as its first block.           *)
(* pad: padOctetCount.  Of the contents it is told how many octets their   *)
(* decoder reads before its verdict (20 for an IP header; 3 to 9 for a     *)
(* compressed one, 0 to 4 behind a second header, with ports in the        *)
(* payload the most), and the verdict: a packet, null for a wrong checksum *)
(* or an unknown protocol or network, or an exception for an OP bit.       *)
(***************************************************************************)
Verdict == {"packet", "null", "throws"}

Shape == [blocks : Nat, confirmed : BOOLEAN, sap : {"ip", "udp", "moto"}, pad : Nat,
          reads : Nat, verdict : Verdict]

(***************************************************************************)
(* Blocks are lost and damaged in every channel.  loseHeaders: headers are *)
(* lost too.  disorder: packets are duplicated and overtake.               *)
(***************************************************************************)
Channel == [loseHeaders : BOOLEAN, disorder : BOOLEAN]

ASSUME ShapesAssumption == Shapes \subseteq Shape
ASSUME AirAssumption == MaxAir \in Nat /\ Channels \subseteq Channel

\* a datagram: its shape and a number that tells it from the one before
Datagrams == [num : {0, 1}, shape : Shapes]

Nothing == <<>>

VARIABLES
  channel,      \* environment: one of Channels, set once
  radio,        \* radio[s]: datagram s is sending and its next part, 0 = header
  air,          \* packets in the air, oldest first
  dataBuffer,   \* dataBuffer[s]: <<>>, or one DataBlock
  out,          \* history: <<>>, or the payload the last packet made decode
  crashed,      \* an exception left the handler: the process is gone
  whole         \* history: whole[s]: parts of one datagram heard in a row, -1 none

vars == <<channel, radio, air, dataBuffer, out, crashed, whole>>

\* beforeCRC: nothing but the octet in front of a block's last four is damaged
Damage == {"none", "beforeCRC", "other"}

Message == {m \in [src : Sources, d : Datagrams, part : Nat, damage : Damage] :
              m.part <= m.d.shape.blocks}

Intact(m) == m.damage = "none"

\* a block with a CRC of its own: CRC9, or the CRC16 of a header
HasOwnCRC(m) == m.d.shape.confirmed \/ (m.d.shape.sap = "moto" /\ m.part = 1)

DataBlock == [header : Datagrams, remain : Nat, parts : Seq(Message)]

TypeOK ==
  /\ channel \in Channels
  /\ radio \in [Sources -> [d : Datagrams, part : Nat]]
  /\ \A s \in Sources : radio[s].part <= radio[s].d.shape.blocks + 1
  /\ air \in Seq(Message) /\ Len(air) <= MaxAir
  /\ \A s \in Sources : dataBuffer[s] # Nothing => /\ Len(dataBuffer[s]) = 1
                                                  /\ dataBuffer[s][1] \in DataBlock
  /\ DOMAIN dataBuffer = Sources
  /\ crashed \in BOOLEAN
  /\ whole \in [Sources -> Int]

Init ==
  /\ channel \in Channels
  /\ radio \in [Sources -> {[d |-> [num |-> 0, shape |-> f], part |-> 0] : f \in Shapes}]
  /\ air = <<>>
  /\ dataBuffer = [s \in Sources |-> Nothing]
  /\ out = Nothing
  /\ crashed = FALSE
  /\ whole = [s \in Sources |-> -1]

-----------------------------------------------------------------------------
(***************************************************************************)
(* The environment.  A header whose own CRC16 is wrong is not one any more *)
(* and counts as lost.  beforeCRC is told apart only in the last block     *)
(* behind a second header, elsewhere it is damage like any other.          *)
(***************************************************************************)
RadioSends(s) ==
  /\ radio[s].part <= radio[s].d.shape.blocks
  /\ Len(air) < MaxAir
  /\ \E damage \in Damage :
       /\ damage # "none" => radio[s].part > 0
       /\ damage = "beforeCRC" => /\ radio[s].d.shape.sap = "moto"
                                  /\ radio[s].part = radio[s].d.shape.blocks
       /\ air' = Append(air, [src |-> s, d |-> radio[s].d,
                              part |-> radio[s].part, damage |-> damage])
  /\ radio' = [radio EXCEPT ![s].part = @ + 1]
  /\ UNCHANGED <<channel, dataBuffer, out, crashed, whole>>

\* a new datagram; the old one may be abandoned half way
RadioBegins(s) ==
  /\ radio[s].part > 0
  /\ \E f \in Shapes :
       radio' = [radio EXCEPT ![s] =
                   [d |-> [num |-> 1 - @.d.num, shape |-> f], part |-> 0]]
  /\ UNCHANGED <<channel, air, dataBuffer, out, crashed, whole>>

Without(k) == SubSeq(air, 1, k - 1) \o SubSeq(air, k + 1, Len(air))

Lose(k) ==
  /\ air[k].part = 0 => channel.loseHeaders
  /\ air' = Without(k)
  /\ UNCHANGED <<channel, radio, dataBuffer, out, crashed, whole>>

-----------------------------------------------------------------------------
(***************************************************************************)
(* DataBlock.addPacket: a block is counted unless none is expected or its  *)
(* own CRC is wrong (a second header would not even be one).               *)
(***************************************************************************)
Accepts(b, m) == b.remain > 0 /\ (HasOwnCRC(m) => Intact(m))

\* mutant of AddPacket: a block with a wrong CRC9 is counted too
AddPacketCountsAll(b, m) ==
  IF b.remain = 0 THEN b
  ELSE [b EXCEPT !.remain = @ - 1,
                 !.parts = IF Accepts(b, m) THEN Append(@, m) ELSE @]

AddPacket(b, m) ==
  IF Accepts(b, m)
    THEN [b EXCEPT !.remain = @ - 1, !.parts = Append(@, m)]
    ELSE b

\* mutant of CRCMatches: getBuffer without its CRC32
CRCMatchesAlways(parts) == parts # <<>>

(***************************************************************************)
(* getBuffer: does the CRC32 of the collected blocks match?  Behind a      *)
(* second header it is computed to one octet short of the CRC octets, so   *)
(* that octet, at the end of the payload or of its padding, may be wrong.  *)
(***************************************************************************)
LeftOut(m) ==
  m.damage = "beforeCRC" /\ m.d.shape.sap = "moto" /\ m.part = m.d.shape.blocks

CRCMatches(parts) ==
  LET first == parts[1]
  IN  /\ Len(parts) = first.d.shape.blocks
      /\ \A i \in 1..Len(parts) : /\ parts[i].part = i /\ parts[i].d = first.d
                                  /\ Intact(parts[i]) \/ LeftOut(parts[i])

(***************************************************************************)
(* The octets left to decode of the blocks of a shape f, when getBuffer    *)
(* has taken off the CRC, a number of pad octets and, of a second header,  *)
(* the first four.  subarray counts a negative end from the end.           *)
(***************************************************************************)
CRC_SIZE == 4

BlockOctets(f) == IF f.confirmed THEN 16 ELSE 12

Collected(f) ==
  IF f.sap = "moto" THEN 7 + (f.blocks - 1) * BlockOctets(f) ELSE f.blocks * BlockOctets(f)

PayloadOctets(f, pad) ==
  LET start  == IF f.sap = "moto" THEN 4 ELSE 0
      end    == Collected(f) - CRC_SIZE - pad
      octets == (IF end >= 0 THEN end ELSE Collected(f) + end) - start
  IN  IF octets > 0 THEN octets ELSE 0

(***************************************************************************)
(* What the decoder of header shape h may make of the payload of shape f.  *)
(* The header says which one it is and how much padding there is; the      *)
(* second header, and the contents, come with the blocks.  Where the two   *)
(* shapes are of different datagrams, what is not known of the contents is *)
(* left open: an IP packet may lose or gain its last octets, and octets    *)
(* meant for another decoder may say anything.                             *)
(***************************************************************************)
IPHeaderSize == 20

Verdicts(h, f) ==
  LET n == PayloadOctets(f, h.pad)
  IN  IF h.sap = f.sap THEN
        IF n < f.reads THEN {"throws"}
        ELSE IF h.sap = "ip" /\ h.pad # f.pad THEN {f.verdict, "null"}
        ELSE {f.verdict}
      ELSE IF h.sap = "moto" THEN {"null"}    \* no second header has come
      ELSE IF h.sap = "ip"
        THEN IF n < IPHeaderSize THEN {"throws"} ELSE {"packet", "null"}
      ELSE Verdict

\* mutants of NewDataBlock: an unfinished block is not replaced, its buffer is
\* kept
NewDataBlockUnlessOpen(m) ==
  IF dataBuffer[m.src] # Nothing THEN Head(dataBuffer[m.src])
  ELSE [header |-> m.d, remain |-> m.d.shape.blocks, parts |-> <<>>]

NewDataBlockSharesBuffer(m) ==
  [header |-> m.d, remain |-> m.d.shape.blocks,
   parts |-> IF dataBuffer[m.src] # Nothing THEN Head(dataBuffer[m.src]).parts
                                            ELSE <<>>]

NewDataBlock(m) ==
  [header |-> m.d, remain |-> m.d.shape.blocks, parts |-> <<>>]

\* onDMRPacket, all of it
OnDMRPacket(m) ==
  LET s == m.src
      b == AddPacket(Head(dataBuffer[s]), m)
  IN  IF m.part = 0 THEN
        /\ dataBuffer' = [dataBuffer EXCEPT ![s] = <<NewDataBlock(m)>>]
        /\ out' = Nothing
        /\ UNCHANGED crashed
      ELSE IF dataBuffer[s] = Nothing THEN
        out' = Nothing /\ UNCHANGED <<dataBuffer, crashed>>
      ELSE IF b.remain > 0 THEN
        /\ dataBuffer' = [dataBuffer EXCEPT ![s] = <<b>>]
        /\ out' = Nothing
        /\ UNCHANGED crashed
      ELSE IF b.parts = <<>> THEN   \* readUInt32LE of an empty buffer
        crashed' = TRUE /\ out' = Nothing /\ UNCHANGED dataBuffer
      ELSE
        /\ dataBuffer' = [dataBuffer EXCEPT ![s] = Nothing]
        /\ \/ /\ ~CRCMatches(b.parts)
              /\ out' = Nothing
              /\ UNCHANGED crashed
           \/ /\ CRCMatches(b.parts)
              /\ \E v \in Verdicts(b.header.shape, b.parts[1].d.shape) :
                   /\ out' = <<[header |-> b.header, parts |-> b.parts, verdict |-> v,
                               confirms |-> v = "packet" /\ b.header.shape.confirmed]>>
                   /\ crashed' = (v = "throws")

\* history: a header starts a row, the next part goes on with it
WholeAfter(m) ==
  IF m.part = 0 THEN 0
  ELSE IF Intact(m) /\ whole[m.src] = m.part - 1 THEN m.part ELSE -1

Deliver(k, again) ==
  /\ ~crashed
  /\ OnDMRPacket(air[k])
  /\ air' = IF again THEN air ELSE Without(k)
  /\ whole' = [whole EXCEPT ![air[k].src] = WholeAfter(air[k])]
  /\ UNCHANGED <<channel, radio>>

DeliverNext == air # <<>> /\ Deliver(1, FALSE)

DeliverOutOfOrder ==
  /\ channel.disorder
  /\ \E k \in 1..Len(air) : \/ Deliver(k, TRUE)
                            \/ k > 1 /\ Deliver(k, FALSE)

Next ==
  \/ \E s \in Sources : RadioSends(s) \/ RadioBegins(s)
  \/ \E k \in 1..Len(air) : Lose(k)
  \/ DeliverNext
  \/ DeliverOutOfOrder

Spec == Init /\ [][Next]_vars

-----------------------------------------------------------------------------
(***************************************************************************)
(* What is decoded is the whole payload of one datagram of the source, its *)
(* blocks in order, none missing, none twice, none damaged, with the one   *)
(* exception the code makes: behind a second header, without a CRC9, the   *)
(* octet in front of the CRC may be wrong.                                 *)
(***************************************************************************)
DecodedWhole ==
  out # Nothing =>
    LET parts == out[1].parts
        shape == parts[1].d.shape
    IN  /\ [i \in 1..Len(parts) |-> parts[i].part] = [i \in 1..shape.blocks |-> i]
        /\ \A i \in 1..Len(parts) : parts[i].src = parts[1].src /\ parts[i].d = parts[1].d
        /\ \A i \in 1..Len(parts) :
             ~Intact(parts[i]) => /\ parts[i].damage = "beforeCRC" /\ i = shape.blocks
                                  /\ shape.sap = "moto" /\ ~shape.confirmed /\ i > 1

(***************************************************************************)
(* The payload is decoded, and confirmed, under its own header.  True      *)
(* while headers are not lost and packets stay in order: nothing else ties *)
(* blocks to a header.                                                     *)
(***************************************************************************)
Orderly == ~channel.loseHeaders /\ ~channel.disorder

OwnHeader == Orderly /\ out # Nothing => out[1].header = out[1].parts[1].d

(***************************************************************************)
(* Whatever came before, a datagram whose header and blocks are heard in a *)
(* row is decoded with its last block, in an orderly channel, and comes to *)
(* what it is worth by itself: a packet, nothing, or, when it is too short *)
(* for its decoder, the end of the process.                                *)
(***************************************************************************)
Worth(f) == Verdicts(f, f)

Resynchronises ==
  [][\A s \in Sources :
       LET m == air[1]
       IN  /\ Orderly /\ air # <<>> /\ DeliverNext
           /\ m.src = s /\ m.part > 0 /\ whole'[s] = m.d.shape.blocks
           => /\ out' # Nothing
              /\ out'[1].parts[1].d = m.d
              /\ {out'[1].verdict} = Worth(m.d.shape)
              /\ crashed' = (Worth(m.d.shape) = {"throws"})]_vars

(***************************************************************************)
(* An exception leaves the handler and ends the process only because of    *)
(* what a datagram is by itself: a header that announces no blocks, so     *)
(* that getBuffer reads the CRC of an empty buffer, or a payload that its  *)
(* own decoder reads past the end of or throws on.  Blocks lost, damaged   *)
(* or left out never do it; blocks under another's header may, where the   *)
(* channel puts them there.                                                *)
(***************************************************************************)
CrashesOnlyOfItself ==
  crashed =>
    \/ /\ out = Nothing
       /\ \E s \in Sources : /\ dataBuffer[s] # Nothing
                              /\ dataBuffer[s][1].header.shape.blocks = 0
    \/ /\ out # Nothing /\ out[1].verdict = "throws"
       /\ Orderly => Worth(out[1].parts[1].d.shape) = {"throws"}
=============================================================================
