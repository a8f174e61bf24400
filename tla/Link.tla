-------------------------------- MODULE Link --------------------------------
(***************************************************************************)
(* One transmission through the codecs: what the library encodes, or a     *)
(* radio sends, is disturbed on the air and decoded again.                 *)
(*                                                                         *)
(*   data    a HomeBrew frame with a PDU in a rate 1/2 burst               *)
(*   rate34  one with a block in a rate 3/4 burst, from a radio: the       *)
(*           library only decodes these                                    *)
(*   voice   one with three vocoder frames and embedded signalling         *)
(*   control another HomeBrew datagram                                     *)
(*   datagram the blocks of a datagram, with the damage that is left in    *)
(*           them; with a second header they come from a radio             *)
(*   udp     a compressed UDP datagram, which is not disturbed             *)
(*                                                                         *)
(* The transmission ends with its reception; each behaviour is one.        *)
(***************************************************************************)
EXTENDS HomeBrew, UDPCompression

CONSTANTS Messages,    \* what is sent
          Damages(_)   \* the sets of places of a burst that may be inverted

(* The widths of a field, and the PDUs a class can write: each value is in *)
(* the width of its field, and those that tell the class tell it.          *)
Widths(layout, field) ==
  UNION {row[2]..row[2]+row[3]-1 : row \in {r \in layout : r[1] = field}}

FieldsFit(layout, fields) ==
  /\ fields \in [{row[1] : row \in layout} -> SUBSET Nat]
  /\ \A f \in DOMAIN fields : fields[f] \subseteq Widths(layout, f)

TellsClass(class, dataType, fields) ==
  \/ class = "PIHeader" /\ dataType = 0
  \/ class = "VoiceHeader" /\ dataType = 1
  \/ class = "VoiceTerminator" /\ dataType = 2
  \/ class = "PreCSBK" /\ dataType = 3 /\ Value(fields.opcode) = 61
  \/ class = "CallAlertACK" /\ dataType = 3 /\ Value(fields.opcode) = 32
  \/ class = "CallEmergency" /\ dataType = 3 /\ Value(fields.opcode) = 39
  \/ class = "CSBKRaw" /\ dataType = 3 /\ Value(fields.opcode) \notin {61, 32, 39}
  \/ class = "Unified" /\ dataType = 6 /\ Value(fields.DPF) = 0
  \/ class = "Response" /\ dataType = 6 /\ Value(fields.DPF) = 1
  \/ class = "Unconfirmed" /\ dataType = 6 /\ Value(fields.DPF) = 2
  \/ class = "Confirmed" /\ dataType = 6 /\ Value(fields.DPF) = 3
  \/ /\ class = "ProprietaryCompressed" /\ dataType = 6
     /\ Value(fields.DPF) = 15 /\ Value(fields.mfId) = 16 /\ Value(fields.opcode) = 2
  \/ class = "Raw" /\ dataType \in (0..15) \ {0, 1, 2, 3, 6, 8}

WellFormed(packet) ==
  /\ IF packet.class = "Raw" THEN packet.fields \in [{"data"} -> SUBSET (0..BlockBits-1)]
     ELSE FieldsFit(LayoutOf(packet.class), packet.fields)
  /\ TellsClass(packet.class, packet.dataType, packet.fields)

(* What a rate 3/4 burst carries is read as it is. *)
Rate34Blocks ==
  [class : {"Raw"}, dataType : {8}, fields : [data : SUBSET (0..3*(NumPoints-1)-1)]]

(* A voice burst: three frames of the vocoder around the sync pattern, or  *)
(* around the 32 bits between the halves of the embedded signalling.       *)
VoiceFits(voice) ==
  /\ voice \in [kind : {"voice"}, isSync : BOOLEAN, colorCode : SUBSET (0..3), PI : BOOLEAN,
                LCSS : SUBSET {0, 1}, ambe : [1..3 -> SUBSET (0..RawBits-1)], center : SUBSET (0..47)]
  /\ ~voice.isSync => voice.center \subseteq 0..31

(***************************************************************************)
(* What can be sent.  The fields of a frame say what its burst is, and the *)
(* air may invert any of the bits of the burst.  A payload has the octets  *)
(* it is said to have; behind a second header it is the 15 octets of two   *)
(* blocks, less the checksum.  A control datagram has the body its class   *)
(* demands (a RepeaterClose has none; with 293 octets it would pass for a  *)
(* RepeaterConfig).  The air does not touch control and UDP datagrams.     *)
(***************************************************************************)
ASSUME MessagesAssumption ==
  \A m \in Messages :
    /\ m.kind \in {"data", "rate34"} =>
         /\ FieldsFit(VoiceData, m.frame.fields) /\ Value(m.frame.fields.frame_type) = 2
         /\ m.frame.data.kind = "dmr" /\ m.frame.data.colorCode \subseteq 0..3
         /\ IF m.kind = "data" THEN WellFormed(m.frame.data.packet)
            ELSE m.frame.data.packet \in Rate34Blocks
         /\ \A places \in Damages(m) : places \subseteq 0..BurstBits-1
    /\ m.kind = "voice" =>
         /\ m.frame = [fields |-> m.frame.fields, data |-> m.frame.data]
         /\ FieldsFit(VoiceData, m.frame.fields) /\ VoiceFits(m.frame.data)
         /\ Value(m.frame.fields.frame_type) # 2
         /\ m.frame.data.isSync <=> Value(m.frame.fields.frame_type) = 1
         /\ \A places \in Damages(m) : places \subseteq 0..BurstBits-1
    /\ m.kind = "datagram" =>
         /\ m.second \in BOOLEAN
         /\ IF m.second THEN m.payload \subseteq 0..119
            ELSE m.octets \in Nat /\ m.payload \subseteq 0..8 * m.octets - 1
    /\ m.kind = "control" =>
         /\ m.type \in Types /\ m.octets \in Nat
         /\ m.type \in DOMAIN BodyOctets => m.octets = BodyOctets[m.type]
         /\ m.type = "RPTCL" => m.octets # 293
         /\ Damages(m) = {}
    /\ m.kind = "udp" =>
         /\ m.format \in {"advantage", "standard"}
         /\ m.packet \in Datagrams
         /\ Damages(m) = {}

VARIABLES message,
          air,   \* what is on the air, as a sequence of at most one
          hit,   \* the places of the burst that were inverted
          got    \* what it was read as, as a sequence of at most one
vars == <<message, air, hit, got>>

HasBurst == message.kind \in {"data", "rate34", "voice"}
DamageStart == IF HasBurst THEN BurstStart ELSE 0

Init ==
  /\ message \in Messages
  /\ air = <<>>
  /\ hit = {}
  /\ got = <<>>

-----------------------------------------------------------------------------
(* The trellis encoder of a radio (ETSI TS 102 361-1, B.2.4): 48 tribits,  *)
(* each choosing a point by the one before, and a last one of 0.           *)
TrellisEncode(block) ==
  LET Tribit(i) == IF i \in 0..NumPoints-2
                   THEN Value({2 - k : k \in {j \in 0..2 : 3 * i + j \in block}}) ELSE 0
      Dibit(n)  == Constellation[EncodeTable[Tribit(n \div 2 - 1) + 1][Tribit(n \div 2) + 1] + 1][(n % 2) + 1]
      High(n)   == IF Dibit(n) < 0 THEN {BurstBit(2 * ReceivedAt(n))} ELSE {}
      Low(n)    == IF Dibit(n) \in {3, -3} THEN {BurstBit(2 * ReceivedAt(n) + 1)} ELSE {}
  IN  UNION {High(n) \cup Low(n) : n \in 0..NumDibits-1}

RadioBurst(data) ==
  TrellisEncode(data.packet.fields.data) \cup EncodeSlotType(data.colorCode, data.packet.dataType)
    \cup {108 + n : n \in SyncData}

(* A confirmed block of a radio: serial number, checksum and 16 octets. *)
RadioBlock(serial, part) ==
  {6 - b : b \in serial} \cup {15 - b : b \in (0..8) \ CRC9Compute(16, part, serial)}
    \cup {16 + n : n \in part}

Vocoded(words) == [i \in 1..3 |-> Convert49BitTo72BitAMBE(words[i])]

(* The blocks of a radio begin with the 7 octets of the second header. *)
RadioDatagram(m) ==
  [octets |-> 7 + PartSize, pad |-> 0,
   bits   |-> m.payload \cup CrcBits(7 + PartSize, CRC32Compute(2 + PartSize, Cut(m.payload, 0, 112)))]

Datagram(m) == IF m.second THEN RadioDatagram(m) ELSE CreateDataBlock(m.octets, m.payload)

Encoded ==
  CASE message.kind = "data"    -> VoiceDataBuffer(message.frame)
    [] message.kind = "voice"   -> VoiceDataBuffer([message.frame EXCEPT !.data.ambe = Vocoded(@)])
    [] message.kind = "rate34"  -> WriteFields(VoiceData, message.frame.fields)
                                     \cup {BurstStart + n : n \in RadioBurst(message.frame.data)}
    [] message.kind = "datagram" -> Datagram(message).bits
    [] message.kind = "udp"     -> Compress(message.format, message.packet)
    [] message.kind = "control" -> message.type

Transmit ==
  /\ air = <<>>
  /\ air' = <<Encoded>>
  /\ UNCHANGED <<message, hit, got>>

Disturb ==
  /\ air # <<>> /\ got = <<>> /\ hit = {}
  /\ \E places \in Damages(message) :
       /\ hit' = places
       /\ air' = << Inverted(air[1], {DamageStart + n : n \in places}) >>
  /\ UNCHANGED <<message, got>>

Decoded ==
  CASE message.kind \in {"data", "rate34", "voice"} -> VoiceDataFrom(air[1])
    [] message.kind = "datagram" -> LET d == Datagram(message)
                                    IN  GetBuffer(d.octets, air[1], d.pad, message.second)
    [] message.kind = "udp"     -> Decompress(message.format, air[1])
    [] message.kind = "control" -> ControlFrom(air[1], message.octets)

Receive ==
  /\ air # <<>> /\ got = <<>>
  /\ got' = <<Decoded>>
  /\ UNCHANGED <<message, air, hit>>

Next == Transmit \/ Disturb \/ Receive

Spec == Init /\ [][Next]_vars

-----------------------------------------------------------------------------
Received(kind) == message.kind = kind /\ got # <<>>
Sent == message.frame

SlotHits    == {n \in 0..18 : SlotPlace(n) \in hit}
EmbHits     == {n \in 0..14 : EmbPlace(n) \in hit}
PayloadHits == {n \in 0..Bits-1 : BurstBit(n) \in hit}
SlotTypeHolds == Cardinality(SlotHits) <= 3

(* At most two errors, or any number within eight bits of the payload. *)
Correctable(hits) == Cardinality(hits) <= 2 \/ \A m, n \in hits : m - n < 8

(* Fields the receiver does not take from the one of that name: Unified    *)
(* reads its count wrongly, payload is a view of other fields.             *)
NotCarried == {"appendedBlocks", "payload"}

SamePacket(p, q) ==
  /\ p.class = q.class /\ p.dataType = q.dataType
  /\ \A f \in DOMAIN p.fields \ NotCarried : p.fields[f] = q.fields[f]

SamePDU ==
  /\ got[1].fields = Sent.fields
  /\ got[1].data.kind = "dmr"
  /\ got[1].data.colorCode = Sent.data.colorCode
  /\ SamePacket(Sent.data.packet, got[1].data.packet)

(***************************************************************************)
(* A PDU of any class with any field values arrives as it was sent, with   *)
(* its colour code and the fields around it, through three wrong bits in   *)
(* the slot type and, in the payload, two anywhere or eight in a row.      *)
(***************************************************************************)
DataSurvives ==
  Received("data") /\ SlotTypeHolds /\ Correctable(PayloadHits) => SamePDU

(***************************************************************************)
(* A rate 3/4 block of any content arrives through any single wrong bit    *)
(* (and a slot type with three): the decoder finds the point that was hit, *)
(* by trial, and no other point completes the path.                        *)
(***************************************************************************)
Rate34Survives ==
  Received("rate34") /\ SlotTypeHolds /\ Cardinality(PayloadHits) <= 1 => SamePDU

(***************************************************************************)
(* Damage the code cannot correct, and may make worse, is noticed: a CSBK, *)
(* data header or PI header is then refused, and never read as another     *)
(* one, nor as another kind, though the three kinds share their checksum   *)
(* and differ in its mask only; and so is a datagram.  (Behind a second    *)
(* header one octet is not covered by its checksum.)  Where the trellis    *)
(* decoder guesses wrong, the checksum of the block tells.                 *)
(***************************************************************************)
PayloadSent == IF message.second THEN Cut(message.payload, 32, 88) ELSE message.payload
Uncovered == IF message.second THEN 112..119 ELSE {}

NeverAnother ==
  /\ Received("data") /\ Sent.data.packet.dataType \in {0, 3, 6} =>
       /\ SlotTypeHolds => SamePDU \/ got[1].data.kind = "raw"
       /\ got[1].data.kind = "dmr"
            => got[1].data.packet.dataType \notin {0, 3, 6} \ {Sent.data.packet.dataType}
  /\ Received("rate34") /\ SlotTypeHolds /\ got[1].data.kind = "dmr"
       => SamePDU \/ ~BlockAccepted(got[1].data.packet.fields.data)
  /\ Received("datagram") /\ hit \cap Uncovered = {} => got[1] \in {<<>>, <<PayloadSent>>}

(***************************************************************************)
(* Voice: two wrong bits in the embedded signalling are corrected (of the  *)
(* colour code the lowest bit is sent); and a vocoder frame has no more    *)
(* wrong bits than hit it, as long as none of the twelve that key the      *)
(* scrambling of its second word is among them.                            *)
(***************************************************************************)
WordHits(i) == {PlaceOf(n) : n \in {k \in 0..AirBits-1 : VoicePlace(72 * (i - 1) + k) \in hit}}
KeyPlaces == {<<0, n>> : n \in 12..23}

VoiceSurvives ==
  Received("voice") /\ Cardinality(EmbHits) <= 2 =>
    LET sent == Sent.data
        data == got[1].data
        wrong(i) == BitSum(sent.ambe[i], Convert72BitTo49BitAMBE(data.ambe[i]))
    IN  /\ data.kind = "voice" /\ data.isSync = sent.isSync
        /\ ~sent.isSync => /\ data.PI = sent.PI /\ data.LCSS = sent.LCSS
                           /\ data.colorCode = sent.colorCode \cap {0}
        /\ \A i \in 1..3 : WordHits(i) \cap KeyPlaces = {}
                             => Cardinality(wrong(i)) <= Cardinality(WordHits(i))

(***************************************************************************)
(* What is not damaged arrives.  A datagram of any payload that goes out   *)
(* with its checksum is not refused, and is cut where it ends.  A control  *)
(* datagram is read as its own class or not at all, although the name of   *)
(* one type begins with that of another.  (RepeaterClose is never read:    *)
(* RepeaterConfig takes it, and refuses its length.)                       *)
(***************************************************************************)
UndamagedArrives ==
  /\ Received("datagram") /\ hit = {} => got[1] = <<PayloadSent>>
  /\ Received("control") =>
       got[1] = (IF message.type \in {"RPTCL", "RPTK"} THEN "none" ELSE message.type)

-----------------------------------------------------------------------------
KnownNetworks == {message.packet.src_net, message.packet.dst_net} \subseteq DOMAIN AddressID

ThrowsOnShort == /\ got = <<Throws>>
                 /\ message.packet.src_port \in DOMAIN PortID
                 /\ message.packet.dst_port \notin DOMAIN PortID
                 /\ Len(message.packet.payload) < 2

(***************************************************************************)
(* Whatever the ports of a datagram between known networks, at most an     *)
(* inline destination port is lost: everything else arrives, and the place *)
(* the destination port is read from does not move the payload.            *)
(* Decompression of what the library has compressed never returns null,    *)
(* and throws only for an inline destination port alone before less than   *)
(* two octets.                                                             *)
(***************************************************************************)
OnlyDestinationPortLost ==
  Received("udp") /\ KnownNetworks /\ ~ThrowsOnShort =>
    /\ got[1] \notin {Null, Throws}
    /\ [got[1] EXCEPT !.dst_port = message.packet.dst_port] = message.packet
    /\ message.packet.dst_port \in DOMAIN PortID => got[1] = message.packet

(***************************************************************************)
(* README: the library supports UDP with either header compression; so a   *)
(* datagram between known networks arrives as it was sent.  The code reads *)
(* an inline destination port from the wrong place.                        *)
(***************************************************************************)
RoundTrip == Received("udp") /\ KnownNetworks => got = <<message.packet>>

(***************************************************************************)
(* README: voice headers and terminators are protected by the Reed-Solomon *)
(* code (12,9), which corrects an octet.  The code reads the link control  *)
(* from the octets as they were before the correction.                     *)
(***************************************************************************)
OneOctetWrong ==
  LET wrong == Inverted(BPTCDecode(BlockOf(Cut(air[1], BurstStart, BurstBits))),
                        PacketBuffer(Sent.data.packet))
  IN  Cardinality({n \div 8 : n \in wrong}) = 1

LCCorrected ==
  Received("data") /\ SlotTypeHolds /\ Sent.data.packet.dataType \in {1, 2} /\ OneOctetWrong
    => SamePDU
=============================================================================
