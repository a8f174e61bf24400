------------------------------ MODULE HomeBrew ------------------------------
(***************************************************************************)
(* The HomeBrew protocol of repeaters and gateways, Protocols/HomeBrew:    *)
(* which class a datagram is read as, and the voice and data frames, whose *)
(* 264-bit burst the library codes and decodes itself: slot type and PDU   *)
(* in a data burst, embedded signalling and three vocoder frames in a      *)
(* voice burst.                                                            *)
(*                                                                         *)
(* Frames and bursts are sets of the places of their ones; fields are sets *)
(* of weights, as in DMRPackets.                                           *)
(***************************************************************************)
EXTENDS BPTC19696, CyclicCodes, Trellis, DMRPackets, AMBECodec

BurstBits == 264

-----------------------------------------------------------------------------
(***************************************************************************)
(* The slot type: colour code and data type in the Golay code, 10 of its   *)
(* bits on either side of the sync pattern.                                *)
(***************************************************************************)
SyncData == {0, 1, 3, 5, 7, 8, 9, 11, 13, 14, 15, 16, 17, 18, 19, 21, 22, 23,
             25, 26, 27, 28, 29, 30, 31, 32, 33, 35, 37, 38, 39, 41, 43, 45, 46, 47}

SlotPlace(n) == IF n < 10 THEN 98 + n ELSE 146 + n

EncodeSlotType(colorCode, dataType) ==
  LET value == {b + 4 : b \in colorCode \cap (0..3)} \cup {b \in 0..3 : (dataType \div 2^b) % 2 = 1}
  IN  {SlotPlace(19 - b) : b \in CyclicEncode(Golay2087, value)}

DecodeSlotType(burst) ==
  CyclicDecode(Golay2087, GolayTable, {b \in 0..19 : SlotPlace(19 - b) \in burst})

\* the 196 bits around slot type and sync
BlockOf(burst) == {n \in 0..Bits-1 : BurstBit(n) \in burst}

(* Always the rate 1/2 code, which takes the first 96 bits. *)
EncodeDMR(packet, colorCode) ==
  LET encoded == BPTCEncode(PacketBuffer(packet) \cap (0..DataBits-1))
  IN  {BurstBit(n) : n \in encoded} \cup EncodeSlotType(colorCode, packet.dataType)
        \cup {108 + n : n \in SyncData}

(***************************************************************************)
(* What a data burst is read as.  "throws": Trellis.decode's false is      *)
(* handed to bitsStrToBuffer.  "undecided": a slot type with more errors   *)
(* than the code corrects.                                                 *)
(***************************************************************************)
DecodeDMR(burst) ==
  LET code      == DecodeSlotType(burst)
      dataType  == Value(code \cap (0..3))
      decoded   == IF dataType = 8 THEN TrellisDecode(burst) ELSE << BPTCDecode(BlockOf(burst)) >>
      packets   == PacketFrom(decoded[1], dataType)
      colorCode == {b - 4 : b \in code \ (0..3)}
  IN  IF code = Undecided THEN [kind |-> "undecided"]
      ELSE IF decoded = << >> THEN [kind |-> "throws"]
      ELSE IF packets = << >> THEN [kind |-> "raw", colorCode |-> colorCode, payload |-> burst]
      ELSE [kind |-> "dmr", colorCode |-> colorCode, packet |-> packets[1]]

-----------------------------------------------------------------------------
(***************************************************************************)
(* VoicePayload: 108 bits of vocoder on either side of the sync pattern or *)
(* of embedded signalling, which has the 32 bits of embData between the    *)
(* halves of its word.                                                     *)
(***************************************************************************)
VoicePlace(n) == IF n < 108 THEN n ELSE n + 48
EmbPlace(n) == IF n < 8 THEN 108 + n ELSE 140 + n

\* getBuffer shifts the colour code out of its mask, all but the lowest bit
EmbWord(voice) ==
  {3 + b : b \in voice.colorCode \cap {0}} \cup (voice.LCSS \cap {0, 1})
    \cup (IF voice.PI THEN {2} ELSE {})

EncodeVoice(voice) ==
  (UNION {{VoicePlace(72 * (i - 1) + n) : n \in voice.ambe[i]} : i \in 1..3})
    \cup (IF voice.isSync THEN {108 + n : n \in voice.center}
          ELSE {EmbPlace(15 - b) : b \in CyclicEncode(QR1676, EmbWord(voice))}
                 \cup {116 + n : n \in voice.center})

DecodeVoice(burst, isSync) ==
  LET payload == {n \in 0..215 : VoicePlace(n) \in burst}
      ambe    == [i \in 1..3 |-> Cut(payload, 72 * (i - 1), 72)]
      dec     == CyclicDecode(QR1676, QRTable, {b \in 0..15 : EmbPlace(15 - b) \in burst})
  IN  IF isSync
      THEN [kind |-> "voice", isSync |-> TRUE, colorCode |-> {}, PI |-> FALSE, LCSS |-> {},
            ambe |-> ambe, center |-> Cut(burst, 108, 48)]
      ELSE IF dec = Undecided THEN [kind |-> "undecided"]
      ELSE [kind |-> "voice", isSync |-> FALSE, colorCode |-> {b - 3 : b \in dec \cap (3..6)},
            PI |-> 2 \in dec, LCSS |-> dec \cap {0, 1}, ambe |-> ambe, center |-> Cut(burst, 116, 32)]

-----------------------------------------------------------------------------
(***************************************************************************)
(* VoiceData: the fields before and behind the burst, in rows as those of  *)
(* DMRPackets; frame_type says what the burst is (1: voice with sync, 2:   *)
(* data).                                                                  *)
(***************************************************************************)
VoiceData ==
  { << "seq", 0, 8, 0, 0 >>, << "src_id", 0, 24, 8, 8 >>, << "dst_id", 0, 24, 32, 32 >>,
    << "repeaterId", 0, 32, 56, 56 >>, << "slot", 0, 1, 88, 88 >>, << "call_type", 0, 1, 89, 89 >>,
    << "frame_type", 0, 2, 90, 90 >>, << "data_type", 0, 4, 92, 92 >>, << "stream_id", 0, 32, 96, 96 >>,
    << "ber", 0, 8, 392, 392 >>, << "rssi", 0, 8, 400, 400 >> }
BurstStart == 128

EncodeBurst(data) ==
  CASE data.kind = "raw"   -> data.payload
    [] data.kind = "dmr"   -> EncodeDMR(data.packet, data.colorCode)
    [] data.kind = "voice" -> EncodeVoice(data)

VoiceDataBuffer(frame) ==
  WriteFields(VoiceData, frame.fields) \cup {BurstStart + n : n \in EncodeBurst(frame.data)}

VoiceDataFrom(buffer) ==
  LET fields == ReadFields(VoiceData, buffer)
      burst  == Cut(buffer, BurstStart, BurstBits)
      type   == Value(fields.frame_type)
  IN  [fields |-> fields,
       data   |-> IF type = 2 THEN DecodeDMR(burst) ELSE DecodeVoice(burst, type = 1)]

-----------------------------------------------------------------------------
(***************************************************************************)
(* Packet.from: a datagram begins with the name of its type, and the first *)
(* branch whose tag it begins with decides.                                *)
(***************************************************************************)
Branches == << "DMRC", "DMRP", "DMRD", "RPTL", "RPTC", "RPTCL", "MSTCL",
               "MSTACK", "MSTNAK", "MSTPING", "RPTPONG" >>

Types == {Branches[i] : i \in DOMAIN Branches} \cup {"RPTK"}

BeginsWith(type, tag) == type = tag \/ << type, tag >> = << "RPTCL", "RPTC" >>

\* the type of the class a datagram is read as; "none" for null
TypeReadAs(type) ==
  LET taken == {i \in DOMAIN Branches : BeginsWith(type, Branches[i])}
  IN  IF taken = {} THEN "none" ELSE Branches[CHOOSE i \in taken : \A j \in taken : i <= j]

(* Octets of the body each class demands, if it does. *)
BodyOctets == [DMRC |-> 111, DMRD |-> 51, RPTC |-> 294]

\* mutant of ControlFrom: the length is not looked at
ControlFromAnyLength(type, octets) == TypeReadAs(type)

(* The octets behind tag and repeater id, as the class reading them counts; *)
(* they are below zero if the datagram ends within the repeater id, which  *)
(* is read last and unchecked: readUInt32BE throws.                        *)
ControlFrom(type, octets) ==
  LET class  == TypeReadAs(type)
      beyond == IF << type, class >> = << "RPTCL", "RPTC" >> THEN 1 ELSE 0
  IN  CASE class = "none" -> "none"
        [] class \in DOMAIN BodyOctets ->
             IF octets + beyond = BodyOctets[class] THEN class ELSE "none"
        [] OTHER -> IF octets < 0 THEN "throws" ELSE class
=============================================================================
