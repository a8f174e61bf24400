----------------------------- MODULE DMRPackets -----------------------------
(***************************************************************************)
(* The protocol data units of DMR: the classes of src/DMR, the layout of   *)
(* their fields, their checksums and the dispatch of Packet.from.          *)
(*                                                                         *)
(* A block is the set of the places of its ones, the first bit of its      *)
(* first octet being place 0; a field is the set of the weights of its     *)
(* ones; a packet is its class and the values of its fields (link control  *)
(* included).  Every block of these classes comes from the rate 1/2 code   *)
(* with 96 bits, so that the tests of its length hold.                     *)
(***************************************************************************)
EXTENDS RS129, Checksums

BlockBits == 96

(* The places of a range, moved back to 0. *)
Cut(places, first, count) == {p - first : p \in {q \in places : q >= first /\ q < first + count}}

(* The number of a field of at most 8 bits. *)
Value(bits) ==
  LET upTo[n \in 0..8] == IF n = 0 THEN 0 ELSE upTo[n - 1] + (IF n - 1 \in bits THEN 2^(n - 1) ELSE 0)
  IN  upTo[8]

-----------------------------------------------------------------------------
(***************************************************************************)
(* A row: a field (or part of it), its lowest weight and its width, the    *)
(* place `from' reads it at and the place getBuffer writes it to.          *)
(***************************************************************************)
Ids(read, written) == { << "dst_id", 0, 24, read, written >>, << "src_id", 0, 24, read + 24, written + 24 >> }

LinkControl ==
  { << "protectFlag", 0, 1, 0, 0 >>, << "flco", 0, 6, 2, 2 >>, << "fid", 0, 8, 8, 8 >>,
    << "serviceOptions", 0, 8, 16, 16 >> } \cup Ids(24, 24)

PIHeader ==
  { << "dstIsGroup", 0, 1, 2, 2 >>, << "algId", 0, 3, 5, 5 >>, << "mfId", 0, 8, 8, 8 >>,
    << "keyId", 0, 8, 16, 16 >>, << "iv", 0, 32, 24, 24 >>, << "dst_id", 0, 24, 56, 56 >> }

DataHeader == { << "DPF", 0, 4, 4, 4 >> }

Unified ==
  { << "dstIsGroup", 0, 1, 0, 0 >>, << "responseRequested", 0, 1, 1, 1 >>,
    << "contentType", 0, 4, 8, 8 >>, << "dataFormat", 0, 4, 12, 12 >>,
    << "padNibbles", 0, 5, 64, 64 >>, << "appendedBlocks", 0, 2, 70, 70 >>,
    << "supplementaryFlag", 0, 1, 72, 72 >>, << "protectFlag", 0, 1, 73, 73 >>,
    << "unifiedOpcode", 0, 6, 74, 74 >> } \cup Ids(16, 16) \cup DataHeader

Response ==
  { << "dstIsGroup", 0, 1, 0, 0 >>, << "responseRequested", 0, 1, 1, 1 >>,
    << "serviceAccessPoint", 0, 4, 8, 8 >>, << "blocksToFollow", 0, 7, 65, 65 >>,
    << "type", 0, 3, 74, 74 >>, << "sendSequenceNumber", 0, 3, 77, 77 >> } \cup Ids(16, 16) \cup DataHeader

\* mutant of Unconfirmed: the fifth bit of the pad count is read from beside the others
UnconfirmedPadBits ==
  { << "dstIsGroup", 0, 1, 0, 0 >>, << "responseRequested", 0, 1, 1, 1 >>,
    << "headerCompression", 0, 1, 2, 2 >>,
    << "padOctetCount", 4, 1, 11, 3 >>, << "padOctetCount", 0, 4, 12, 12 >>,
    << "serviceAccessPoint", 0, 4, 8, 8 >>,
    << "fullMessage", 0, 1, 64, 64 >>, << "blocksToFollow", 0, 7, 65, 65 >>,
    << "fragmentSequenceNumber", 0, 4, 76, 76 >> } \cup Ids(16, 16) \cup DataHeader

Unconfirmed ==
  { << "dstIsGroup", 0, 1, 0, 0 >>, << "responseRequested", 0, 1, 1, 1 >>,
    << "headerCompression", 0, 1, 2, 2 >>,
    << "padOctetCount", 4, 1, 3, 3 >>, << "padOctetCount", 0, 4, 12, 12 >>,
    << "serviceAccessPoint", 0, 4, 8, 8 >>,
    << "fullMessage", 0, 1, 64, 64 >>, << "blocksToFollow", 0, 7, 65, 65 >>,
    << "fragmentSequenceNumber", 0, 4, 76, 76 >> } \cup Ids(16, 16) \cup DataHeader

Confirmed ==
  Unconfirmed \cup
  { << "resynchronizeFlag", 0, 1, 72, 72 >>, << "sendSequenceNumber", 0, 3, 73, 73 >> }

Proprietary ==
  { << "serviceAccessPoint", 0, 4, 0, 0 >>, << "mfId", 0, 8, 8, 8 >>, << "opcode", 0, 4, 20, 20 >> } \cup DataHeader

\* the payload is read over other fields, and not written
NotWritten == -1
ProprietaryCompressed ==
  { << "reserved", 0, 4, 24, 24 >>, << "SAID", 0, 2, 28, 28 >>, << "DAID", 0, 2, 30, 30 >>,
    << "SPID", 0, 4, 32, 32 >>, << "DPID", 0, 4, 36, 36 >>, << "ipIdent", 0, 16, 40, 40 >>,
    << "payload", 0, 32, 24, NotWritten >>, << "userData", 0, 24, 56, 56 >> } \cup Proprietary

CSBK ==
  { << "isLast", 0, 1, 0, 0 >>, << "PF", 0, 1, 1, 1 >>, << "opcode", 0, 6, 2, 2 >>, << "mfId", 0, 8, 8, 8 >> }
PreCSBK ==
  { << "dataNext", 0, 1, 16, 16 >>, << "dstIsGroup", 0, 1, 17, 17 >>,
    << "blocksToFollow", 0, 8, 24, 24 >> } \cup Ids(32, 32) \cup CSBK
CallAlertACK ==
  { << "bit0", 0, 1, 16, 16 >>, << "serviceOpcode", 0, 6, 18, 18 >> } \cup Ids(32, 32) \cup CSBK
CallEmergency == { << "EASN", 0, 4, 20, 20 >> } \cup Ids(32, 32) \cup CSBK
CSBKRaw == { << "data", 0, 64, 16, 16 >> } \cup CSBK

LayoutOf(class) ==
  CASE class \in {"VoiceHeader", "VoiceTerminator"} -> LinkControl
    [] class = "PIHeader"              -> PIHeader
    [] class = "Unified"               -> Unified
    [] class = "Response"              -> Response
    [] class = "Unconfirmed"           -> Unconfirmed
    [] class = "Confirmed"             -> Confirmed
    [] class = "ProprietaryCompressed" -> ProprietaryCompressed
    [] class = "PreCSBK"               -> PreCSBK
    [] class = "CallAlertACK"          -> CallAlertACK
    [] class = "CallEmergency"         -> CallEmergency
    [] class = "CSBKRaw"               -> CSBKRaw

-----------------------------------------------------------------------------
ReadField(layout, block, field) ==
  UNION {{row[2] + k : k \in {j \in 0..row[3]-1 : row[4] + row[3] - 1 - j \in block}} :
           row \in {r \in layout : r[1] = field}}

ReadFields(layout, block) ==
  [field \in {row[1] : row \in layout} |-> ReadField(layout, block, field)]

WriteFields(layout, fields) ==
  UNION {{row[5] + row[3] - 1 - (k - row[2]) : k \in fields[row[1]] \cap (row[2]..row[2]+row[3]-1)} :
           row \in {r \in layout : r[5] # NotWritten}}

(* Unified.from takes the block count for 3 whenever its octet is not 0. *)
ReadUnified(block) ==
  [ReadFields(Unified, block) EXCEPT
     !["appendedBlocks"] = IF block \cap (64..71) = {} THEN {} ELSE {0, 1}]

-----------------------------------------------------------------------------
(* What the check bits are masked with, by the data type of the burst. *)
CrcMask(dataType) ==
  CASE dataType = 0 -> {14, 13, 11, 8, 6, 5, 3, 0}       \* PIHeader: 6969
    [] dataType = 3 -> {15, 13, 10, 8, 7, 5, 2, 0}       \* CSBK: A5A5
    [] dataType = 6 -> {15, 14, 11, 10, 7, 6, 3, 2}      \* DataHeader: CCCC

Crc(block, dataType) ==
  {BlockBits - 1 - b : b \in Sum2(CRC16Compute(10, block \cap (0..79)), CrcMask(dataType))}

\* mutant of CrcOk: one octet of the checksum is compared
CrcOkOneOctet(block, dataType) == block \cap (88..95) = Crc(block, dataType) \cap (88..95)

CrcOk(block, dataType) == block \cap (80..95) = Crc(block, dataType)

(* The octets of a voice header or terminator, the last three of them masked. *)
VoiceHeaderMask == {7, 4, 2, 1}       \* 96 in each octet
VoiceTerminatorMask == {7, 4, 3, 0}   \* 99 in each octet
VoiceMask(dataType) == IF dataType = 1 THEN VoiceHeaderMask ELSE VoiceTerminatorMask

VoiceOctets(block, dataType) ==
  [i \in 0..BlockSize-1 |->
     LET octet == {7 - k : k \in {j \in 0..7 : 8 * i + j \in block}}
     IN  Value(IF i < DataSize THEN octet ELSE Sum2(octet, VoiceMask(dataType)))]

(* Correctable as far as RS129.correct can tell. *)
VoiceOk(block, dataType) ==
  LET octets   == VoiceOctets(block, dataType)
      syndrome == CalcSyndrome(octets)
  IN  CheckSyndrome(syndrome) => RSCorrect(octets, syndrome).blocks # << >>

VoiceParity(block, dataType) ==
  LET octets   == VoiceOctets(block, dataType)
      checksum == CalcChecksum(octets)
      Bits(i)  == {b \in 0..7 : (checksum[i] \div 2^b) % 2 = 1}
  IN  UNION {{8 * (DataSize + i) - 1 - b : b \in Sum2(Bits(i), VoiceMask(dataType))} : i \in 1..3}

-----------------------------------------------------------------------------
CSBKClass(block) ==
  LET opcode == Value(ReadField(CSBK, block, "opcode"))
  IN  CASE opcode = 61 -> "PreCSBK"
        [] opcode = 32 -> "CallAlertACK"
        [] opcode = 39 -> "CallEmergency"
        [] OTHER       -> "CSBKRaw"

ProprietaryClass(block) ==
  LET fields == ReadFields(Proprietary, block)
  IN  IF Value(fields.mfId) = 16 /\ Value(fields.opcode) = 2 THEN "ProprietaryCompressed" ELSE "none"

DataHeaderClass(block) ==
  LET DPF == Value(ReadField(DataHeader, block, "DPF"))
  IN  CASE DPF = 0  -> "Unified"
        [] DPF = 1  -> "Response"
        [] DPF = 2  -> "Unconfirmed"
        [] DPF = 3  -> "Confirmed"
        [] DPF = 15 -> ProprietaryClass(block)
        [] OTHER    -> "none"

(* The class a block of the data type is read as; "none" for null. *)
ClassOf(block, dataType) ==
  CASE dataType = 0 -> "PIHeader"
    [] dataType = 1 -> "VoiceHeader"
    [] dataType = 2 -> "VoiceTerminator"
    [] dataType = 3 -> CSBKClass(block)
    [] dataType = 6 -> DataHeaderClass(block)
    [] OTHER        -> "Raw"

RawFields(block) == [data |-> block]

Intact(block, dataType) ==
  CASE dataType \in {1, 2}    -> VoiceOk(block, dataType)
    [] dataType \in {0, 3, 6} -> CrcOk(block, dataType)
    [] OTHER                  -> TRUE

(* Packet.from: a sequence of the packet, or empty for null. *)
PacketFrom(block, dataType) ==
  LET class == ClassOf(block, dataType)
      fields == CASE class = "Raw"     -> RawFields(block)
                  [] class = "Unified" -> ReadUnified(block)
                  [] OTHER             -> ReadFields(LayoutOf(class), block)
  IN  IF class = "none" \/ ~Intact(block, dataType) THEN << >>
      ELSE << [dataType |-> dataType, class |-> class, fields |-> fields] >>

(* getBuffer of the packet's class. *)
PacketBuffer(packet) ==
  LET dataType == packet.dataType
      written  == WriteFields(LayoutOf(packet.class), packet.fields)
  IN  CASE packet.class = "Raw"      -> packet.fields.data
        [] dataType \in {1, 2}       -> written \cup VoiceParity(written, dataType)
        [] OTHER                     -> written \cup Crc(written, dataType)
-----------------------------------------------------------------------------
(***************************************************************************)
(* What DataBlock checks of the blocks it collects: the 9-bit checksum of a*)
(* confirmed block, which covers its serial number, and the 32-bit one of  *)
(* the datagram, at its end with the lowest octet first.                   *)
(***************************************************************************)
BlockAccepted(data) ==
  LET serial == {b \in 0..6 : 6 - b \in data}
      crc    == {b \in 0..8 : 15 - b \in data}
  IN  crc = (0..8) \ CRC9Compute(16, Cut(data, 16, 128), serial)

PartSize == 12
CrcSize == 4
CrcBits(octets, crc) == {8 * (octets - CrcSize + (b \div 8)) + 7 - (b % 8) : b \in crc}

(* The blocks of a datagram, one behind the other, and the count of pad octets. *)
CreateDataBlock(octets, payload) ==
  LET length == PartSize * ((octets + CrcSize + PartSize - 1) \div PartSize)
  IN  [octets |-> length, pad |-> length - octets - CrcSize,
       bits   |-> payload \cup CrcBits(length, CRC32Compute(length - CrcSize, payload))]

(* With a second header its first 4 octets are cut off, and the checksum   *)
(* leaves out an octet.  A sequence of the payload, or empty for null.     *)
GetBuffer(octets, bits, pad, second) ==
  LET start == IF second THEN 4 ELSE 0
      end   == octets - CrcSize - (IF second THEN 1 ELSE 0)
      crc   == CRC32Compute(end, Cut(bits, 0, 8 * end))
  IN  IF bits \cap CrcBits(octets, 0..31) # CrcBits(octets, crc) THEN << >>
      ELSE << Cut(bits, 8 * start, 8 * (octets - CrcSize - pad - start)) >>
=============================================================================
