--------------------------- MODULE UDPCompression ---------------------------
(***************************************************************************)
(* Header compression of UDP datagrams (IPUDPPacket, Motorola/Network): in *)
(* place of addresses and ports a compressed datagram carries the ids of   *)
(* well-known networks and ports; another port follows the header inline.  *)
(*                                                                         *)
(* A 16-bit field is the pair of its octets, a buffer the sequence of      *)
(* them; the addresses' low 24 bits travel as radio ids of the carrying    *)
(* packet and are not in the buffer.                                       *)
(***************************************************************************)
EXTENDS Integers, Sequences

CONSTANTS Null, Throws \* decompression returns null, or a read throws RangeError

Octet == 0..255

Datagrams == [ident : Octet \X Octet, src_net : Octet, dst_net : Octet,
              src_port : Octet \X Octet, dst_port : Octet \X Octet, payload : Seq(Octet)]

ASSUME OutcomesAssumption ==
  /\ Null # Throws
  /\ {Null, Throws} \cap (Octet \cup (Octet \X Octet) \cup Datagrams) = {}

-----------------------------------------------------------------------------
(***************************************************************************)
(* Motorola/Network: 12, 13 and 225 are the radio, server and group        *)
(* networks; 4001, 4005, 4007 and 4008 the ports of LRRP, ARS, TMS, TLM.   *)
(***************************************************************************)
AddressID == [n \in {12, 13, 225} |-> CASE n = 12 -> 0 [] n = 13 -> 1 [] n = 225 -> 2]

PortID == [p \in {<<15, 161>>, <<15, 165>>, <<15, 167>>, <<15, 168>>} |->
             CASE p[2] = 161 -> 1 [] p[2] = 165 -> 3 [] p[2] = 167 -> 4 [] p[2] = 168 -> 5]

NewConstant == 94

\* the first octet of the addresses with that id, Null for the id of no network
AddressID2Network(id) ==
  IF \E n \in DOMAIN AddressID : AddressID[n] = id
  THEN CHOOSE n \in DOMAIN AddressID : AddressID[n] = id
  ELSE Null

\* null << 4 is 0, the id of the radio network
Network2AddressID(n) == IF n \in DOMAIN AddressID THEN AddressID[n] ELSE 0

Shift(isNew) == IF isNew THEN NewConstant ELSE 0

\* mutant of PortID2Port: the offset of the newer radios is forgotten
PortID2PortUnshifted(id, isNew) ==
  IF \E p \in DOMAIN PortID : PortID[p] = id
  THEN CHOOSE p \in DOMAIN PortID : PortID[p] = id
  ELSE Null

PortID2Port(id, isNew) ==
  IF \E p \in DOMAIN PortID : PortID[p] = id - Shift(isNew)
  THEN CHOOSE p \in DOMAIN PortID : PortID[p] = id - Shift(isNew)
  ELSE Null

\* id 0: the port is carried inline
Port2PortID(p, isNew) == IF p \in DOMAIN PortID THEN PortID[p] + Shift(isNew) ELSE 0

-----------------------------------------------------------------------------
Nibbles(high, low) == 16 * high + low

Inline(id, p) == IF id = 0 THEN p ELSE <<>>

\* what follows the header
Body(p, spid, dpid) == Inline(spid, p.src_port) \o Inline(dpid, p.dst_port) \o p.payload

Addresses(p) == Nibbles(Network2AddressID(p.src_net), Network2AddressID(p.dst_net))

GetCompressedUDPAdvantageWL(p) ==
  LET spid == Port2PortID(p.src_port, FALSE)
      dpid == Port2PortID(p.dst_port, FALSE)
  IN  <<Addresses(p), Nibbles(spid, dpid)>> \o p.ident \o Body(p, spid, dpid)

GetCompressedUDPDMRStandart(p) ==
  LET spid == Port2PortID(p.src_port, TRUE)
      dpid == Port2PortID(p.dst_port, TRUE)
  IN  p.ident \o <<Addresses(p), spid, dpid>> \o Body(p, spid, dpid)

-----------------------------------------------------------------------------
\* readUInt16BE of the octets after the header
ReadUInt16(body, offset) ==
  IF offset + 2 <= Len(body) THEN SubSeq(body, offset + 1, offset + 2) ELSE Throws

SourcePort(body, spid, isNew) ==
  IF spid = 0 THEN ReadUInt16(body, 0) ELSE PortID2Port(spid, isNew)

\* as in the code, which looks past the source port exactly when it is absent
DestinationOffset(spid) == IF spid = 0 THEN 0 ELSE 2

DestinationPort(body, spid, dpid, isNew) ==
  IF dpid = 0 THEN ReadUInt16(body, DestinationOffset(spid)) ELSE PortID2Port(dpid, isNew)

\* mutant of DataOffset: one inline port at most is skipped
DataOffsetOnce(spid, dpid) == IF 0 \in {spid, dpid} THEN 2 ELSE 0

DataOffset(spid, dpid) == (IF spid = 0 THEN 2 ELSE 0) + (IF dpid = 0 THEN 2 ELSE 0)

\* what both decompressions do once the header is read
FromCompressed(ident, addresses, spid, dpid, body, isNew) ==
  LET src == AddressID2Network(addresses \div 16)
      dst == AddressID2Network(addresses % 16)
      ports == <<SourcePort(body, spid, isNew), DestinationPort(body, spid, dpid, isNew)>>
  IN  CASE Null \in {src, dst} -> Null
        [] Null \notin {src, dst} /\ Throws \in {ports[1], ports[2]} -> Throws
        [] OTHER -> [ident |-> ident, src_net |-> src, dst_net |-> dst,
                     src_port |-> ports[1], dst_port |-> ports[2],
                     payload |-> SubSeq(body, DataOffset(spid, dpid) + 1, Len(body))]

FromCompressedUDPAdvantageWL(w) ==
  FromCompressed(SubSeq(w, 3, 4), w[1], w[2] \div 16, w[2] % 16,
                 SubSeq(w, 5, Len(w)), FALSE)

\* the ids' top bits are 0 here: what else throws cannot have been sent by us
FromCompressedUDPDMRStandart(w) ==
  FromCompressed(SubSeq(w, 1, 2), w[3], w[4] % 128, w[5] % 128,
                 SubSeq(w, 6, Len(w)), TRUE)

-----------------------------------------------------------------------------
(* WLIPGateway.sendIPPacket picks the compression by its options, *)
Compress(format, p) ==
  IF format = "advantage" THEN GetCompressedUDPAdvantageWL(p) ELSE GetCompressedUDPDMRStandart(p)

(* and onWLPacket by the header of the packet. *)
Decompress(format, w) ==
  IF format = "advantage" THEN FromCompressedUDPAdvantageWL(w) ELSE FromCompressedUDPDMRStandart(w)
=============================================================================
