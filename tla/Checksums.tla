----------------------------- MODULE Checksums -----------------------------
(***************************************************************************)
(* The cyclic redundancy checks of Encoders/CRC9.js, CRC16.js and CRC32.js.*)
(* A register is the set of the numbers of its ones, bit 0 the lowest; a   *)
(* message is the set of the places of its ones, in the order of           *)
(* transmission.  All three shift the message in at the bottom and end     *)
(* with as many zeros as the register has bits.                            *)
(***************************************************************************)
EXTENDS Integers

CRC9  == [bits |-> 9,  poly |-> {6, 4, 3, 0}]
CRC16 == [bits |-> 16, poly |-> {12, 5, 0}]
CRC32 == [bits |-> 32, poly |-> {26, 23, 22, 16, 12, 11, 10, 8, 7, 5, 4, 2, 1, 0}]

\* exclusive or
Sum2(p, q) == (p \ q) \cup (q \ p)

ShiftIn(code, register, one) ==
  LET moved == {b + 1 : b \in register \ {code.bits - 1}} \cup (IF one THEN {0} ELSE {})
  IN  IF code.bits - 1 \in register THEN Sum2(moved, code.poly) ELSE moved

(* The register behind the message; the first half of it goes in first. *)
Register(code, length, message) ==
  LET after[first, count \in 0..length, register \in SUBSET (0..code.bits-1)] ==
        CASE count = 0 -> register
          [] count = 1 -> ShiftIn(code, register, first \in message)
          [] OTHER     -> LET half == count \div 2
                          IN  after[first + half, count - half, after[first, half, register]]
  IN  after[0, length, {}]

Remainder(code, length, message) == Register(code, length + code.bits, message)

-----------------------------------------------------------------------------
(* Octets, then the 7 bits of the serial number; inverted. *)
CRC9Compute(octets, message, serial) ==
  LET numbered == message \cup {8 * octets + 6 - b : b \in serial \cap (0..6)}
  IN  (0..8) \ Remainder(CRC9, 8 * octets + 7, numbered)

CRC16Compute(octets, message) == (0..15) \ Remainder(CRC16, 8 * octets, message)

(* The octets of each pair are taken in the other order, a missing one as  *)
(* 0; the mask keeps 32 bits.                                              *)
CRC32Compute(octets, message) ==
  LET even == octets + (octets % 2)
  IN  (0..31) \cap
        Remainder(CRC32, 8 * even, {IF p % 16 < 8 THEN p + 8 ELSE p - 8 : p \in message})
=============================================================================
