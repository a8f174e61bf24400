---------------------------- MODULE CyclicCodes ----------------------------
(***************************************************************************)
(* The Golay code (20,8) of the slot type and the quadratic residue code   *)
(* (16,7) of embedded signalling: Encoders/Golay2087.js, QR1676.js.  Both  *)
(* are systematic cyclic codes of 19 and 15 bits with a parity bit behind, *)
(* which the decoders shift out.                                           *)
(*                                                                         *)
(* A word is the set of its ones, bit 0 the lowest.  Of the tables the     *)
(* model keeps what they hold: each encoding table the codewords of the    *)
(* generator polynomial, each decoding table one of the lightest error     *)
(* patterns of each syndrome.                                              *)
(***************************************************************************)
EXTENDS Integers, FiniteSets

Golay2087 == [bits |-> 19, checks |-> 11, generator |-> {11, 10, 6, 5, 4, 2, 0}, radius |-> 3]
QR1676    == [bits |-> 15, checks |-> 8,  generator |-> {8, 5, 4, 3, 0},         radius |-> 2]

Shifted(word, n) == {b + n : b \in word}

(* Addition of words, bit by bit. *)
Plus(p, q) == (p \ q) \cup (q \ p)

(* The remainder of the division by the generator, highest power first. *)
Syndrome(code, pattern) ==
  LET remainder[top \in code.checks..code.bits] ==
        IF top = code.bits THEN pattern
        ELSE LET p == remainder[top + 1]
             IN  IF top \in p THEN Plus(p, Shifted(code.generator, top - code.checks)) ELSE p
  IN  remainder[code.checks]

(* The codeword of the value, its data on top. *)
CodeWord(code, value) ==
  LET data == Shifted(value, code.checks)
  IN  data \cup Syndrome(code, data)

(* What is sent: the codeword and an even parity bit behind it. *)
CyclicEncode(code, value) ==
  LET word == CodeWord(code, value)
  IN  Shifted(word, 1) \cup (IF Cardinality(word) % 2 = 1 THEN {0} ELSE {})

-----------------------------------------------------------------------------
(* All patterns of at most radius errors. *)
Patterns(code) == {{}} \cup {{at[k] : k \in DOMAIN at} : at \in [1..code.radius -> 0..(code.bits - 1)]}

(* The part of the decoding table they make up: one pattern for each syndrome. *)
TableOf(code) == {[syndrome |-> Syndrome(code, p), pattern |-> p] : p \in Patterns(code)}
GolayTable == TableOf(Golay2087)
QRTable    == TableOf(QR1676)

(***************************************************************************)
(* A syndrome of none of these patterns has heavier ones, of which the     *)
(* table holds some one, or none: what the decoder then returns is left    *)
(* open (Undecided).                                                       *)
(***************************************************************************)
Undecided == {-1}

CyclicDecode(code, table, received) ==
  LET word == {b - 1 : b \in received \ {0}}
      s    == Syndrome(code, word)
      rows == {row \in table : row.syndrome = s}
      Corrected(error) ==
        {b - code.checks : b \in {c \in Plus(word, error) : c >= code.checks}}
  IN  IF rows = {} THEN Undecided ELSE Corrected((CHOOSE row \in rows : TRUE).pattern)
=============================================================================
