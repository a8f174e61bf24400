----------------------------- MODULE AMBECodec -----------------------------
(***************************************************************************)
(* Vocoder frames: the 49 bits of an AMBE 3600x2450 frame and the 72 bits  *)
(* a burst carries, Encoders/AMBE.js.  Both are sets of the places of      *)
(* their ones; so is ambe_fr, the four words in between, a place in which  *)
(* is <<word, bit>>.                                                       *)
(*                                                                         *)
(* The first two words are Golay codewords when sent; the receiver drops   *)
(* their checks without using them.                                        *)
(***************************************************************************)
EXTENDS Integers, Sequences

RawBits == 49
AirBits == 72

(* The word and bit of every even place of the 72, and of every odd one. *)
rW == << 0,1,0,1,0,1, 0,1,0,1,0,1, 0,1,0,1,0,1, 0,1,0,1,0,2, 0,2,0,2,0,2, 0,2,0,2,0,2 >>
rX == << 23,10,22,9,21,8, 20,7,19,6,18,5, 17,4,16,3,15,2, 14,1,13,0,12,10, 11,9,10,8,9,7, 8,6,7,5,6,4 >>
rY == << 0,2,0,2,0,2, 0,2,0,3,0,3, 1,3,1,3,1,3, 1,3,1,3,1,3, 1,3,1,3,1,3, 1,3,1,3,1,3 >>
rZ == << 5,3,4,2,3,1, 2,0,1,13,0,12, 22,11,21,10,20,9, 19,8,18,7,17,6, 16,5,15,4,14,3, 13,2,12,1,11,0 >>

PlaceOf(b) ==
  LET i == (b \div 2) + 1 IN IF b % 2 = 0 THEN << rW[i], rX[i] >> ELSE << rY[i], rZ[i] >>

DeinterleaveAmbe(air) == {PlaceOf(b) : b \in air}
InterleaveAmbe(frame) == {b \in 0..AirBits-1 : PlaceOf(b) \in frame}

-----------------------------------------------------------------------------
BitSum(p, q) == (p \ q) \cup (q \ p)

(* Twelve steps of the shift register; its 11 bits go on top of the 12 of c. *)
GolayPoly == {11, 9, 7, 6, 5, 1, 0}
Golay2312(c) ==
  LET after[i \in 0..12] ==
        IF i = 0 THEN c
        ELSE LET cw == after[i - 1]
             IN  {b - 1 : b \in (IF 0 \in cw THEN BitSum(cw, GolayPoly) ELSE cw) \ {0}}
  IN  c \cup {b + 12 : b \in after[12]}

(* Where bit n of the 49 is put. *)
WordPlace(n) ==
  CASE n < 12         -> << 0, 23 - n >>
    [] n \in 12..23   -> << 1, 34 - n >>
    [] n \in 24..34   -> << 2, 34 - n >>
    [] OTHER          -> << 3, 48 - n >>

(* An even parity bit goes with the first word only. *)
Convert49BitAmbeTo72BitFrames(raw) ==
  LET word0  == Golay2312(raw \cap (0..11))
      word1  == Golay2312({n - 12 : n \in raw \cap (12..23)})
      parity == LET odd[b \in 0..23] == IF b = 0 THEN FALSE ELSE odd[b - 1] # (b - 1 \in word0)
                IN  odd[23]
  IN  {<< 0, 23 - b >> : b \in word0} \cup (IF parity THEN {<< 0, 0 >>} ELSE {})
        \cup {<< 1, 22 - b >> : b \in word1}
        \cup {WordPlace(n) : n \in raw \cap (24..48)}

(***************************************************************************)
(* The second word is scrambled by a pseudo-random sequence of 23 bits     *)
(* that starts from the data of the first, its bits in reverse.            *)
(***************************************************************************)
Demodulate(frame) ==
  LET foo == LET f[i \in 11..23] == IF i = 11 THEN 0
                                    ELSE f[i - 1] + (IF << 0, i >> \in frame THEN 2^(i - 12) ELSE 0)
             IN  f[23]
      scrambled ==
        LET after[k \in 0..23] ==
              IF k = 0 THEN [pr |-> 16 * foo, ones |-> {}]
              ELSE LET before == after[k - 1]
                       pr     == (173 * before.pr + 13849) % 65536
                   IN  [pr |-> pr, ones |-> IF pr >= 32768 THEN before.ones \cup {<< 1, 23 - k >>}
                                                           ELSE before.ones]
        IN  after[23].ones
  IN  BitSum(frame, scrambled)

\* mutant of EccData: the data of the second word is read from its other end
EccDataChecks(frame) ==
  {n \in 0..RawBits-1 :
     (IF n \in 12..23 THEN << 1, n - 12 >> ELSE WordPlace(n)) \in frame}

\* eccAmbe3600x2450Data, which takes the data bits as they are
EccData(frame) == {n \in 0..RawBits-1 : WordPlace(n) \in frame}

Convert72BitTo49BitAMBE(air) == EccData(Demodulate(DeinterleaveAmbe(air)))
Convert49BitTo72BitAMBE(raw) == InterleaveAmbe(Demodulate(Convert49BitAmbeTo72BitFrames(raw)))
=============================================================================
