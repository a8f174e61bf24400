----------------------------- MODULE BPTC19696 -----------------------------
(***************************************************************************)
(* The block product turbo code (196,96) that carries the 96 bits of a     *)
(* rate 1/2 block, a header or a CSBK: Encoders/BPTC19696.js and the two   *)
(* Hamming codes of Encoders/Hamming.js it is built from.  The code keeps  *)
(* arrays of booleans; here a word is the set of the positions of its ones.*)
(***************************************************************************)
EXTENDS Integers, Sequences, FiniteSets

Bits == 196
DataBits == 96
MaxSweeps == 5

Odd(S) == Cardinality(S) % 2 = 1
Inverted(word, at) == (word \ at) \cup (at \ word)
Bit(b) == IF b THEN 1 ELSE 0

(***************************************************************************)
(* A Hamming code: the positions each parity bit sums up, the position of  *)
(* the first parity bit, and the position the decoder inverts for each     *)
(* syndrome (None where its switch has no case).                           *)
(***************************************************************************)
None == -1
Hamming1393 ==
  [checks |-> << {0,1,3,5,6}, {0,1,2,4,6,7}, {0,1,2,3,5,7,8}, {0,2,4,5,8} >>,
   parity |-> 9,
   cases  |-> << 9, 10, 6, 11, 3, 7, 1, 12, None, 4, None, 8, 5, 2, 0 >>]
Hamming15113 ==
  [checks |-> << {0,1,2,3,5,7,8}, {1,2,3,4,6,8,9}, {2,3,4,5,7,9,10}, {0,1,2,4,6,7,10} >>,
   parity |-> 11,
   cases  |-> << 11, 12, 8, 13, 5, 9, 3, 14, 0, 6, 1, 10, 7, 4, 2 >>]

(* A line of the matrix: from positions in the Hamming word to positions in the block. *)
Column(c) == [i \in 0..12 |-> 15 * i + c + 1]
Row(r)    == [i \in 0..14 |-> 15 * r + i + 1]
Columns   == {Column(c) : c \in 0..14}
Rows      == {Row(r) : r \in 0..8}

Checksum(d, line, checks) == Odd({i \in checks : line[i] \in d})

SyndromeOf(d, code, line) ==
  LET Wrong(c) == Bit(Checksum(d, line, code.checks[c]) # (line[code.parity + c - 1] \in d))
  IN  Wrong(1) + 2 * Wrong(2) + 4 * Wrong(3) + 8 * Wrong(4)

(***************************************************************************)
(* What the decoder inverts and the encoder sets, over several lines.  The *)
(* code goes through the columns, or the rows, one after the other; they   *)
(* have no bit in common, so the order does not matter.                    *)
(***************************************************************************)
HammingErrors(d, code, lines) ==
  LET Damaged(line) == LET n == SyndromeOf(d, code, line) IN n > 0 /\ code.cases[n] # None
  IN  {line[code.cases[SyndromeOf(d, code, line)]] : line \in {l \in lines : Damaged(l)}}

HammingParity(d, code, lines) ==
  UNION {{line[code.parity + c - 1] : c \in {k \in 1..4 : Checksum(d, line, code.checks[k])}}
           : line \in lines}

-----------------------------------------------------------------------------
(* Transmitted bit (a * 181) % 196 is bit a of the matrix. *)
Interleaved(a) == (a * 181) % Bits

DecodeDeInterleave(block) ==
  LET received == block \cup {0}
  IN  {a \in 0..Bits-1 : Interleaved(a) \in received}
EncodeInterleave(d) == {Interleaved(a) : a \in d}

(* The position in the matrix of data bit p: 8 bits in the first row, 11 in the others. *)
DataPosition(p) ==
  IF p < 8 THEN p + 4 ELSE 15 * ((p - 8) \div 11) + ((p - 8) % 11) + 16

DecodeExtractData(d) == {p \in 0..DataBits-1 : DataPosition(p) \in d}
EncodeExtractData(data) == {DataPosition(p) : p \in data}

(* One round of the decoder: every column, then the nine rows with data. *)
Sweep(word) ==
  LET inColumns == HammingErrors(word, Hamming1393, Columns)
      columnsOk == Inverted(word, inColumns)
      inRows    == HammingErrors(columnsOk, Hamming15113, Rows)
  IN  [word |-> Inverted(columnsOk, inRows), fixing |-> inColumns \cup inRows # {}]

(* Rounds until one has nothing to invert, at most MaxSweeps of them. *)
DecodeErrorCheck(word) ==
  LET round[count \in 1..MaxSweeps] ==
        IF count = 1 THEN Sweep(word)
        ELSE LET before == round[count - 1]
             IN  IF before.fixing THEN Sweep(before.word) ELSE before
  IN  round[MaxSweeps].word

EncodeErrorCheck(d) ==
  LET withRows == d \cup HammingParity(d, Hamming15113, Rows)
  IN  withRows \cup HammingParity(withRows, Hamming1393, Columns)

BPTCDecode(block) == DecodeExtractData(DecodeErrorCheck(DecodeDeInterleave(block)))
BPTCEncode(data) == EncodeInterleave(EncodeErrorCheck(EncodeExtractData(data)))
=============================================================================
