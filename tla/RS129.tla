------------------------------- MODULE RS129 -------------------------------
(***************************************************************************)
(* The Reed-Solomon code (12,9) over GF(256) that protects the link control*)
(* of voice headers and terminators: Encoders/RS129.js.  A block is a      *)
(* function on 0..11, a polynomial one on 0..5, both to octets.            *)
(***************************************************************************)
EXTENDS Integers, FiniteSets

DataSize == 9
ChecksumSize == 3
BlockSize == DataSize + ChecksumSize
PolyMaxDeg == 2 * ChecksumSize

(* Exclusive or of octets. *)
Xor(a, b) ==
  LET Bit(w) == w * (((a \div w) + (b \div w)) % 2)
  IN  Bit(1) + Bit(2) + Bit(4) + Bit(8) + Bit(16) + Bit(32) + Bit(64) + Bit(128)

(* The sum, in GF(256), of Term(0) to Term(n - 1). *)
XorSum(n, Term(_)) ==
  LET sum[k \in 0..n] == IF k = 0 THEN 0 ELSE Xor(sum[k - 1], Term(k - 1))
  IN  sum[n]

(* galois_exp_table from exponent 0, galois_log_table from 1 (the entry of 0 is never used). *)
ExpTable ==
  << 1, 2, 4, 8, 16, 32, 64, 128, 29, 58, 116, 232, 205, 135, 19, 38, 76, 152, 45, 90,
    180, 117, 234, 201, 143, 3, 6, 12, 24, 48, 96, 192, 157, 39, 78, 156, 37, 74, 148, 53,
    106, 212, 181, 119, 238, 193, 159, 35, 70, 140, 5, 10, 20, 40, 80, 160, 93, 186, 105, 210,
    185, 111, 222, 161, 95, 190, 97, 194, 153, 47, 94, 188, 101, 202, 137, 15, 30, 60, 120, 240,
    253, 231, 211, 187, 107, 214, 177, 127, 254, 225, 223, 163, 91, 182, 113, 226, 217, 175, 67, 134,
    17, 34, 68, 136, 13, 26, 52, 104, 208, 189, 103, 206, 129, 31, 62, 124, 248, 237, 199, 147,
    59, 118, 236, 197, 151, 51, 102, 204, 133, 23, 46, 92, 184, 109, 218, 169, 79, 158, 33, 66,
    132, 21, 42, 84, 168, 77, 154, 41, 82, 164, 85, 170, 73, 146, 57, 114, 228, 213, 183, 115,
    230, 209, 191, 99, 198, 145, 63, 126, 252, 229, 215, 179, 123, 246, 241, 255, 227, 219, 171, 75,
    150, 49, 98, 196, 149, 55, 110, 220, 165, 87, 174, 65, 130, 25, 50, 100, 200, 141, 7, 14,
    28, 56, 112, 224, 221, 167, 83, 166, 81, 162, 89, 178, 121, 242, 249, 239, 195, 155, 43, 86,
    172, 69, 138, 9, 18, 36, 72, 144, 61, 122, 244, 245, 247, 243, 251, 235, 203, 139, 11, 22,
    44, 88, 176, 125, 250, 233, 207, 131, 27, 54, 108, 216, 173, 71, 142 >>
LogTable ==
  << 0, 1, 25, 2, 50, 26, 198, 3, 223, 51, 238, 27, 104, 199, 75, 4, 100, 224, 14, 52,
    141, 239, 129, 28, 193, 105, 248, 200, 8, 76, 113, 5, 138, 101, 47, 225, 36, 15, 33, 53,
    147, 142, 218, 240, 18, 130, 69, 29, 181, 194, 125, 106, 39, 249, 185, 201, 154, 9, 120, 77,
    228, 114, 166, 6, 191, 139, 98, 102, 221, 48, 253, 226, 152, 37, 179, 16, 145, 34, 136, 54,
    208, 148, 206, 143, 150, 219, 189, 241, 210, 19, 92, 131, 56, 70, 64, 30, 66, 182, 163, 195,
    72, 126, 110, 107, 58, 40, 84, 250, 133, 186, 61, 202, 94, 155, 159, 10, 21, 121, 43, 78,
    212, 229, 172, 115, 243, 167, 87, 7, 112, 192, 247, 140, 128, 99, 13, 103, 74, 222, 237, 49,
    197, 254, 24, 227, 165, 153, 119, 38, 184, 180, 124, 17, 68, 146, 217, 35, 32, 137, 46, 55,
    63, 209, 91, 149, 188, 207, 205, 144, 135, 151, 178, 220, 252, 190, 97, 242, 86, 211, 171, 20,
    42, 93, 158, 132, 60, 57, 83, 71, 109, 65, 162, 31, 45, 67, 216, 183, 123, 164, 118, 196,
    23, 73, 236, 127, 12, 111, 246, 108, 161, 59, 82, 41, 157, 85, 170, 251, 96, 134, 177, 187,
    204, 62, 90, 203, 89, 95, 176, 156, 169, 160, 81, 11, 245, 22, 235, 122, 117, 44, 215, 79,
    174, 213, 233, 230, 231, 173, 232, 116, 214, 244, 234, 168, 80, 88, 175 >>

GaloisExp(i) == ExpTable[(i % 255) + 1]
GaloisInv(a) == IF a = 0 THEN 1 ELSE GaloisExp(255 - LogTable[a])
GaloisMul(a, b) == IF 0 \in {a, b} THEN 0 ELSE GaloisExp(LogTable[a] + LogTable[b])

-----------------------------------------------------------------------------
GenPoly == << 64, 56, 14 >>

(* The checksum of nine octets: the remainder by the generator polynomial. *)
CalcChecksum(data) ==
  LET after[i \in 0..DataSize] ==
        IF i = 0 THEN << 0, 0, 0 >>
        ELSE LET c == after[i - 1]
                 feedback == Xor(data[i - 1], c[1])
             IN  << Xor(c[2], GaloisMul(GenPoly[3], feedback)),
                    Xor(c[3], GaloisMul(GenPoly[2], feedback)),
                    GaloisMul(GenPoly[1], feedback) >>
  IN  after[DataSize]

RSEncode(data) ==
  [i \in 0..BlockSize-1 |-> IF i < DataSize THEN data[i] ELSE CalcChecksum(data)[i - DataSize + 1]]

(* The values at three powers of x; the rest of the array stays 0. *)
CalcSyndrome(block) ==
  LET Horner(j) ==
        LET s[i \in 0..BlockSize] ==
              IF i = 0 THEN 0 ELSE Xor(block[i - 1], GaloisMul(GaloisExp(j + 1), s[i - 1]))
        IN  s[BlockSize]
  IN  [j \in 0..PolyMaxDeg-1 |-> IF j < ChecksumSize THEN Horner(j) ELSE 0]

CheckSyndrome(syndrome) == \E j \in DOMAIN syndrome : syndrome[j] # 0

-----------------------------------------------------------------------------
CalcDiscrepancy(locator, syndrome, L, n) ==
  XorSum(L + 1, LAMBDA i : GaloisMul(locator[i], syndrome[n - i]))

MulPolyZ(poly) == [i \in 0..PolyMaxDeg-1 |-> IF i = 0 THEN 0 ELSE poly[i - 1]]

(* Step n of Berlekamp-Massey. *)
Step(m, syndrome, n) ==
  LET d        == CalcDiscrepancy(m.locator, syndrome, m.L, n)
      psi2     == [i \in 0..PolyMaxDeg-1 |-> Xor(m.locator[i], GaloisMul(d, m.D[i]))]
      longer   == d # 0 /\ m.L < n - m.k
      inverse  == [i \in 0..PolyMaxDeg-1 |-> GaloisMul(m.locator[i], GaloisInv(d))]
  IN  [locator |-> IF d = 0 THEN m.locator ELSE psi2,
       D       |-> MulPolyZ(IF longer THEN inverse ELSE m.D),
       L       |-> IF longer THEN n - m.k ELSE m.L,
       k       |-> IF longer THEN (n - m.L) % 256 ELSE m.k]

CalcLocator(syndrome) ==
  LET UnitPoly(deg) == [i \in 0..PolyMaxDeg-1 |-> IF i = deg THEN 1 ELSE 0]
      start == [locator |-> UnitPoly(0), D |-> UnitPoly(1), L |-> 0, k |-> -1]
      after[n \in 0..ChecksumSize] ==
        IF n = 0 THEN start ELSE Step(after[n - 1], syndrome, n - 1)
  IN  after[ChecksumSize].locator

(* The first terms of the product of locator and syndrome. *)
CalcErrorEvaluatorPoly(locator, syndrome) ==
  [m \in 0..PolyMaxDeg-1 |->
     IF m < ChecksumSize THEN XorSum(m + 1, LAMBDA i : GaloisMul(syndrome[m - i], locator[i])) ELSE 0]

FindRoots(locator) ==
  {(255 - r) % 256 : r \in
     {s \in 1..255 : XorSum(ChecksumSize + 1,
                            LAMBDA k : GaloisMul(GaloisExp(k * s), locator[k])) = 0}}

(* What the octet at root i is wrong by (Forney). *)
Magnitude(i, locator, evaluator) ==
  LET Power(j) == GaloisExp((255 - i) * j)
      num   == XorSum(PolyMaxDeg, LAMBDA j : GaloisMul(evaluator[j], Power(j)))
      denom == XorSum(ChecksumSize, LAMBDA h : GaloisMul(locator[2 * h + 1], Power(2 * h)))
  IN  GaloisMul(num, GaloisInv(denom))

(* The number of errors found and the block, none if one lies outside of it. *)
RSCorrect(block, syndrome) ==
  LET locator   == CalcLocator(syndrome)
      evaluator == CalcErrorEvaluatorPoly(locator, syndrome)
      roots     == FindRoots(locator)
      errors    == Cardinality(roots)
      Fixed(p)  == LET i == BlockSize - 1 - p
                   IN  IF i \in roots THEN Xor(block[p], Magnitude(i, locator, evaluator)) ELSE block[p]
  IN  IF errors \notin 1..ChecksumSize-1 THEN [errors |-> 0, blocks |-> <<block>>]
      ELSE IF \E i \in roots : i >= BlockSize THEN [errors |-> errors, blocks |-> << >>]
      ELSE [errors |-> errors, blocks |-> << [p \in 0..BlockSize-1 |-> Fixed(p)] >>]
=============================================================================
