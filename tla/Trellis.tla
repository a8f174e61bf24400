------------------------------ MODULE Trellis ------------------------------
(***************************************************************************)
(* The rate 3/4 trellis code of confirmed data blocks: Encoders/Trellis.js,*)
(* which only decodes.  A burst is the set of its ones among bits 0..263,  *)
(* of which 98..165 are slot type and sync; dibits, points and tribits are *)
(* the numbers of the code.                                                *)
(***************************************************************************)
EXTENDS Integers, Sequences

NumDibits == 98
NumPoints == 49
NumTries == 20
NoError == 999
NoTribit == 9

(* Row s + 1: the points of the tribits 0 to 7 in state s. *)
EncodeTable ==
  << << 0,  8, 4, 12, 2, 10, 6, 14 >>, << 4, 12, 2, 10, 6, 14, 0,  8 >>,
     << 1,  9, 5, 13, 3, 11, 7, 15 >>, << 5, 13, 3, 11, 7, 15, 1,  9 >>,
     << 3, 11, 7, 15, 1,  9, 5, 13 >>, << 7, 15, 1,  9, 5, 13, 3, 11 >>,
     << 2, 10, 6, 14, 0,  8, 4, 12 >>, << 6, 14, 0,  8, 4, 12, 2, 10 >> >>

(* Element k + 1: the two dibits of point k. *)
Constellation ==
  << << 1,-1>>, <<-1,-1>>, << 3,-3>>, <<-3,-3>>, <<-3,-1>>, << 3,-1>>, <<-1,-3>>, << 1,-3>>,
     <<-3, 3>>, << 3, 3>>, <<-1, 1>>, << 1, 1>>, << 1, 3>>, <<-1, 3>>, << 3, 1>>, <<-3, 1>> >>

(* Where dibit n is received: pairs of dibits are sent column by column. *)
ReceivedAt(n) ==
  LET column == (n % 8) \div 2
  IN  24 * column + (IF column = 0 THEN 0 ELSE 2) + 2 * (n \div 8) + (n % 2)

BurstBit(n) == IF n < NumDibits THEN n ELSE n + 68

DibitOf(high, low) == IF high THEN (IF low THEN -3 ELSE -1) ELSE (IF low THEN 3 ELSE 1)

DibitAt(burst, n) ==
  LET i == 2 * ReceivedAt(n)
  IN  DibitOf(BurstBit(i) \in burst, BurstBit(i + 1) \in burst)

(* Point i is element i + 1. *)
DibitsToPoints(burst) ==
  [i \in 1..NumPoints |->
     LET dibits == << DibitAt(burst, 2 * i - 2), DibitAt(burst, 2 * i - 1) >>
     IN  CHOOSE k \in 0..15 : Constellation[k + 1] = dibits]

-----------------------------------------------------------------------------
(* The tribit whose point this is in a state; a state is the last tribit.  *)
TribitOf(state, point) ==
  LET tribits == {j \in 0..7 : EncodeTable[state + 1][j + 1] = point}
  IN  IF state = NoTribit \/ tribits = {} THEN NoTribit ELSE CHOOSE j \in tribits : TRUE

(***************************************************************************)
(* The states on the path through the points: 0 and then every tribit, up  *)
(* to the first point that has none in the state reached.  Tribit i is     *)
(* element i + 2.                                                          *)
(***************************************************************************)
Path(points) ==
  LET upTo[i \in 0..NumPoints] ==
        IF i = 0 THEN << 0 >>
        ELSE LET path == upTo[i - 1] IN Append(path, TribitOf(path[i], points[i]))
  IN  upTo[NumPoints]

(* Where the path fails: it must be complete and end in state 0. *)
FailPos(path) ==
  LET failed == {i \in 0..NumPoints-1 : path[i + 2] = NoTribit}
  IN  IF failed # {} THEN CHOOSE i \in failed : \A j \in failed : i <= j
      ELSE IF path[NumPoints + 1] # 0 THEN NumPoints - 1 ELSE NoError

TribitsToBits(path) ==
  {n \in 0..3*NumPoints-4 : (path[(n \div 3) + 2] \div 2^(2 - (n % 3))) % 2 = 1}

(***************************************************************************)
(* One try: every value at the failing position; the path that is complete *)
(* is the outcome, else the first value that gets furthest is kept, and    *)
(* the next try goes on from where its path fails.                         *)
(***************************************************************************)
\* mutant of Furthest: the first value that gets any further is kept
FurthestFirst(values, at) ==
  CHOOSE t \in values : \A u \in values : u.failPos > at => t.failPos > at /\ u.value >= t.value

Furthest(values, at) ==
  CHOOSE t \in values : \A u \in values : \/ u.failPos < t.failPos
                                          \/ u.failPos = t.failPos /\ u.value >= t.value

Retried(try) ==
  LET PathWith(v) == Path([try.points EXCEPT ![try.at + 1] = v])
      values == {[value |-> v, failPos |-> FailPos(PathWith(v))] : v \in 0..15}
      best   == Furthest(values, try.at)
  IN  IF best.failPos = NoError THEN [try EXCEPT !.bits = << TribitsToBits(PathWith(best.value)) >>]
      ELSE [try EXCEPT !.points[try.at + 1] = best.value, !.at = best.failPos]

(* The outcome is a sequence of the bits, or empty for the code's false. *)
FixCode(points, failPos) ==
  LET after[j \in 0..NumTries] ==
        IF j = 0 THEN [points |-> points, at |-> failPos, bits |-> << >>]
        ELSE LET try == after[j - 1] IN IF try.bits # << >> THEN try ELSE Retried(try)
  IN  after[NumTries].bits

TrellisDecode(burst) ==
  LET points  == DibitsToPoints(burst)
      path    == Path(points)
      failPos == FailPos(path)
      fixed   == FixCode(points, failPos)
  IN  IF failPos = NoError THEN << TribitsToBits(path) >>
      ELSE IF fixed # << >> \/ failPos = 0 THEN fixed
      ELSE FixCode(points, failPos - 1)
=============================================================================
