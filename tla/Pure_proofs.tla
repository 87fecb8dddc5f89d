------------------------------- MODULE Pure_proofs -------------------------------
(* Proofs about the functions of BootCode, for software and hex files of every     *)
(* length.  Induction over the length is by the least counterexample: the least    *)
(* element of a set of numbers is a theorem about sets, which the provers can cite. *)
EXTENDS PureProps, WellFoundedInduction, SequenceTheorems, TLAPS

-----------------------------------------------------------------------------
(* Induction.                                                              *)

\* A set of natural numbers has a least element.
LEMMA LeastElement ==
  ASSUME NEW T \in SUBSET Nat, T # {}
  PROVE  \E m \in T : \A k \in T : m <= k
<1> DEFINE R == OpToRel(<, Nat)
<1>1. IsWellFoundedOn(R, Nat)
  BY NatLessThanWellFounded
<1>2. \A x, y \in Nat : x < y => <<x, y>> \in R
  BY DEF OpToRel
<1> HIDE DEF R
<1>3. PICK x \in T : \A y \in T : ~ (<<y, x>> \in R)
  BY <1>1, WFMin
<1>4. \A y \in T : ~ (y < x) /\ y \in Nat /\ x \in Nat
  BY <1>2, <1>3
<1>5. QED
  BY <1>4

\* A set that has 0, and with a number the next one, has all numbers.
LEMMA AllNumbers ==
  ASSUME NEW T, 0 \in T, \A n \in Nat : n \in T => n + 1 \in T
  PROVE  \A n \in Nat : n \in T
<1>1. SUFFICES ASSUME ~ (\A n \in Nat : n \in T) PROVE FALSE
  OBVIOUS
<1>2. PICK m \in Nat \ T : \A k \in Nat \ T : m <= k
  BY <1>1, LeastElement
<1>3. m # 0
  OBVIOUS
<1>4. m - 1 \in Nat /\ m - 1 \in T
  BY <1>2, <1>3
<1>5. QED
  BY <1>4

\* The same up to a number m.
LEMMA AllUpTo ==
  ASSUME NEW m \in Nat, NEW T, 0 \in T, \A n \in 0 .. m - 1 : n \in T => n + 1 \in T
  PROVE  \A n \in 0 .. m : n \in T
<1> DEFINE U == {n \in Nat : n <= m => n \in T}
<1>1. 0 \in U
  OBVIOUS
<1>2. ASSUME NEW n \in Nat, n \in U PROVE n + 1 \in U
  BY <1>2
<1> HIDE DEF U
<1>3. \A n \in Nat : n \in U
  BY <1>1, <1>2, AllNumbers
<1>4. QED
  BY <1>3 DEF U

\* A step function applied m times: there is the function of its results.
LEMMA Iterated ==
  ASSUME NEW S, NEW a \in S, NEW m \in Nat, NEW F \in [1 .. m -> [S -> S]]
  PROVE  \E h \in [0 .. m -> S] : h[0] = a /\ \A n \in 1 .. m : h[n] = F[n][h[n - 1]]
<1> DEFINE Upto(h, k) == h[0] = a /\ \A n \in 1 .. k : h[n] = F[n][h[n - 1]]
           T == {k \in 0 .. m : \E h \in [0 .. k -> S] : Upto(h, k)}
<1>1. 0 \in T
  <2> DEFINE h == [n \in 0 .. 0 |-> a]
  <2>1. h \in [0 .. 0 -> S] /\ h[0] = a
    OBVIOUS
  <2>2. \A n \in 1 .. 0 : FALSE
    OBVIOUS
  <2> HIDE DEF h
  <2>3. Upto(h, 0)
    BY <2>1, <2>2
  <2>4. QED
    BY <2>1, <2>3
<1>2. ASSUME NEW k \in 0 .. m - 1, k \in T PROVE k + 1 \in T
  <2>1. PICK h \in [0 .. k -> S] : Upto(h, k)
    BY <1>2
  <2> DEFINE g == [n \in 0 .. k + 1 |-> IF n = k + 1 THEN F[k + 1][h[k]] ELSE h[n]]
  <2>2. h[k] \in S /\ k + 1 \in 1 .. m /\ F[k + 1][h[k]] \in S
    BY <1>2
  <2>3. g \in [0 .. k + 1 -> S]
    BY <2>2
  <2>4. \A n \in 0 .. k : g[n] = h[n]
    OBVIOUS
  <2>5. g[k + 1] = F[k + 1][h[k]]
    OBVIOUS
  <2> HIDE DEF g
  <2>6. g[0] = a
    BY <2>1, <2>4
  <2>7. ASSUME NEW n \in 1 .. k PROVE g[n] = F[n][g[n - 1]]
    <3>1. n \in 0 .. k /\ n - 1 \in 0 .. k
      OBVIOUS
    <3>2. g[n] = h[n] /\ g[n - 1] = h[n - 1]
      BY <2>4, <3>1
    <3>3. h[n] = F[n][h[n - 1]]
      BY <2>1
    <3>4. QED
      BY <3>2, <3>3
  <2>8. ASSUME NEW n \in 1 .. k + 1 PROVE g[n] = F[n][g[n - 1]]
    <3>1. CASE n = k + 1
      <4>1. n - 1 = k /\ g[k] = h[k]
        BY <2>4, <3>1
      <4>2. QED
        BY <2>5, <3>1, <4>1
    <3>2. CASE n # k + 1
      BY <2>7, <3>2
    <3>3. QED
      BY <3>1, <3>2
  <2>9. QED
    BY <2>3, <2>6, <2>8
<1> HIDE DEF T
<1>3. m \in T
  <2>1. \A k \in 0 .. m : k \in T
    BY <1>1, <1>2, AllUpTo
  <2>2. QED
    BY <2>1
<1>4. QED
  BY <1>3 DEF T

-----------------------------------------------------------------------------
(* Words as sets of bits.                                                  *)

LEMMA XorAlgebra ==
  ASSUME NEW x, NEW y, NEW z
  PROVE  /\ Xor(x, y) = Xor(y, x) /\ Xor(Xor(x, y), z) = Xor(x, Xor(y, z))
         /\ Xor(Xor(x, y), y) = x /\ Xor(x, {}) = x /\ Xor({}, x) = x
BY DEF Xor

LEMMA XorWords ==
  ASSUME NEW x \in Words, NEW y \in Words
  PROVE  Xor(x, y) \in Words
BY DEF Xor, Words

LEMMA ShiftElements ==
  ASSUME NEW x \in Words, NEW n \in Nat, NEW i
  PROVE  i \in Shift(x, n) <=> i \in Nat /\ i + n \in x
BY DEF Shift, Words

LEMMA ShiftTypes ==
  ASSUME NEW x \in Words, NEW n \in Nat
  PROVE  Shift(x, n) \in Words
<1>1. \A i \in Shift(x, n) : i \in 0 .. 15
  BY ShiftElements DEF Words
<1>2. QED
  BY <1>1 DEF Words

LEMMA ShiftOfXor ==
  ASSUME NEW x \in Words, NEW y \in Words, NEW n \in Nat
  PROVE  Shift(Xor(x, y), n) = Xor(Shift(x, n), Shift(y, n))
<1>1. Xor(x, y) \in Words
  BY XorWords
<1>2. ASSUME NEW i
      PROVE  i \in Shift(Xor(x, y), n) <=> i \in Xor(Shift(x, n), Shift(y, n))
  <2>1. i \in Shift(Xor(x, y), n) <=> i \in Nat /\ i + n \in Xor(x, y)
    BY <1>1, ShiftElements
  <2>2. /\ i \in Shift(x, n) <=> i \in Nat /\ i + n \in x
        /\ i \in Shift(y, n) <=> i \in Nat /\ i + n \in y
    BY ShiftElements
  <2>3. i \in Xor(Shift(x, n), Shift(y, n))
          <=> ~ (i \in Shift(x, n) <=> i \in Shift(y, n))
    BY DEF Xor
  <2>4. i + n \in Xor(x, y) <=> ~ (i + n \in x <=> i + n \in y)
    BY DEF Xor
  <2>5. QED
    BY <2>1, <2>2, <2>3, <2>4
<1>3. QED
  BY <1>2, Zenon

LEMMA ShiftTwice ==
  ASSUME NEW x \in Words, NEW m \in Nat, NEW n \in Nat
  PROVE  Shift(Shift(x, m), n) = Shift(x, m + n)
<1>1. \A i : i \in Shift(Shift(x, m), n) <=> i \in Nat /\ i + n + m \in x
  BY ShiftElements, ShiftTypes
<1>2. \A i : i \in Shift(x, m + n) <=> i \in Nat /\ i + n + m \in x
  BY ShiftElements
<1>3. QED
  BY <1>1, <1>2

LEMMA BitsTypes ==
  ASSUME NEW n
  PROVE  Bits(n) \in Words
BY DEF Bits, Words

-----------------------------------------------------------------------------
(* One bit of the reference implementation, and four.                      *)

LEMMA BitTypes ==
  ASSUME NEW x \in Words
  PROVE  Bit(x) \in Words
<1>1. Shift(x, 1) \in Words /\ Bits(40961) \in Words
  BY ShiftTypes, BitsTypes
<1>2. Xor(Shift(x, 1), Bits(40961)) \in Words
  BY <1>1, XorWords
<1>3. QED
  BY <1>1, <1>2 DEF Bit

LEMMA BitOfXor ==
  ASSUME NEW x \in Words, NEW y \in Words
  PROVE  Bit(Xor(x, y)) = Xor(Bit(x), Bit(y))
<1>1. PICK p, s, t : p = Bits(40961) /\ s = Shift(x, 1) /\ t = Shift(y, 1)
  OBVIOUS
<1>2. Shift(Xor(x, y), 1) = Xor(s, t)
  BY <1>1, ShiftOfXor
<1>3. 0 \in Xor(x, y) <=> ~ (0 \in x <=> 0 \in y)
  BY DEF Xor
<1>4. /\ Bit(Xor(x, y)) = IF 0 \in Xor(x, y) THEN Xor(Xor(s, t), p) ELSE Xor(s, t)
      /\ Bit(x) = IF 0 \in x THEN Xor(s, p) ELSE s
      /\ Bit(y) = IF 0 \in y THEN Xor(t, p) ELSE t
  BY <1>1, <1>2 DEF Bit
<1>5. /\ Xor(Xor(s, p), Xor(t, p)) = Xor(s, t) /\ Xor(Xor(s, p), t) = Xor(Xor(s, t), p)
      /\ Xor(s, Xor(t, p)) = Xor(Xor(s, t), p)
  BY DEF Xor
<1>6. CASE 0 \in x
  BY <1>3, <1>4, <1>5, <1>6
<1>7. CASE 0 \notin x
  BY <1>3, <1>4, <1>5, <1>7
<1>8. QED
  BY <1>6, <1>7

LEMMA FourBitsTypes ==
  ASSUME NEW x \in Words
  PROVE  FourBits(x) \in Words
BY BitTypes DEF FourBits

LEMMA FourBitsOfXor ==
  ASSUME NEW x \in Words, NEW y \in Words
  PROVE  FourBits(Xor(x, y)) = Xor(FourBits(x), FourBits(y))
<1>1. /\ Bit(x) \in Words /\ Bit(Bit(x)) \in Words /\ Bit(Bit(Bit(x))) \in Words
      /\ Bit(y) \in Words /\ Bit(Bit(y)) \in Words /\ Bit(Bit(Bit(y))) \in Words
  BY BitTypes
<1>2. Bit(Bit(Xor(x, y))) = Xor(Bit(Bit(x)), Bit(Bit(y)))
  BY <1>1, BitOfXor
<1>3. Bit(Bit(Bit(Xor(x, y)))) = Xor(Bit(Bit(Bit(x))), Bit(Bit(Bit(y))))
  BY <1>1, <1>2, BitOfXor
<1>4. QED
  BY <1>1, <1>3, BitOfXor DEF FourBits

\* Four bits that are 0 are shifted out.
LEMMA FourBitsOfHigh ==
  ASSUME NEW x \in Words, Low(x) = {}
  PROVE  FourBits(x) = Shift(x, 4)
<1>1. 0 \notin x /\ 1 \notin x /\ 2 \notin x /\ 3 \notin x
  BY DEF Low
<1>2. Bit(x) = Shift(x, 1)
  BY <1>1 DEF Bit
<1>3. Bit(Shift(x, 1)) = Shift(x, 2)
  <2>1. 0 \notin Shift(x, 1)
    BY <1>1, ShiftElements
  <2>2. QED
    BY <2>1, ShiftTwice DEF Bit
<1>4. Bit(Shift(x, 2)) = Shift(x, 3)
  <2>1. 0 \notin Shift(x, 2)
    BY <1>1, ShiftElements
  <2>2. QED
    BY <2>1, ShiftTwice DEF Bit
<1>5. Bit(Shift(x, 3)) = Shift(x, 4)
  <2>1. 0 \notin Shift(x, 3)
    BY <1>1, ShiftElements
  <2>2. QED
    BY <2>1, ShiftTwice DEF Bit
<1>6. QED
  BY <1>2, <1>3, <1>4, <1>5 DEF FourBits

-----------------------------------------------------------------------------
(* The table has what four bits become.                                    *)

LEMMA NibbleNumbers ==
  /\ Bits(0) = {}
  /\ Bits(1) = {0}
  /\ Bits(2) = {1}
  /\ Bits(3) = {0, 1}
  /\ Bits(4) = {2}
  /\ Bits(5) = {0, 2}
  /\ Bits(6) = {1, 2}
  /\ Bits(7) = {0, 1, 2}
  /\ Bits(8) = {3}
  /\ Bits(9) = {0, 3}
  /\ Bits(10) = {1, 3}
  /\ Bits(11) = {0, 1, 3}
  /\ Bits(12) = {2, 3}
  /\ Bits(13) = {0, 2, 3}
  /\ Bits(14) = {1, 2, 3}
  /\ Bits(15) = {0, 1, 2, 3}
<1>0. Bits(0) = {}
  BY DEF Bits, Place
<1>1. Bits(1) = {0}
  BY DEF Bits, Place
<1>2. Bits(2) = {1}
  BY DEF Bits, Place
<1>3. Bits(3) = {0, 1}
  BY DEF Bits, Place
<1>4. Bits(4) = {2}
  BY DEF Bits, Place
<1>5. Bits(5) = {0, 2}
  BY DEF Bits, Place
<1>6. Bits(6) = {1, 2}
  BY DEF Bits, Place
<1>7. Bits(7) = {0, 1, 2}
  BY DEF Bits, Place
<1>8. Bits(8) = {3}
  BY DEF Bits, Place
<1>9. Bits(9) = {0, 3}
  BY DEF Bits, Place
<1>10. Bits(10) = {1, 3}
  BY DEF Bits, Place
<1>11. Bits(11) = {0, 1, 3}
  BY DEF Bits, Place
<1>12. Bits(12) = {2, 3}
  BY DEF Bits, Place
<1>13. Bits(13) = {0, 2, 3}
  BY DEF Bits, Place
<1>14. Bits(14) = {1, 2, 3}
  BY DEF Bits, Place
<1>15. Bits(15) = {0, 1, 2, 3}
  BY DEF Bits, Place
<1>16. QED
  BY <1>0, <1>1, <1>2, <1>3, <1>4, <1>5, <1>6, <1>7, <1>8, <1>9, <1>10, <1>11, <1>12, <1>13, <1>14, <1>15

LEMMA TableRows ==
  /\ Bits(crcValues[1]) = {}
  /\ Bits(crcValues[2]) = {0, 10, 11, 14, 15}
  /\ Bits(crcValues[3]) = {0, 11, 12, 14, 15}
  /\ Bits(crcValues[4]) = {10, 12}
  /\ Bits(crcValues[5]) = {0, 12, 13, 14, 15}
  /\ Bits(crcValues[6]) = {10, 11, 12, 13}
  /\ Bits(crcValues[7]) = {11, 13}
  /\ Bits(crcValues[8]) = {0, 10, 13, 14, 15}
  /\ Bits(crcValues[9]) = {0, 13, 15}
  /\ Bits(crcValues[10]) = {10, 11, 13, 14}
  /\ Bits(crcValues[11]) = {11, 12, 13, 14}
  /\ Bits(crcValues[12]) = {0, 10, 12, 13, 15}
  /\ Bits(crcValues[13]) = {12, 14}
  /\ Bits(crcValues[14]) = {0, 10, 11, 12, 15}
  /\ Bits(crcValues[15]) = {0, 11, 15}
  /\ Bits(crcValues[16]) = {10, 14}
<1>0. Bits(0) = {}
  BY DEF Bits, Place
<1>1. Bits(52225) = {0, 10, 11, 14, 15}
  <2>1. \A i \in 0 .. 15 : (52225 \div Place[i + 1]) % 2 = 1 <=> i \in {0, 10, 11, 14, 15}
    BY DEF Place
  <2>2. QED
    BY <2>1 DEF Bits
<1>2. Bits(55297) = {0, 11, 12, 14, 15}
  <2>1. \A i \in 0 .. 15 : (55297 \div Place[i + 1]) % 2 = 1 <=> i \in {0, 11, 12, 14, 15}
    BY DEF Place
  <2>2. QED
    BY <2>1 DEF Bits
<1>3. Bits(5120) = {10, 12}
  <2>1. \A i \in 0 .. 15 : (5120 \div Place[i + 1]) % 2 = 1 <=> i \in {10, 12}
    BY DEF Place
  <2>2. QED
    BY <2>1 DEF Bits
<1>4. Bits(61441) = {0, 12, 13, 14, 15}
  <2>1. \A i \in 0 .. 15 : (61441 \div Place[i + 1]) % 2 = 1 <=> i \in {0, 12, 13, 14, 15}
    BY DEF Place
  <2>2. QED
    BY <2>1 DEF Bits
<1>5. Bits(15360) = {10, 11, 12, 13}
  <2>1. \A i \in 0 .. 15 : (15360 \div Place[i + 1]) % 2 = 1 <=> i \in {10, 11, 12, 13}
    BY DEF Place
  <2>2. QED
    BY <2>1 DEF Bits
<1>6. Bits(10240) = {11, 13}
  <2>1. \A i \in 0 .. 15 : (10240 \div Place[i + 1]) % 2 = 1 <=> i \in {11, 13}
    BY DEF Place
  <2>2. QED
    BY <2>1 DEF Bits
<1>7. Bits(58369) = {0, 10, 13, 14, 15}
  <2>1. \A i \in 0 .. 15 : (58369 \div Place[i + 1]) % 2 = 1 <=> i \in {0, 10, 13, 14, 15}
    BY DEF Place
  <2>2. QED
    BY <2>1 DEF Bits
<1>8. Bits(40961) = {0, 13, 15}
  <2>1. \A i \in 0 .. 15 : (40961 \div Place[i + 1]) % 2 = 1 <=> i \in {0, 13, 15}
    BY DEF Place
  <2>2. QED
    BY <2>1 DEF Bits
<1>9. Bits(27648) = {10, 11, 13, 14}
  <2>1. \A i \in 0 .. 15 : (27648 \div Place[i + 1]) % 2 = 1 <=> i \in {10, 11, 13, 14}
    BY DEF Place
  <2>2. QED
    BY <2>1 DEF Bits
<1>10. Bits(30720) = {11, 12, 13, 14}
  <2>1. \A i \in 0 .. 15 : (30720 \div Place[i + 1]) % 2 = 1 <=> i \in {11, 12, 13, 14}
    BY DEF Place
  <2>2. QED
    BY <2>1 DEF Bits
<1>11. Bits(46081) = {0, 10, 12, 13, 15}
  <2>1. \A i \in 0 .. 15 : (46081 \div Place[i + 1]) % 2 = 1 <=> i \in {0, 10, 12, 13, 15}
    BY DEF Place
  <2>2. QED
    BY <2>1 DEF Bits
<1>12. Bits(20480) = {12, 14}
  <2>1. \A i \in 0 .. 15 : (20480 \div Place[i + 1]) % 2 = 1 <=> i \in {12, 14}
    BY DEF Place
  <2>2. QED
    BY <2>1 DEF Bits
<1>13. Bits(39937) = {0, 10, 11, 12, 15}
  <2>1. \A i \in 0 .. 15 : (39937 \div Place[i + 1]) % 2 = 1 <=> i \in {0, 10, 11, 12, 15}
    BY DEF Place
  <2>2. QED
    BY <2>1 DEF Bits
<1>14. Bits(34817) = {0, 11, 15}
  <2>1. \A i \in 0 .. 15 : (34817 \div Place[i + 1]) % 2 = 1 <=> i \in {0, 11, 15}
    BY DEF Place
  <2>2. QED
    BY <2>1 DEF Bits
<1>15. Bits(17408) = {10, 14}
  <2>1. \A i \in 0 .. 15 : (17408 \div Place[i + 1]) % 2 = 1 <=> i \in {10, 14}
    BY DEF Place
  <2>2. QED
    BY <2>1 DEF Bits
<1>16. QED
  BY <1>0, <1>1, <1>2, <1>3, <1>4, <1>5, <1>6, <1>7, <1>8, <1>9, <1>10, <1>11, <1>12, <1>13, <1>14, <1>15 DEF crcValues

\* What a 1 among the low bits becomes.
LEMMA SingleBits ==
  /\ FourBits({}) = {} /\ FourBits({0}) = {0, 10, 11, 14, 15} /\ FourBits({1}) = {0, 11, 12, 14, 15}
  /\ FourBits({2}) = {0, 12, 13, 14, 15} /\ FourBits({3}) = {0, 13, 15}
<1>1. Bits(40961) = {0, 13, 15}
  BY TableRows DEF crcValues
<1>2. Bit({}) = {}
  <2>1. Shift({}, 1) = {}
    BY DEF Shift
  <2>2. QED
    BY <2>1 DEF Bit
<1>3. Bit({0}) = {0, 13, 15}
  <2>1. Shift({0}, 1) = {}
    BY DEF Shift
  <2>2. Xor({}, {0, 13, 15}) = {0, 13, 15}
    BY DEF Xor
  <2>3. QED
    BY <1>1, <2>1, <2>2 DEF Bit
<1>4. Bit({0, 13, 15}) = {0, 12, 13, 14, 15}
  <2>1. Shift({0, 13, 15}, 1) = {12, 14}
    BY DEF Shift
  <2>2. Xor({12, 14}, {0, 13, 15}) = {0, 12, 13, 14, 15}
    BY DEF Xor
  <2>3. QED
    BY <1>1, <2>1, <2>2 DEF Bit
<1>5. Bit({0, 12, 13, 14, 15}) = {0, 11, 12, 14, 15}
  <2>1. Shift({0, 12, 13, 14, 15}, 1) = {11, 12, 13, 14}
    BY DEF Shift
  <2>2. Xor({11, 12, 13, 14}, {0, 13, 15}) = {0, 11, 12, 14, 15}
    BY DEF Xor
  <2>3. QED
    BY <1>1, <2>1, <2>2 DEF Bit
<1>6. Bit({0, 11, 12, 14, 15}) = {0, 10, 11, 14, 15}
  <2>1. Shift({0, 11, 12, 14, 15}, 1) = {10, 11, 13, 14}
    BY DEF Shift
  <2>2. Xor({10, 11, 13, 14}, {0, 13, 15}) = {0, 10, 11, 14, 15}
    BY DEF Xor
  <2>3. QED
    BY <1>1, <2>1, <2>2 DEF Bit
<1>7. Bit({1}) = {0}
  <2>1. Shift({1}, 1) = {0}
    BY DEF Shift
  <2>2. QED
    BY <2>1 DEF Bit
<1>8. Bit({2}) = {1}
  <2>1. Shift({2}, 1) = {1}
    BY DEF Shift
  <2>2. QED
    BY <2>1 DEF Bit
<1>9. Bit({3}) = {2}
  <2>1. Shift({3}, 1) = {2}
    BY DEF Shift
  <2>2. QED
    BY <2>1 DEF Bit
<1>10. QED
  BY <1>2, <1>3, <1>4, <1>5, <1>6, <1>7, <1>8, <1>9 DEF FourBits

\* The row of the table is what the number's bits become.
LEMMA RowOfNumber ==
  ASSUME NEW n \in 0 .. 15
  PROVE  FourBits(Bits(n)) = Bits(crcValues[n + 1])
<1> DEFINE Sum(x, y) == FourBits(Xor(x, y)) = Xor(FourBits(x), FourBits(y))
<1>0. \A x, y \in Nibbles : Sum(x, y)
  BY FourBitsOfXor DEF Nibbles, Words
<1>1. FourBits({}) = {}
  BY SingleBits
<1>2. FourBits({0}) = {0, 10, 11, 14, 15}
  BY SingleBits
<1>3. FourBits({1}) = {0, 11, 12, 14, 15}
  BY SingleBits
<1>4. FourBits({0, 1}) = {10, 12}
  <2>1. {0} \in Nibbles /\ {1} \in Nibbles /\ Xor({0}, {1}) = {0, 1}
    BY DEF Nibbles, Xor
  <2>2. Xor({0, 10, 11, 14, 15}, {0, 11, 12, 14, 15}) = {10, 12}
    BY DEF Xor
  <2>3. Sum({0}, {1})
    BY <1>0, <2>1, Zenon
  <2>4. QED
    BY <1>2, <1>3, <2>1, <2>2, <2>3, Zenon
<1>5. FourBits({2}) = {0, 12, 13, 14, 15}
  BY SingleBits
<1>6. FourBits({0, 2}) = {10, 11, 12, 13}
  <2>1. {0} \in Nibbles /\ {2} \in Nibbles /\ Xor({0}, {2}) = {0, 2}
    BY DEF Nibbles, Xor
  <2>2. Xor({0, 10, 11, 14, 15}, {0, 12, 13, 14, 15}) = {10, 11, 12, 13}
    BY DEF Xor
  <2>3. Sum({0}, {2})
    BY <1>0, <2>1, Zenon
  <2>4. QED
    BY <1>2, <1>5, <2>1, <2>2, <2>3, Zenon
<1>7. FourBits({1, 2}) = {11, 13}
  <2>1. {1} \in Nibbles /\ {2} \in Nibbles /\ Xor({1}, {2}) = {1, 2}
    BY DEF Nibbles, Xor
  <2>2. Xor({0, 11, 12, 14, 15}, {0, 12, 13, 14, 15}) = {11, 13}
    BY DEF Xor
  <2>3. Sum({1}, {2})
    BY <1>0, <2>1, Zenon
  <2>4. QED
    BY <1>3, <1>5, <2>1, <2>2, <2>3, Zenon
<1>8. FourBits({0, 1, 2}) = {0, 10, 13, 14, 15}
  <2>1. {0, 1} \in Nibbles /\ {2} \in Nibbles /\ Xor({0, 1}, {2}) = {0, 1, 2}
    BY DEF Nibbles, Xor
  <2>2. Xor({10, 12}, {0, 12, 13, 14, 15}) = {0, 10, 13, 14, 15}
    BY DEF Xor
  <2>3. Sum({0, 1}, {2})
    BY <1>0, <2>1, Zenon
  <2>4. QED
    BY <1>4, <1>5, <2>1, <2>2, <2>3, Zenon
<1>9. FourBits({3}) = {0, 13, 15}
  BY SingleBits
<1>10. FourBits({0, 3}) = {10, 11, 13, 14}
  <2>1. {0} \in Nibbles /\ {3} \in Nibbles /\ Xor({0}, {3}) = {0, 3}
    BY DEF Nibbles, Xor
  <2>2. Xor({0, 10, 11, 14, 15}, {0, 13, 15}) = {10, 11, 13, 14}
    BY DEF Xor
  <2>3. Sum({0}, {3})
    BY <1>0, <2>1, Zenon
  <2>4. QED
    BY <1>2, <1>9, <2>1, <2>2, <2>3, Zenon
<1>11. FourBits({1, 3}) = {11, 12, 13, 14}
  <2>1. {1} \in Nibbles /\ {3} \in Nibbles /\ Xor({1}, {3}) = {1, 3}
    BY DEF Nibbles, Xor
  <2>2. Xor({0, 11, 12, 14, 15}, {0, 13, 15}) = {11, 12, 13, 14}
    BY DEF Xor
  <2>3. Sum({1}, {3})
    BY <1>0, <2>1, Zenon
  <2>4. QED
    BY <1>3, <1>9, <2>1, <2>2, <2>3, Zenon
<1>12. FourBits({0, 1, 3}) = {0, 10, 12, 13, 15}
  <2>1. {0, 1} \in Nibbles /\ {3} \in Nibbles /\ Xor({0, 1}, {3}) = {0, 1, 3}
    BY DEF Nibbles, Xor
  <2>2. Xor({10, 12}, {0, 13, 15}) = {0, 10, 12, 13, 15}
    BY DEF Xor
  <2>3. Sum({0, 1}, {3})
    BY <1>0, <2>1, Zenon
  <2>4. QED
    BY <1>4, <1>9, <2>1, <2>2, <2>3, Zenon
<1>13. FourBits({2, 3}) = {12, 14}
  <2>1. {2} \in Nibbles /\ {3} \in Nibbles /\ Xor({2}, {3}) = {2, 3}
    BY DEF Nibbles, Xor
  <2>2. Xor({0, 12, 13, 14, 15}, {0, 13, 15}) = {12, 14}
    BY DEF Xor
  <2>3. Sum({2}, {3})
    BY <1>0, <2>1, Zenon
  <2>4. QED
    BY <1>5, <1>9, <2>1, <2>2, <2>3, Zenon
<1>14. FourBits({0, 2, 3}) = {0, 10, 11, 12, 15}
  <2>1. {0, 2} \in Nibbles /\ {3} \in Nibbles /\ Xor({0, 2}, {3}) = {0, 2, 3}
    BY DEF Nibbles, Xor
  <2>2. Xor({10, 11, 12, 13}, {0, 13, 15}) = {0, 10, 11, 12, 15}
    BY DEF Xor
  <2>3. Sum({0, 2}, {3})
    BY <1>0, <2>1, Zenon
  <2>4. QED
    BY <1>6, <1>9, <2>1, <2>2, <2>3, Zenon
<1>15. FourBits({1, 2, 3}) = {0, 11, 15}
  <2>1. {1, 2} \in Nibbles /\ {3} \in Nibbles /\ Xor({1, 2}, {3}) = {1, 2, 3}
    BY DEF Nibbles, Xor
  <2>2. Xor({11, 13}, {0, 13, 15}) = {0, 11, 15}
    BY DEF Xor
  <2>3. Sum({1, 2}, {3})
    BY <1>0, <2>1, Zenon
  <2>4. QED
    BY <1>7, <1>9, <2>1, <2>2, <2>3, Zenon
<1>16. FourBits({0, 1, 2, 3}) = {10, 14}
  <2>1. {0, 1, 2} \in Nibbles /\ {3} \in Nibbles /\ Xor({0, 1, 2}, {3}) = {0, 1, 2, 3}
    BY DEF Nibbles, Xor
  <2>2. Xor({0, 10, 13, 14, 15}, {0, 13, 15}) = {10, 14}
    BY DEF Xor
  <2>3. Sum({0, 1, 2}, {3})
    BY <1>0, <2>1, Zenon
  <2>4. QED
    BY <1>8, <1>9, <2>1, <2>2, <2>3, Zenon
<1>17. FourBits(Bits(0)) = Bits(crcValues[1])
  BY <1>1, NibbleNumbers, TableRows, Zenon
<1>18. FourBits(Bits(1)) = Bits(crcValues[2])
  BY <1>2, NibbleNumbers, TableRows, Zenon
<1>19. FourBits(Bits(2)) = Bits(crcValues[3])
  BY <1>3, NibbleNumbers, TableRows, Zenon
<1>20. FourBits(Bits(3)) = Bits(crcValues[4])
  BY <1>4, NibbleNumbers, TableRows, Zenon
<1>21. FourBits(Bits(4)) = Bits(crcValues[5])
  BY <1>5, NibbleNumbers, TableRows, Zenon
<1>22. FourBits(Bits(5)) = Bits(crcValues[6])
  BY <1>6, NibbleNumbers, TableRows, Zenon
<1>23. FourBits(Bits(6)) = Bits(crcValues[7])
  BY <1>7, NibbleNumbers, TableRows, Zenon
<1>24. FourBits(Bits(7)) = Bits(crcValues[8])
  BY <1>8, NibbleNumbers, TableRows, Zenon
<1>25. FourBits(Bits(8)) = Bits(crcValues[9])
  BY <1>9, NibbleNumbers, TableRows, Zenon
<1>26. FourBits(Bits(9)) = Bits(crcValues[10])
  BY <1>10, NibbleNumbers, TableRows, Zenon
<1>27. FourBits(Bits(10)) = Bits(crcValues[11])
  BY <1>11, NibbleNumbers, TableRows, Zenon
<1>28. FourBits(Bits(11)) = Bits(crcValues[12])
  BY <1>12, NibbleNumbers, TableRows, Zenon
<1>29. FourBits(Bits(12)) = Bits(crcValues[13])
  BY <1>13, NibbleNumbers, TableRows, Zenon
<1>30. FourBits(Bits(13)) = Bits(crcValues[14])
  BY <1>14, NibbleNumbers, TableRows, Zenon
<1>31. FourBits(Bits(14)) = Bits(crcValues[15])
  BY <1>15, NibbleNumbers, TableRows, Zenon
<1>32. FourBits(Bits(15)) = Bits(crcValues[16])
  BY <1>16, NibbleNumbers, TableRows, Zenon
<1>33. \/ n = 0 \/ n = 1 \/ n = 2 \/ n = 3 \/ n = 4 \/ n = 5 \/ n = 6 \/ n = 7
       \/ n = 8 \/ n = 9 \/ n = 10 \/ n = 11 \/ n = 12 \/ n = 13 \/ n = 14 \/ n = 15
  OBVIOUS
<1>34. QED
  BY <1>17, <1>18, <1>19, <1>20, <1>21, <1>22, <1>23, <1>24, <1>25,
     <1>26, <1>27, <1>28, <1>29, <1>30, <1>31, <1>32, <1>33

\* A nibble has one number.
LEMMA NumberOfNibble ==
  ASSUME NEW m \in Nibbles
  PROVE  Number(m) \in 0 .. 15 /\ Bits(Number(m)) = m
<1>1. \E n \in 0 .. 15 : Bits(n) = m
  <2>1. PICK p, q, r, s \in 0 .. 1 :
          /\ p = 1 <=> 0 \in m
          /\ q = 1 <=> 1 \in m
          /\ r = 1 <=> 2 \in m
          /\ s = 1 <=> 3 \in m
    <3>1. \A i : \E b \in 0 .. 1 : b = 1 <=> i \in m
      OBVIOUS
    <3>2. QED
      BY <3>1
  <2> DEFINE n == p + 2 * q + 4 * r + 8 * s
  <2>2. /\ n \in 0 .. 15
        /\ n % 2 = p /\ (n \div 2) % 2 = q /\ (n \div 4) % 2 = r /\ (n \div 8) % 2 = s
    OBVIOUS
  <2> HIDE DEF n
  <2>3. \A i \in 4 .. 15 : (n \div Place[i + 1]) % 2 = 0
    <3>1. \A i \in 4 .. 15 : Place[i + 1] \in Nat /\ Place[i + 1] > n
      BY <2>2 DEF Place
    <3>2. \A d \in Nat : d > n => n \div d = 0
      BY <2>2
    <3>3. QED
      BY <3>1, <3>2
  <2>4. Place[1] = 1 /\ Place[2] = 2 /\ Place[3] = 4 /\ Place[4] = 8
    BY DEF Place
  <2>5. \A i \in 0 .. 15 : (n \div Place[i + 1]) % 2 = 1 <=> i \in m
    <3>1. (n \div Place[1]) % 2 = p /\ (n \div Place[2]) % 2 = q
          /\ (n \div Place[3]) % 2 = r /\ (n \div Place[4]) % 2 = s
      BY <2>2, <2>4
    <3>2. \A i \in 4 .. 15 : i \notin m
      BY DEF Nibbles
    <3>3. \A i \in 4 .. 15 : (n \div Place[i + 1]) % 2 = 1 <=> i \in m
      BY <2>3, <3>2
    <3>4. \A i \in 0 .. 3 : (n \div Place[i + 1]) % 2 = 1 <=> i \in m
      <4>1. \A i \in 0 .. 3 : i = 0 \/ i = 1 \/ i = 2 \/ i = 3
        OBVIOUS
      <4>2. 0 + 1 = 1 /\ 1 + 1 = 2 /\ 2 + 1 = 3 /\ 3 + 1 = 4
        OBVIOUS
      <4>3. QED
        BY <2>1, <3>1, <4>1, <4>2
    <3>5. \A i \in 0 .. 15 : i \in 0 .. 3 \/ i \in 4 .. 15
      OBVIOUS
    <3>6. QED
      BY <3>3, <3>4, <3>5
  <2>6. Bits(n) = m
    <3>1. \A i \in m : i \in 0 .. 15
      BY DEF Nibbles
    <3>2. \A i : i \in Bits(n) <=> i \in 0 .. 15 /\ (n \div Place[i + 1]) % 2 = 1
      BY DEF Bits
    <3>3. \A i : i \in Bits(n) <=> i \in m
      BY <2>5, <3>1, <3>2, Zenon
    <3>4. QED
      BY <3>3
  <2>7. QED
    BY <2>2, <2>6
<1>2. QED
  BY <1>1 DEF Number

LEMMA TableIsFourBits ==
  ASSUME NEW m \in Nibbles
  PROVE  crcTable[m] = FourBits(m) /\ FourBits(m) \in Words
<1>1. FourBits(m) = Bits(crcValues[Number(m) + 1])
  BY NumberOfNibble, RowOfNumber
<1>2. QED
  BY <1>1, BitsTypes DEF crcTable

-----------------------------------------------------------------------------
(* A byte of the CRC.                                                      *)

\* A word and what is left of it without its low bits.
LEMMA LowAndHigh ==
  ASSUME NEW x \in Words
  PROVE  /\ Low(x) \in Nibbles /\ Low(x) \in Words /\ x \ Low(x) \in Words
         /\ x = Xor(x \ Low(x), Low(x)) /\ Low(x \ Low(x)) = {}
         /\ Shift(x \ Low(x), 4) = Shift(x, 4)
<1>1. Low(x) \in Nibbles /\ Low(x) \in Words /\ x \ Low(x) \in Words
  BY DEF Low, Nibbles, Words
<1>2. x = Xor(x \ Low(x), Low(x)) /\ Low(x \ Low(x)) = {}
  BY DEF Low, Xor
<1>3. \A i : i \in Shift(x \ Low(x), 4) <=> i \in Nat /\ i + 4 \in x
  <2>1. \A i \in Nat : i + 4 \in x <=> i + 4 \in x \ Low(x)
    BY DEF Low
  <2>2. QED
    BY <1>1, <2>1, ShiftElements
<1>4. \A i : i \in Shift(x, 4) <=> i \in Nat /\ i + 4 \in x
  BY ShiftElements
<1>5. Shift(x \ Low(x), 4) = Shift(x, 4)
  BY <1>3, <1>4
<1>6. QED
  BY <1>1, <1>2, <1>5

\* The table's half byte is four bits of the reference.
LEMMA FourBitsByTable ==
  ASSUME NEW x \in Words
  PROVE  FourBits(x) = Xor(Shift(x, 4), crcTable[Low(x)])
<1>1. FourBits(x) = Xor(FourBits(x \ Low(x)), FourBits(Low(x)))
  <2>1. PICK h \in Words, l \in Words : h = x \ Low(x) /\ l = Low(x) /\ x = Xor(h, l)
    <3>1. x \ Low(x) \in Words /\ Low(x) \in Words /\ x = Xor(x \ Low(x), Low(x))
      BY LowAndHigh
    <3>2. QED
      BY <3>1, Zenon
  <2>2. FourBits(Xor(h, l)) = Xor(FourBits(h), FourBits(l))
    BY FourBitsOfXor
  <2>3. QED
    BY <2>1, <2>2, Zenon
<1>2. FourBits(x \ Low(x)) = Shift(x, 4)
  BY LowAndHigh, FourBitsOfHigh
<1>3. FourBits(Low(x)) = crcTable[Low(x)]
  BY LowAndHigh, TableIsFourBits
<1>4. QED
  BY <1>1, <1>2, <1>3

LEMMA NibbleIsFourBits ==
  ASSUME NEW crc \in Words, NEW m \in Nibbles
  PROVE  Nibble(crc, m) = FourBits(Xor(crc, m)) /\ Nibble(crc, m) \in Words
<1>1. m \in Words
  BY DEF Nibbles, Words
<1>2. FourBits(Xor(crc, m)) = Xor(FourBits(crc), FourBits(m))
  BY <1>1, FourBitsOfXor, Zenon
<1>3. Nibble(crc, m) = Xor(FourBits(crc), FourBits(m))
  BY FourBitsByTable, TableIsFourBits DEF Nibble
<1>4. FourBits(crc) \in Words /\ FourBits(m) \in Words
  BY <1>1, FourBitsTypes
<1>5. QED
  BY <1>2, <1>3, <1>4, XorWords

LEMMA ByteOfCrc ==
  ASSUME NEW crc \in Words, NEW b \in Bytes
  PROVE  CrcByte(crc, b) = CrcByteb(crc, b) /\ CrcByte(crc, b) \in Words
<1> DEFINE l == Low(b)  h == b \ Low(b)  g == Shift(b, 4)
<1>1. b \in Words
  BY DEF Bytes, Words
<1>2. /\ l \in Nibbles /\ l \in Words /\ h \in Words /\ b = Xor(h, l) /\ Low(h) = {}
      /\ Shift(h, 4) = g
  BY <1>1, LowAndHigh
<1>3. g \in Nibbles /\ g \in Words
  <2>1. \A i \in g : i \in 0 .. 3
    BY <1>1, ShiftElements DEF Bytes
  <2>2. QED
    BY <2>1 DEF Nibbles, Words
<1> HIDE DEF l, h, g
<1>4. Xor(crc, l) \in Words /\ Xor(crc, b) = Xor(Xor(crc, l), h)
  <2>1. Xor(crc, Xor(h, l)) = Xor(Xor(crc, l), h)
    BY DEF Xor
  <2>2. QED
    BY <1>2, <2>1, XorWords
<1>5. FourBits(Xor(crc, b)) = Xor(FourBits(Xor(crc, l)), FourBits(h))
  BY <1>2, <1>4, FourBitsOfXor
<1>6. FourBits(h) = g
  BY <1>2, FourBitsOfHigh
<1>7. Nibble(crc, l) = FourBits(Xor(crc, l)) /\ Nibble(crc, l) \in Words
  BY <1>2, NibbleIsFourBits
<1>8. Nibble(Nibble(crc, l), g) = FourBits(Xor(Nibble(crc, l), g))
      /\ Nibble(Nibble(crc, l), g) \in Words
  BY <1>3, <1>7, NibbleIsFourBits
<1>9. CrcByte(crc, b) = Nibble(Nibble(crc, l), g)
  BY DEF CrcByte, l, g
<1>10. QED
  BY <1>5, <1>6, <1>7, <1>8, <1>9 DEF CrcByteb

-----------------------------------------------------------------------------
(* The CRC of software of any length.                                      *)

LEMMA CrcOfSoftware ==
  ASSUME NEW sw \in Seq(Bytes)
  PROVE  Crc16(sw) = Crc16b(sw)
<1> DEFINE m == Len(sw)
           F == [n \in 1 .. m |-> [crc \in Words |-> CrcByte(crc, sw[n])]]
<1>1. m \in Nat /\ Ones \in Words
  BY DEF Words, Ones
<1>2. \A crc \in Words, n \in 1 .. m :
        CrcByte(crc, sw[n]) = CrcByteb(crc, sw[n]) /\ CrcByte(crc, sw[n]) \in Words
  BY ByteOfCrc
<1>3. F \in [1 .. m -> [Words -> Words]]
  BY <1>2
<1>4. PICK h \in [0 .. m -> Words] :
        h[0] = Ones /\ \A n \in 1 .. m : h[n] = F[n][h[n - 1]]
  <2> HIDE DEF m, F
  <2>1. QED
    BY <1>1, <1>3, Iterated
<1>5. ASSUME NEW n \in 1 .. m
      PROVE  /\ h[n - 1] \in Words
             /\ F[n][h[n - 1]] = CrcByte(h[n - 1], sw[n])
             /\ F[n][h[n - 1]] = CrcByteb(h[n - 1], sw[n])
  <2> HIDE DEF m
  <2>1. n - 1 \in 0 .. m
    BY <1>1
  <2>2. h[n - 1] \in Words
    BY <2>1
  <2>3. QED
    BY <1>2, <2>2
<1> DEFINE Equation(f) == f = [n \in 0 .. m |-> IF n = 0 THEN Ones ELSE CrcByte(f[n - 1], sw[n])]
           Equationb(f) == f = [n \in 0 .. m |-> IF n = 0 THEN Ones ELSE CrcByteb(f[n - 1], sw[n])]
           crc == CHOOSE f : Equation(f)
           crcb == CHOOSE f : Equationb(f)
<1>6. Equation(h) /\ Equationb(h)
  <2> HIDE DEF m, F
  <2>1. \A n \in 0 .. m : /\ h[n] = IF n = 0 THEN Ones ELSE CrcByte(h[n - 1], sw[n])
                         /\ h[n] = IF n = 0 THEN Ones ELSE CrcByteb(h[n - 1], sw[n])
    <3>1. \A n \in 0 .. m : h[n] = IF n = 0 THEN Ones ELSE F[n][h[n - 1]]
      BY <1>1, <1>4
    <3>2. \A n \in 0 .. m : n # 0 => n \in 1 .. m
      BY <1>1
    <3>3. QED
      BY <1>5, <3>1, <3>2
  <2>2. Equation(h)
    BY <2>1
  <2>3. Equationb(h)
    BY <2>1
  <2>4. QED
    BY <2>2, <2>3
<1>10. Crc16(sw) = crc[m] /\ Crc16b(sw) = crcb[m]
  BY DEF Crc16, Crc16b
<1> HIDE DEF Equation, Equationb
<1>7. Equation(crc) /\ Equationb(crcb)
  BY <1>6, Zenon
<1>8. \A n \in 0 .. m : crc[n] = IF n = 0 THEN Ones ELSE CrcByte(crc[n - 1], sw[n])
  <2> HIDE DEF crc, m
  <2>1. QED
    BY <1>7 DEF Equation
<1>9. \A n \in 0 .. m : crcb[n] = IF n = 0 THEN Ones ELSE CrcByteb(crcb[n - 1], sw[n])
  <2> HIDE DEF crcb, m
  <2>1. QED
    BY <1>7 DEF Equationb
<1> HIDE DEF F, crc, crcb, m
<1> DEFINE T == {n \in 0 .. m : crc[n] \in Words /\ crc[n] = crcb[n]}
<1>11. 0 \in T
  BY <1>1, <1>8, <1>9
<1>12. ASSUME NEW n \in 0 .. m - 1, n \in T PROVE n + 1 \in T
  <2>1. n + 1 \in 0 .. m /\ n + 1 \in 1 .. m /\ n + 1 # 0 /\ n + 1 - 1 = n
    BY <1>1
  <2>2. crc[n + 1] = CrcByte(crc[n], sw[n + 1]) /\ crcb[n + 1] = CrcByteb(crcb[n], sw[n + 1])
    BY <1>8, <1>9, <2>1
  <2>3. QED
    BY <1>2, <1>12, <2>1, <2>2
<1> HIDE DEF T
<1>13. \A n \in 0 .. m : n \in T
  BY <1>1, <1>11, <1>12, AllUpTo
<1>14. m \in T
  BY <1>1, <1>13
<1>15. QED
  BY <1>10, <1>14 DEF T

-----------------------------------------------------------------------------
(* Where the records of a hex file end.                                    *)

LEMMA MaxIs ==
  ASSUME NEW S \in SUBSET Nat, NEW m \in S, \A x \in S : x <= m
  PROVE  Max(S) = m
<1> DEFINE P(y) == y \in S /\ \A x \in S : y >= x
<1>1. P(m)
  OBVIOUS
<1>2. \A y : P(y) => y = m
  OBVIOUS
<1>3. Max(S) = CHOOSE y : P(y)
  BY DEF Max
<1> HIDE DEF P
<1>4. QED
  BY <1>1, <1>2, <1>3, Zenon

LEMMA ExtentIs ==
  ASSUME NEW file \in Seq(Record)
  PROVE  /\ \A n \in 0 .. Len(file) : Extent(file, n) \in Nat
         /\ Extent(file, 0) = 0
         /\ \A n \in 1 .. Len(file) :
              /\ Reach(file[n]) \in Nat
              /\ Extent(file, n) = IF Reach(file[n]) > Extent(file, n - 1)
                                   THEN Reach(file[n]) ELSE Extent(file, n - 1)
<1> DEFINE m == Len(file)
           Ends(n) == {0} \cup {Reach(file[k]) : k \in 1 .. n}
           Top(n) == Extent(file, n) \in Ends(n) /\ \A x \in Ends(n) : x <= Extent(file, n)
           T == {n \in 0 .. m : Top(n)}
<1>1. m \in Nat /\ \A n \in 1 .. m : Reach(file[n]) \in Nat
  <2>1. ASSUME NEW n \in 1 .. m PROVE Reach(file[n]) \in Nat
    <3>1. file[n] \in Record
      BY ElementOfSeq
    <3>2. \A r \in Record : r.kind = "data" => r.addr \in Nat /\ r.len \in Nat
      <4>1. \A i \in 0 .. Word - 1 : i \in Nat
        OBVIOUS
      <4>2. \A i \in Lens : i \in Nat
        BY PureAssumption
      <4>3. \A r \in Record : r.kind = "data" => r.addr \in 0 .. Word - 1 /\ r.len \in Lens
        BY DEF Record
      <4>4. QED
        BY <4>1, <4>2, <4>3
    <3>3. QED
      BY <3>1, <3>2 DEF Reach
  <2>2. QED
    BY <2>1
<1>2. ASSUME NEW n \in 0 .. m PROVE Ends(n) \in SUBSET Nat /\ Extent(file, n) = Max(Ends(n))
  <2>1. \A k \in 1 .. n : k \in 1 .. m
    BY <1>1
  <2>2. \A x \in Ends(n) : x \in Nat
    BY <1>1, <2>1
  <2>3. Extent(file, n) = Max(Ends(n))
    BY DEF Extent
  <2> HIDE DEF Ends
  <2>4. QED
    BY <2>2, <2>3
<1>3. Extent(file, 0) = 0 /\ Top(0)
  <2>1. Ends(0) = {0}
    OBVIOUS
  <2>2. 0 \in Ends(0) /\ (\A x \in Ends(0) : x <= 0) /\ Ends(0) \in SUBSET Nat
    BY <2>1
  <2>3. Extent(file, 0) = Max(Ends(0))
    BY DEF Extent
  <2> HIDE DEF Ends
  <2>4. QED
    BY <2>2, <2>3, MaxIs
<1>4. ASSUME NEW n \in 0 .. m - 1, Top(n)
      PROVE  /\ Top(n + 1)
             /\ Extent(file, n + 1) = IF Reach(file[n + 1]) > Extent(file, n)
                                      THEN Reach(file[n + 1]) ELSE Extent(file, n)
  <2> DEFINE e == Extent(file, n)
             r == Reach(file[n + 1])
             t == IF r > e THEN r ELSE e
  <2>1. Ends(n + 1) = Ends(n) \cup {r}
    <3>1. \A k : k \in 1 .. n + 1 <=> k \in 1 .. n \/ k = n + 1
      BY <1>1
    <3>2. \A x : x \in Ends(n + 1) <=> x = 0 \/ \E k \in 1 .. n + 1 : x = Reach(file[k])
      OBVIOUS
    <3>3. \A x : x \in Ends(n) <=> x = 0 \/ \E k \in 1 .. n : x = Reach(file[k])
      OBVIOUS
    <3> HIDE DEF Ends
    <3>4. \A x : x \in Ends(n + 1) <=> x \in Ends(n) \/ x = r
      BY <3>1, <3>2, <3>3
    <3>5. QED
      BY <3>4
  <2>2. e \in Nat /\ r \in Nat /\ Ends(n + 1) \in SUBSET Nat /\ Extent(file, n + 1) = Max(Ends(n + 1))
    <3> HIDE DEF Ends, m
    <3>1. n \in 0 .. m /\ n + 1 \in 0 .. m /\ n + 1 \in 1 .. m
      BY <1>1
    <3>2. e \in Ends(n) /\ Ends(n) \in SUBSET Nat
      BY <1>2, <1>4, <3>1
    <3>3. QED
      BY <1>1, <1>2, <3>1, <3>2
  <2> HIDE DEF Ends, e, r, m
  <2>3. t \in Ends(n + 1) /\ \A x \in Ends(n + 1) : x <= t
    BY <1>2, <1>4, <2>1, <2>2 DEF e
  <2> HIDE DEF t
  <2>4. Extent(file, n + 1) = t
    BY <2>2, <2>3, MaxIs
  <2>5. QED
    BY <2>3, <2>4 DEF t, e, r
<1>5. \A n \in 0 .. m : Top(n)
  <2>1. 0 \in T
    BY <1>1, <1>3
  <2>2. ASSUME NEW n \in 0 .. m - 1, n \in T PROVE n + 1 \in T
    BY <1>1, <1>4, <2>2
  <2> HIDE DEF T, m
  <2>3. \A n \in 0 .. m : n \in T
    BY <1>1, <2>1, <2>2, AllUpTo
  <2>4. QED
    BY <2>3 DEF T
<1> HIDE DEF m, Ends
<1>6. \A n \in 0 .. m : Extent(file, n) \in Nat
  BY <1>2, <1>5
<1>7. ASSUME NEW n \in 1 .. m
      PROVE  Extent(file, n) = IF Reach(file[n]) > Extent(file, n - 1)
                               THEN Reach(file[n]) ELSE Extent(file, n - 1)
  <2>1. PICK k \in 0 .. m - 1 : k = n - 1 /\ k + 1 = n
    BY <1>1
  <2>2. Top(k)
    BY <1>1, <1>5, <2>1
  <2>3. QED
    BY <1>4, <2>1, <2>2
<1>8. QED
  BY <1>1, <1>3, <1>6, <1>7 DEF m

-----------------------------------------------------------------------------
(* One record of a hex file.                                               *)

State == [mem : [0 .. Word - 1 -> Words], size : 0 .. Word, ended : {"no", "error", "panic"}]

\* What the first n records say.
Broken(file, n) == \E k \in 1 .. n : file[k].kind = "bad" \/ Reach(file[k]) > Word
From(file, n, a) ==
  {k \in 1 .. n : file[k].kind = "data"
                    /\ a \in file[k].addr .. file[k].addr + file[k].len - 1}
Content(file, n, a) ==
  IF From(file, n, a) = {} THEN {}
  ELSE Byte(Max(From(file, n, a)), a - file[Max(From(file, n, a))].addr)
OneByte(file, n) ==
  \E k \in 1 .. n : Extent(file, k) = Extent(file, n) /\ Extent(file, k - 1) = Extent(file, k) - 1

\* What readHex has after n records that are not broken.
ReadTo(file, n, s) ==
  /\ s.ended = "no"
  /\ \A a \in 0 .. Word - 1 : s.mem[a] = Content(file, n, a)
  /\ s.size = Extent(file, n) \/ (s.size = Extent(file, n) - 1 /\ OneByte(file, n))

LEMMA RecordFields ==
  ASSUME NEW r \in Record
  PROVE  /\ r.kind \in {"data", "bad", "other"} /\ r.addr \in Nat /\ r.len \in Nat
         /\ Reach(r) \in Nat /\ Word \in Nat \ {0} /\ (r.kind # "data" => Reach(r) = 0)
<1>1. \A i \in 0 .. Word - 1 : i \in Nat
  OBVIOUS
<1>2. \A i \in Lens : i \in Nat
  BY PureAssumption
<1>3. CASE r \in [kind : {"data"}, addr : 0 .. Word - 1, len : Lens]
  BY <1>1, <1>2, <1>3, BootCodeAssumption DEF Reach
<1>4. CASE r \in [kind : {"bad", "other"}, addr : {0}, len : {0}]
  BY <1>4, BootCodeAssumption DEF Reach
<1>5. QED
  BY <1>3, <1>4 DEF Record

LEMMA ReadTypes ==
  ASSUME NEW s \in State, NEW r \in Record, NEW n
  PROVE  ReadRecord(s, r, n) \in State
<1>1. CASE s.ended # "no" \/ r.kind = "other"
  BY <1>1 DEF ReadRecord
<1>2. CASE s.ended = "no" /\ r.kind = "bad"
  BY <1>2 DEF ReadRecord, State
<1>3. CASE s.ended = "no" /\ r.kind = "data" /\ r.addr + r.len > Word
  BY <1>3 DEF ReadRecord, State
<1>4. CASE s.ended = "no" /\ r.kind = "data" /\ ~ (r.addr + r.len > Word)
  <2> DEFINE mem == [a \in DOMAIN s.mem |-> IF a \in r.addr .. r.addr + r.len - 1
                                            THEN Byte(n, a - r.addr) ELSE s.mem[a]]
  <2>1. ReadRecord(s, r, n) = [s EXCEPT !.mem = mem, !.size = Size(s.size, r)]
    BY <1>4 DEF ReadRecord
  <2>2. mem \in [0 .. Word - 1 -> Words]
    <3>1. \A i : Byte(n, i) \in Words
      BY BitsTypes DEF Byte
    <3>2. QED
      BY <3>1 DEF State
  <2>3. Size(s.size, r) \in 0 .. Word
    BY <1>4, RecordFields DEF Size, State
  <2> HIDE DEF mem
  <2>4. QED
    BY <2>1, <2>2, <2>3 DEF State
<1>5. QED
  BY <1>1, <1>2, <1>3, <1>4, RecordFields

\* A data record gives its addresses their bytes.
LEMMA ContentStep ==
  ASSUME NEW file \in Seq(Record), NEW n \in 0 .. Len(file) - 1, NEW a \in 0 .. Word - 1
  PROVE  Content(file, n + 1, a)
           = IF /\ file[n + 1].kind = "data"
                /\ a \in file[n + 1].addr .. file[n + 1].addr + file[n + 1].len - 1
             THEN Byte(n + 1, a - file[n + 1].addr) ELSE Content(file, n, a)
<1> DEFINE Covers(k) == file[k].kind = "data"
                          /\ a \in file[k].addr .. file[k].addr + file[k].len - 1
<1>1. n \in Nat /\ \A k : k \in 1 .. n + 1 <=> k \in 1 .. n \/ k = n + 1
  OBVIOUS
<1>2. /\ From(file, n, a) = {k \in 1 .. n : Covers(k)}
      /\ From(file, n + 1, a) = {k \in 1 .. n + 1 : Covers(k)}
  BY DEF From
<1> HIDE DEF Covers
<1>3. CASE Covers(n + 1)
  <2>1. n + 1 \in From(file, n + 1, a) /\ From(file, n + 1, a) \in SUBSET Nat
        /\ \A k \in From(file, n + 1, a) : k <= n + 1
    BY <1>1, <1>2, <1>3
  <2>2. Max(From(file, n + 1, a)) = n + 1
    BY <1>1, <2>1, MaxIs
  <2>3. Content(file, n + 1, a) = Byte(n + 1, a - file[n + 1].addr)
    BY <2>1, <2>2 DEF Content
  <2>4. QED
    BY <1>3, <2>3 DEF Covers
<1>4. CASE ~ Covers(n + 1)
  <2>1. From(file, n + 1, a) = From(file, n, a)
    BY <1>1, <1>2, <1>4
  <2>2. Content(file, n + 1, a) = Content(file, n, a)
    BY <2>1 DEF Content
  <2>3. QED
    BY <1>4, <2>2 DEF Covers
<1>5. QED
  BY <1>3, <1>4

LEMMA SizeStep ==
  ASSUME NEW file \in Seq(Record), NEW n \in 0 .. Len(file) - 1, NEW size \in Nat,
         file[n + 1].kind = "data",
         size = Extent(file, n) \/ (size = Extent(file, n) - 1 /\ OneByte(file, n))
  PROVE  \/ Size(size, file[n + 1]) = Extent(file, n + 1)
         \/ Size(size, file[n + 1]) = Extent(file, n + 1) - 1 /\ OneByte(file, n + 1)
<1>1. /\ n \in Nat /\ n + 1 \in 1 .. Len(file) /\ n \in 0 .. Len(file) /\ n + 1 - 1 = n
      /\ file[n + 1] \in Record
  BY LenProperties, ElementOfSeq
<1>2. PICK e \in Nat, f \in Nat, r \in Nat :
        /\ e = Extent(file, n) /\ f = Extent(file, n + 1) /\ r = Reach(file[n + 1])
        /\ f = IF r > e THEN r ELSE e
  BY <1>1, ExtentIs
<1>3. Size(size, file[n + 1]) = IF r - 1 > size THEN r ELSE size
  BY <1>1, <1>2, RecordFields DEF Size, Reach
<1>4. CASE r - 1 > size
  BY <1>2, <1>3, <1>4
<1>5. CASE ~ (r - 1 > size) /\ r > e
  <2>1. size = e /\ f = e + 1
    BY <1>2, <1>5
  <2>2. OneByte(file, n + 1)
    <3>1. n + 1 \in 1 .. n + 1 /\ Extent(file, n + 1) = f /\ Extent(file, n + 1 - 1) = f - 1
      BY <1>1, <1>2, <2>1
    <3>2. QED
      BY <1>2, <3>1 DEF OneByte
  <2>3. QED
    BY <1>2, <1>3, <1>5, <2>1, <2>2
<1>6. CASE ~ (r - 1 > size) /\ ~ (r > e)
  <2>1. f = e
    BY <1>2, <1>6
  <2>2. OneByte(file, n) => OneByte(file, n + 1)
    <3>1. \A k \in 1 .. n : k \in 1 .. n + 1
      BY <1>1
    <3>2. QED
      BY <1>2, <2>1, <3>1 DEF OneByte
  <2>3. QED
    BY <1>2, <1>3, <1>6, <2>1, <2>2
<1>7. QED
  BY <1>4, <1>5, <1>6

\* readHex has read the first n records right, or has ended at a broken one.
LEMMA ReadStep ==
  ASSUME NEW file \in Seq(Record), NEW n \in 0 .. Len(file) - 1, NEW s \in State,
         IF Broken(file, n) THEN s.ended # "no" ELSE ReadTo(file, n, s),
         NEW t, t = ReadRecord(s, file[n + 1], n + 1)
  PROVE  IF Broken(file, n + 1) THEN t.ended # "no" ELSE ReadTo(file, n + 1, t)
<1> DEFINE r == file[n + 1]
<1>1. /\ n \in Nat /\ n + 1 \in 1 .. Len(file) /\ n \in 0 .. Len(file) /\ n + 1 - 1 = n
      /\ r \in Record
  BY LenProperties, ElementOfSeq
<1>2. /\ r.kind \in {"data", "bad", "other"} /\ r.addr \in Nat /\ r.len \in Nat
      /\ Reach(r) \in Nat /\ Word \in Nat \ {0} /\ (r.kind # "data" => Reach(r) = 0)
  BY <1>1, RecordFields
<1>3. Broken(file, n + 1) <=> Broken(file, n) \/ r.kind = "bad" \/ Reach(r) > Word
  <2>1. \A k : k \in 1 .. n + 1 <=> k \in 1 .. n \/ k = n + 1
    BY <1>1
  <2>2. QED
    BY <2>1 DEF Broken
<1>4. \A a \in 0 .. Word - 1 :
        Content(file, n + 1, a)
          = IF r.kind = "data" /\ a \in r.addr .. r.addr + r.len - 1
            THEN Byte(n + 1, a - r.addr) ELSE Content(file, n, a)
  BY ContentStep
<1>5. CASE s.ended # "no"
  <2>1. Broken(file, n)
    BY <1>5 DEF ReadTo
  <2>2. QED
    BY <1>3, <1>5, <2>1 DEF ReadRecord
<1>6. CASE s.ended = "no"
  <2>1. ~ Broken(file, n) /\ ReadTo(file, n, s)
    BY <1>6
  <2>2. CASE r.kind = "other"
    <3>1. t = s /\ ~ Broken(file, n + 1)
      BY <1>2, <1>3, <2>1, <2>2 DEF ReadRecord
    <3>2. Extent(file, n + 1) = Extent(file, n)
      <4>1. Extent(file, n) \in Nat /\ Reach(r) = 0
        BY <1>1, <1>2, <2>2, ExtentIs
      <4>2. QED
        BY <1>1, <4>1, ExtentIs
    <3>3. OneByte(file, n) => OneByte(file, n + 1)
      <4>1. \A k \in 1 .. n : k \in 1 .. n + 1
        BY <1>1
      <4>2. QED
        BY <3>2, <4>1 DEF OneByte
    <3>4. \A a \in 0 .. Word - 1 : t.mem[a] = Content(file, n + 1, a)
      BY <1>4, <2>1, <2>2, <3>1 DEF ReadTo
    <3>5. QED
      BY <1>6, <2>1, <3>1, <3>2, <3>3, <3>4 DEF ReadTo
  <2>3. CASE r.kind = "bad"
    <3>1. t.ended = "error" /\ Broken(file, n + 1)
      BY <1>3, <1>6, <2>3 DEF ReadRecord, State
    <3>2. QED
      BY <3>1
  <2>4. CASE r.kind = "data" /\ r.addr + r.len > Word
    <3>1. t.ended = "panic" /\ Broken(file, n + 1)
      BY <1>3, <1>6, <2>4 DEF ReadRecord, State, Reach
    <3>2. QED
      BY <3>1
  <2>5. CASE r.kind = "data" /\ ~ (r.addr + r.len > Word)
    <3> DEFINE mem == [a \in DOMAIN s.mem |-> IF a \in r.addr .. r.addr + r.len - 1
                                              THEN Byte(n + 1, a - r.addr) ELSE s.mem[a]]
    <3>1. t = [s EXCEPT !.mem = mem, !.size = Size(s.size, r)]
      BY <1>6, <2>5 DEF ReadRecord
    <3>2. ~ Broken(file, n + 1)
      BY <1>2, <1>3, <2>1, <2>5 DEF Reach
    <3>3. \A a \in 0 .. Word - 1 : mem[a] = Content(file, n + 1, a)
      BY <1>4, <2>1, <2>5 DEF ReadTo, State
    <3> HIDE DEF mem
    <3>4. t.ended = "no" /\ t.mem = mem /\ t.size = Size(s.size, r)
      BY <1>6, <3>1 DEF State
    <3>5. \/ t.size = Extent(file, n + 1)
          \/ t.size = Extent(file, n + 1) - 1 /\ OneByte(file, n + 1)
      <4>1. s.size \in Nat
        BY <1>2 DEF State
      <4>2. QED
        BY <2>1, <2>5, <3>4, <4>1, SizeStep DEF ReadTo
    <3>6. QED
      BY <3>2, <3>3, <3>4, <3>5 DEF ReadTo
  <2>6. QED
    BY <1>2, <2>2, <2>3, <2>4, <2>5
<1>7. QED
  BY <1>5, <1>6

LEMMA ReadFile ==
  ASSUME NEW file \in Seq(Record)
  PROVE  /\ Read(file) \in State
         /\ IF Broken(file, Len(file)) THEN Read(file).ended # "no"
            ELSE ReadTo(file, Len(file), Read(file))
<1> DEFINE m == Len(file)
           F == [n \in 1 .. m |-> [s \in State |-> ReadRecord(s, file[n], n)]]
<1>1. m \in Nat /\ \A n \in 1 .. m : file[n] \in Record
  BY LenProperties, ElementOfSeq
<1>2. Start \in State /\ Word \in Nat \ {0}
  <2>1. {} \in Words
    BY DEF Words
  <2>2. QED
    BY <2>1, BootCodeAssumption DEF Start, State
<1>3. \A s \in State, n \in 1 .. m : ReadRecord(s, file[n], n) \in State
  BY <1>1, ReadTypes
<1>4. F \in [1 .. m -> [State -> State]]
  BY <1>3
<1>5. PICK h \in [0 .. m -> State] : h[0] = Start /\ \A n \in 1 .. m : h[n] = F[n][h[n - 1]]
  <2>1. m \in Nat
    BY <1>1
  <2>2. Start \in State
    BY <1>2
  <2> HIDE DEF m, F
  <2>3. F \in [1 .. m -> [State -> State]]
    BY <1>4
  <2>4. \E h \in [0 .. m -> State] : h[0] = Start /\ \A n \in 1 .. m : h[n] = F[n][h[n - 1]]
    <3>1. PICK S, a : S = State /\ a = Start
      OBVIOUS
    <3>2. a \in S /\ F \in [1 .. m -> [S -> S]]
      BY <2>2, <2>3, <3>1
    <3>3. \E h \in [0 .. m -> S] : h[0] = a /\ \A n \in 1 .. m : h[n] = F[n][h[n - 1]]
      BY <2>1, <3>2, Iterated
    <3>4. QED
      BY <3>1, <3>3
  <2>5. QED
    BY <2>4
<1> HIDE DEF m
<1>6. \A n \in 1 .. m : n - 1 \in 0 .. m /\ n # 0 /\ n \in 0 .. m
  BY <1>1
<1>7. \A n \in 1 .. m : h[n - 1] \in State /\ h[n] = ReadRecord(h[n - 1], file[n], n)
  BY <1>5, <1>6
<1> HIDE DEF F
<1> DEFINE Equation(f) == f = [n \in 0 .. m |-> IF n = 0 THEN Start
                                                ELSE ReadRecord(f[n - 1], file[n], n)]
           s == CHOOSE f : Equation(f)
<1>8. Equation(h)
  <2>1. \A n \in 0 .. m : n = 0 \/ n \in 1 .. m
    BY <1>1
  <2>2. \A n \in 0 .. m : h[n] = IF n = 0 THEN Start ELSE ReadRecord(h[n - 1], file[n], n)
    BY <1>5, <1>6, <1>7, <2>1
  <2>3. QED
    BY <2>2
<1>9. Read(file) = s[m]
  BY DEF Read, m
<1> HIDE DEF Equation
<1>10. Equation(s)
  BY <1>8, Zenon
<1> HIDE DEF s
<1>11. s[0] = Start /\ \A n \in 1 .. m : s[n] = ReadRecord(s[n - 1], file[n], n)
  BY <1>1, <1>6, <1>10 DEF Equation
<1> DEFINE Right(n) == s[n] \in State /\ IF Broken(file, n) THEN s[n].ended # "no"
                                          ELSE ReadTo(file, n, s[n])
           T == {n \in 0 .. m : Right(n)}
<1>12. Right(0)
  <2>1. ~ Broken(file, 0) /\ \A a : From(file, 0, a) = {}
    BY DEF Broken, From
  <2>2. Extent(file, 0) = 0
    BY ExtentIs
  <2>3. Start.ended = "no" /\ Start.size = 0 /\ \A a \in 0 .. Word - 1 : Start.mem[a] = {}
    BY <1>2 DEF Start
  <2>4. ReadTo(file, 0, Start)
    BY <2>1, <2>2, <2>3 DEF ReadTo, Content
  <2>5. QED
    BY <1>2, <1>11, <2>1, <2>4
<1>13. ASSUME NEW n \in 0 .. m - 1, Right(n) PROVE Right(n + 1)
  <2>1. n + 1 \in 1 .. m /\ n + 1 - 1 = n
    BY <1>1
  <2>2. s[n + 1] = ReadRecord(s[n], file[n + 1], n + 1) /\ s[n + 1] \in State
    BY <1>3, <1>11, <1>13, <2>1
  <2>3. QED
    BY <1>13, <2>2, ReadStep DEF m
<1> HIDE DEF Right
<1>14. 0 \in T
  BY <1>1, <1>12
<1>15. ASSUME NEW n \in 0 .. m - 1, n \in T PROVE n + 1 \in T
  BY <1>1, <1>13, <1>15
<1> HIDE DEF T
<1>16. \A n \in 0 .. m : n \in T
  BY <1>1, <1>14, <1>15, AllUpTo
<1>17. Right(m)
  BY <1>1, <1>16 DEF T
<1>18. QED
  BY <1>9, <1>17 DEF Right, m

-----------------------------------------------------------------------------
(* The download of the chunks.                                             *)

\* The chunks a node asks for: each starts within the software, and together they
\* cover it.
LEMMA ChunkNumbers ==
  ASSUME NEW L \in Nat, L < Word, NEW C, C = (L + Chunk - 1) \div Chunk
  PROVE  /\ C \in Nat /\ L <= C * Chunk
         /\ \A n \in 0 .. C - 1 : n * Chunk \in Nat /\ n * Chunk < L /\ Offset(n) = n * Chunk
<1>1. PICK d \in Nat \ {0}, w \in Nat \ {0} : d = Chunk /\ w = Word
  BY BootCodeAssumption
<1>2. PICK x \in Nat : x = L + d - 1
  BY <1>1
<1>3. C = x \div d /\ C \in Nat /\ x % d \in 0 .. d - 1 /\ x = d * (x \div d) + (x % d)
  BY <1>1, <1>2
<1>4. C * d = d * (x \div d) /\ C * d \in Nat
  BY <1>1, <1>3
<1>5. L <= C * d /\ C * d < L + d
  <2>1. PICK p \in Nat, r \in 0 .. d - 1 : p = d * (x \div d) /\ r = x % d
    BY <1>3, <1>4
  <2>2. x = p + r /\ C * d = p
    BY <1>3, <1>4, <2>1
  <2>3. QED
    BY <1>1, <1>2, <2>1, <2>2
<1>6. ASSUME NEW n \in 0 .. C - 1
      PROVE  n * Chunk \in Nat /\ n * Chunk < L /\ Offset(n) = n * Chunk
  <2>1. n \in Nat /\ n + 1 \in Nat /\ n + 1 <= C
    BY <1>3
  <2>2. (n + 1) * d <= C * d
    BY <1>3, <2>1
  <2>3. (n + 1) * d = n * d + d /\ n * d \in Nat
    BY <2>1
  <2>4. n * d < L
    <3>1. PICK p \in Nat, q \in Nat : p = n * d /\ q = C * d
      BY <1>4, <2>3
    <3>2. QED
      BY <1>1, <1>5, <2>2, <2>3, <3>1
  <2>5. (n * d) % w = n * d
    <3>1. PICK p \in Nat : p = n * d
      BY <2>3
    <3>2. p < w
      BY <1>1, <2>4, <3>1
    <3>3. p % w = p
      BY <3>2
    <3>4. QED
      BY <3>1, <3>3
  <2>6. QED
    BY <1>1, <2>3, <2>4, <2>5 DEF Offset
<1>7. QED
  BY <1>1, <1>3, <1>5, <1>6

\* The node takes off what Download has put on.
LEMMA WhitenedTwice ==
  ASSUME NEW data \in Seq(Words)
  PROVE  DeWhiten(DeWhiten(data)) = data
<1> DEFINE once == DeWhiten(data)
           twice == DeWhiten(once)
<1>1. DOMAIN data = 1 .. Len(data) /\ \A k \in 1 .. Len(data) : data[k] \in Words
  BY ElementOfSeq
<1>2. DOMAIN once = DOMAIN data /\ DOMAIN twice = DOMAIN once
  BY DEF DeWhiten
<1>3. \A k \in DOMAIN data : once[k] = Xor(data[k], Bits((211 * (k - 1)) % 256))
  BY DEF DeWhiten
<1>4. \A k \in DOMAIN once : twice[k] = Xor(once[k], Bits((211 * (k - 1)) % 256))
  BY DEF DeWhiten
<1>5. twice = [k \in DOMAIN twice |-> twice[k]] /\ data = [k \in DOMAIN data |-> data[k]]
  BY <1>1 DEF DeWhiten
<1> HIDE DEF once, twice
<1>6. ASSUME NEW k \in DOMAIN data PROVE twice[k] = data[k]
  <2>1. PICK y : y = Bits((211 * (k - 1)) % 256)
    OBVIOUS
  <2>2. twice[k] = Xor(Xor(data[k], y), y)
    BY <1>2, <1>3, <1>4, <2>1
  <2>3. QED
    BY <2>2, XorAlgebra
<1>7. twice = data
  BY <1>2, <1>5, <1>6
<1>8. QED
  BY <1>7 DEF once, twice

\* What the node has put together, by its number of chunks.
LEMMA DownloadedIs ==
  ASSUME NEW sw \in Seq(Words), Chunks(sw) \in Nat, NEW h,
         h = [n \in 0 .. Chunks(sw) |-> h[n]], h[0] = <<>>,
         \A n \in 1 .. Chunks(sw) : h[n] = h[n - 1] \o DeWhiten(Download(sw, n - 1))
  PROVE  Downloaded(sw) = h[Chunks(sw)]
<1> DEFINE m == Chunks(sw)
           Equation(f) == f = [n \in 0 .. m |-> IF n = 0 THEN <<>>
                                ELSE f[n - 1] \o DeWhiten(Download(sw, n - 1))]
           got == CHOOSE f : Equation(f)
           T == {n \in 0 .. m : got[n] = h[n]}
<1>1. m \in Nat /\ h = [n \in 0 .. m |-> h[n]]
  OBVIOUS
<1>2. \A n \in 1 .. m : h[n] = h[n - 1] \o DeWhiten(Download(sw, n - 1))
  OBVIOUS
<1>3. Downloaded(sw) = got[m]
  BY DEF Downloaded
<1> HIDE DEF m
<1>4. Equation(h)
  <2>1. \A n \in 0 .. m : n = 0 \/ n \in 1 .. m
    BY <1>1
  <2>2. \A n \in 0 .. m : h[n] = IF n = 0 THEN <<>>
                                 ELSE h[n - 1] \o DeWhiten(Download(sw, n - 1))
    BY <1>2, <2>1
  <2>3. QED
    BY <1>1, <2>2
<1> HIDE DEF Equation
<1>5. Equation(got)
  BY <1>4, Zenon
<1> HIDE DEF got
<1>6. \A n \in 0 .. m : got[n] = IF n = 0 THEN <<>>
                                 ELSE got[n - 1] \o DeWhiten(Download(sw, n - 1))
  BY <1>5 DEF Equation
<1>7. 0 \in T
  BY <1>1, <1>6
<1>8. ASSUME NEW n \in 0 .. m - 1, n \in T PROVE n + 1 \in T
  <2>1. PICK k \in 1 .. m : k = n + 1 /\ k - 1 = n /\ k \in 0 .. m /\ k # 0
    BY <1>1
  <2>2. h[k] = h[n] \o DeWhiten(Download(sw, n))
    BY <1>2, <2>1
  <2>3. got[k] = got[n] \o DeWhiten(Download(sw, n))
    BY <1>6, <2>1
  <2>4. QED
    BY <1>8, <2>1, <2>2, <2>3
<1> HIDE DEF T
<1>9. m \in T
  <2>1. \A n \in 0 .. m : n \in T
    BY <1>1, <1>7, <1>8, AllUpTo
  <2>2. QED
    BY <1>1, <2>1
<1>10. QED
  BY <1>3, <1>9 DEF T, m

\* A software that fills the address space has, for the boot server, no byte.
LEMMA NoDownload ==
  ASSUME NEW sw \in Seq(Words), Len(sw) = Word
  PROVE  Downloaded(sw) = <<>>
<1>1. PICK c \in Nat : c = Chunks(sw)
  <2>1. PICK d \in Nat \ {0}, r \in Nat \ {0}, w \in Nat \ {0} :
          d = Chunk /\ r = Round /\ w = Word
    BY BootCodeAssumption
  <2>2. w \div r \in Nat
    BY <2>1
  <2>3. (w \div r) % w \in Nat
    BY <2>1, <2>2
  <2>4. PICK x \in Nat : x = (w \div r) % w
    BY <2>3
  <2>5. x * r \in Nat
    BY <2>1, <2>4
  <2>6. x * r + d - 1 \in Nat
    BY <2>1, <2>5
  <2>7. (x * r + d - 1) \div d \in Nat
    BY <2>1, <2>6
  <2>8. SwSize(sw) = x
    BY <2>1, <2>4 DEF SwSize
  <2>9. Chunks(sw) = (x * r + d - 1) \div d
    BY <2>1, <2>8 DEF Chunks
  <2>10. QED
    BY <2>7, <2>9
<1>2. ASSUME NEW n \in 0 .. c - 1 PROVE DeWhiten(Download(sw, n)) = <<>>
  <2>1. PICK d \in Nat \ {0}, w \in Nat \ {0} : d = Chunk /\ w = Word
    BY BootCodeAssumption
  <2>2. n * d \in Nat /\ w % w = 0
    BY <2>1
  <2>3. (n * d) % w \in Nat
    BY <2>1, <2>2
  <2>4. Offset(n) \in Nat /\ Len(sw) % Word = 0
    BY <2>1, <2>2, <2>3 DEF Offset
  <2>5. Download(sw, n) = <<>>
    BY <2>4 DEF Download
  <2>6. DeWhiten(<<>>) = <<>>
    BY DEF DeWhiten
  <2>7. QED
    BY <2>5, <2>6
<1> DEFINE h == [n \in 0 .. c |-> <<>>]
<1>3. h = [n \in 0 .. c |-> h[n]] /\ h[0] = <<>> /\ h[c] = <<>>
  OBVIOUS
<1>4. ASSUME NEW n \in 1 .. c PROVE h[n] = h[n - 1] \o DeWhiten(Download(sw, n - 1))
  <2>1. n - 1 \in 0 .. c - 1 /\ n - 1 \in 0 .. c
    OBVIOUS
  <2>2. h[n] = <<>> /\ h[n - 1] = <<>> /\ DeWhiten(Download(sw, n - 1)) = <<>>
    BY <1>2, <2>1
  <2>3. <<>> \o <<>> = <<>>
    OBVIOUS
  <2> HIDE DEF h
  <2>4. QED
    BY <2>2, <2>3
<1> HIDE DEF h
<1>5. Downloaded(sw) = h[c]
  BY <1>1, <1>3, <1>4, DownloadedIs
<1>6. QED
  BY <1>3, <1>5

\* A smaller software, of full rounds, arrives as it is.
LEMMA FullDownload ==
  ASSUME NEW sw \in Seq(Words), Len(sw) < Word, Len(sw) % Round = 0
  PROVE  Downloaded(sw) = sw
<1>1. PICK L \in Nat : L = Len(sw) /\ L < Word
  BY LenProperties
<1>2. Chunks(sw) = (L + Chunk - 1) \div Chunk
  <2>1. PICK d \in Nat \ {0}, r \in Nat \ {0}, w \in Nat \ {0} :
          d = Chunk /\ r = Round /\ w = Word
    BY BootCodeAssumption
  <2>2. L \div r \in Nat /\ L = r * (L \div r) + (L % r) /\ L % r = 0
    BY <1>1, <2>1
  <2>3. PICK q \in Nat : q = L \div r
    BY <2>2
  <2>4. L = r * q /\ L = q * r
    BY <2>1, <2>2, <2>3
  <2>5. q <= q * r
    BY <2>1
  <2>6. q < w
    BY <1>1, <2>1, <2>4, <2>5
  <2>7. q % w = q
    BY <2>1, <2>6
  <2>8. SwSize(sw) = q
    BY <1>1, <2>1, <2>3, <2>7 DEF SwSize
  <2>9. QED
    BY <2>1, <2>4, <2>8 DEF Chunks
<1>3. PICK c : c = Chunks(sw)
  OBVIOUS
<1>4. /\ c \in Nat /\ L <= c * Chunk
      /\ \A n \in 0 .. c - 1 : n * Chunk \in Nat /\ n * Chunk < L /\ Offset(n) = n * Chunk
  BY <1>1, <1>2, <1>3, ChunkNumbers
<1>5. Chunk \in Nat \ {0} /\ Word \in Nat \ {0}
  BY BootCodeAssumption
<1> DEFINE End(n) == IF n * Chunk <= L THEN n * Chunk ELSE L
           h == [n \in 0 .. c |-> SubSeq(sw, 1, End(n))]
<1>6. ASSUME NEW n \in 0 .. c - 1
      PROVE  SubSeq(sw, 1, End(n)) \o DeWhiten(Download(sw, n)) = SubSeq(sw, 1, End(n + 1))
  <2>1. PICK p \in Nat, q \in Nat : /\ p = n * Chunk /\ p < L /\ Offset(n) = p
                                    /\ q = End(n + 1) /\ p <= q /\ q <= L
                                    /\ q = IF p + Chunk <= L THEN p + Chunk ELSE L
    <3>1. (n + 1) * Chunk = n * Chunk + Chunk
      BY <1>4, <1>5
    <3>2. PICK p \in Nat : p = n * Chunk /\ p < L /\ Offset(n) = p
      BY <1>4
    <3>3. End(n + 1) = IF p + Chunk <= L THEN p + Chunk ELSE L
      BY <3>1, <3>2
    <3> HIDE DEF End
    <3>4. QED
      BY <1>1, <1>5, <3>2, <3>3
  <2>2. End(n) = p
    BY <2>1
  <2> HIDE DEF End
  <2>3. L % Word = L
    BY <1>1, <1>5
  <2>4. Min({p + Chunk, L}) = q
    BY <1>5, <2>1 DEF Min
  <2>5. Download(sw, n) = DeWhiten(SubSeq(sw, p + 1, q))
    BY <1>1, <2>1, <2>3, <2>4 DEF Download
  <2>6. SubSeq(sw, p + 1, q) \in Seq(Words)
    <3>1. \A i \in p + 1 .. q : sw[i] \in Words
      <4>1. \A i \in p + 1 .. q : i \in 1 .. Len(sw)
        BY <1>1, <2>1
      <4>2. QED
        BY <4>1, ElementOfSeq
    <3>2. QED
      BY <2>1, <3>1, SubSeqProperties
  <2>7. DeWhiten(Download(sw, n)) = SubSeq(sw, p + 1, q)
    BY <2>5, <2>6, WhitenedTwice
  <2>8. SubSeq(sw, 1, p) \o SubSeq(sw, p + 1, q) = SubSeq(sw, 1, q)
    <3>1. 1 \in 1 .. Len(sw) + 1 /\ p \in 1 - 1 .. Len(sw) /\ q \in p .. Len(sw)
      BY <1>1, <2>1
    <3>2. QED
      BY <3>1, ConcatAdjacentSubSeq
  <2>9. QED
    BY <2>1, <2>2, <2>7, <2>8
<1>7. h = [n \in 0 .. c |-> h[n]] /\ h[0] = <<>> /\ h[c] = sw
  <2>1. End(0) = 0
    BY <1>5
  <2>2. End(c) = L
    <3>1. PICK p : p = c * Chunk
      OBVIOUS
    <3>2. p \in Nat /\ L <= p
      BY <1>4, <1>5, <3>1
    <3>3. End(c) = IF p <= L THEN p ELSE L
      BY <3>1
    <3> HIDE DEF End
    <3>4. QED
      BY <3>2, <3>3
  <2>3. SubSeq(sw, 1, 0) = <<>>
    BY SubSeqEmpty
  <2>4. SubSeq(sw, 1, L) = sw
    BY <1>1, SubSeqFull
  <2> HIDE DEF End
  <2>5. 0 \in 0 .. c /\ c \in 0 .. c
    BY <1>4
  <2>6. QED
    BY <2>1, <2>2, <2>3, <2>4, <2>5
<1>8. ASSUME NEW n \in 1 .. c PROVE h[n] = h[n - 1] \o DeWhiten(Download(sw, n - 1))
  <2>1. PICK k \in 0 .. c - 1 : k = n - 1 /\ n = k + 1 /\ k \in 0 .. c /\ n \in 0 .. c
    BY <1>4
  <2> HIDE DEF End
  <2>2. h[n] = SubSeq(sw, 1, End(k + 1)) /\ h[n - 1] = SubSeq(sw, 1, End(k))
    BY <2>1
  <2> HIDE DEF h
  <2>3. QED
    BY <1>6, <2>1, <2>2
<1> HIDE DEF h
<1>9. Downloaded(sw) = h[c]
  BY <1>3, <1>4, <1>7, <1>8, DownloadedIs
<1>10. QED
  BY <1>7, <1>9

-----------------------------------------------------------------------------
(* The software of a hex file, of full rounds.                             *)

LEMMA RemainderOfProduct ==
  ASSUME NEW d \in Nat \ {0}, NEW k \in Nat
  PROVE  (d * k) % d = 0
<1>1. PICK x \in Nat : x = d * k
  OBVIOUS
<1>2. x % d \in 0 .. d - 1 /\ x \div d \in Nat /\ x = d * (x \div d) + (x % d)
  BY <1>1
<1>3. PICK q \in Nat, r \in 0 .. d - 1 : q = x \div d /\ r = x % d /\ d * k = d * q + r
  BY <1>1, <1>2
<1>4. CASE q = k
  <2>1. d * k \in Nat
    OBVIOUS
  <2>2. QED
    BY <1>1, <1>3, <1>4, <2>1
<1>5. CASE q < k
  <2>1. d * (q + 1) <= d * k /\ d * (q + 1) = d * q + d
    BY <1>5
  <2>2. QED
    BY <1>3, <2>1
<1>6. CASE k < q
  <2>1. d * k < d * q
    BY <1>6
  <2>2. QED
    BY <1>3, <2>1
<1>7. QED
  BY <1>4, <1>5, <1>6

LEMMA RoundUpIs ==
  ASSUME NEW n \in Nat, n <= Word
  PROVE  RoundUp(n) \in Nat /\ n <= RoundUp(n) /\ RoundUp(n) <= Word /\ RoundUp(n) % Round = 0
<1>1. PICK d \in Nat \ {0}, r \in Nat \ {0}, w \in Nat \ {0} :
        d = Chunk /\ r = Round /\ w = Word /\ w % d = 0 /\ d % r = 0
  BY BootCodeAssumption
<1>2. PICK v \in Nat : w = r * v
  <2>1. PICK x \in Nat, y \in Nat : w = d * x /\ d = r * y
    <3>1. w = d * (w \div d) + (w % d) /\ w \div d \in Nat
      OBVIOUS
    <3>2. d = r * (d \div r) + (d % r) /\ d \div r \in Nat
      OBVIOUS
    <3>3. w = d * (w \div d) /\ d = r * (d \div r)
      BY <1>1, <3>1, <3>2
    <3>4. QED
      BY <3>1, <3>2, <3>3
  <2>2. y * x \in Nat /\ (r * y) * x = r * (y * x)
    OBVIOUS
  <2>3. QED
    BY <2>1, <2>2
<1>3. PICK q \in Nat, m \in 0 .. r - 1 : n = r * q + m /\ m = n % r
  <2>1. n % r \in 0 .. r - 1 /\ n \div r \in Nat /\ n = r * (n \div r) + (n % r)
    BY <1>1
  <2>2. QED
    BY <2>1
<1>4. CASE m = 0
  <2>1. r % r = 0
    OBVIOUS
  <2>2. (r - m) % r = 0
    BY <1>4, <2>1
  <2>3. RoundUp(n) = n
    BY <1>1, <1>3, <2>2 DEF RoundUp
  <2>4. QED
    BY <1>1, <1>3, <1>4, <2>3
<1>5. CASE m # 0
  <2>1. (r - m) % r = r - m
    BY <1>5
  <2>2. RoundUp(n) = n + (r - m)
    BY <1>1, <1>3, <2>1 DEF RoundUp
  <2>3. r * (q + 1) = r * q + r
    OBVIOUS
  <2>4. RoundUp(n) = r * (q + 1) /\ n < r * (q + 1)
    <3>1. r * q \in Nat
      OBVIOUS
    <3>2. PICK p \in Nat : p = r * q
      BY <3>1
    <3>3. QED
      BY <1>3, <2>2, <2>3, <3>2
  <2>5. q < v
    <3>1. PICK p \in Nat, p2 \in Nat : p = r * q /\ p2 = r * v
      OBVIOUS
    <3>2. p < p2
      BY <1>1, <1>2, <1>3, <1>5, <3>1
    <3>3. v <= q => r * v <= r * q
      OBVIOUS
    <3>4. QED
      BY <3>1, <3>2, <3>3
  <2>6. r * (q + 1) <= r * v /\ r * (q + 1) \in Nat
    BY <2>5
  <2>7. (r * (q + 1)) % r = 0
    BY RemainderOfProduct
  <2>8. QED
    BY <1>1, <1>2, <2>4, <2>6, <2>7
<1>6. QED
  BY <1>4, <1>5

LEMMA FilledIs ==
  ASSUME NEW mem \in [0 .. Word - 1 -> Words], NEW size \in 0 .. Word
  PROVE  /\ Filled(mem, size) \in Seq(Words) /\ Len(Filled(mem, size)) = RoundUp(size)
         /\ RoundUp(size) <= Word /\ RoundUp(size) % Round = 0
<1>1. size \in Nat /\ size <= Word /\ Word \in Nat \ {0}
  BY BootCodeAssumption
<1>2. /\ RoundUp(size) \in Nat /\ size <= RoundUp(size) /\ RoundUp(size) <= Word
      /\ RoundUp(size) % Round = 0
  BY <1>1, RoundUpIs
<1>3. PICK N \in Nat : N = RoundUp(size)
  BY <1>2
<1> DEFINE f == [k \in 1 .. N |-> IF k <= size THEN mem[k - 1] ELSE {}]
<1>4. \A k \in 1 .. N : f[k] \in Words
  <2>1. {} \in Words
    BY DEF Words
  <2>2. \A k \in 1 .. N : k <= size => k - 1 \in 0 .. Word - 1
    BY <1>1
  <2>3. QED
    BY <2>1, <2>2
<1>5. f \in [1 .. N -> Words]
  BY <1>4
<1>6. Filled(mem, size) = f
  BY <1>3 DEF Filled
<1> HIDE DEF f
<1>7. f \in Seq(Words) /\ Len(f) = N
  BY <1>5
<1>8. QED
  BY <1>2, <1>3, <1>6, <1>7

LEMMA DownloadOfFile ==
  ASSUME NEW mem \in [0 .. Word - 1 -> Words], NEW size \in 0 .. Word
  PROVE  Downloaded(Filled(mem, size))
           = IF Len(Filled(mem, size)) = Word THEN <<>> ELSE Filled(mem, size)
<1>1. PICK sw \in Seq(Words) : sw = Filled(mem, size)
  BY FilledIs
<1>2. Len(sw) \in Nat /\ Len(sw) <= Word /\ Len(sw) % Round = 0 /\ Word \in Nat
  BY <1>1, FilledIs, LenProperties, BootCodeAssumption
<1>3. CASE Len(sw) = Word
  BY <1>1, <1>3, NoDownload
<1>4. CASE Len(sw) # Word
  <2>1. Len(sw) < Word
    BY <1>2, <1>4
  <2>2. QED
    BY <1>1, <1>2, <1>4, <2>1, FullDownload
<1>5. QED
  BY <1>3, <1>4

\* DownloadIsImage, for every hex file.
LEMMA DownloadOfHex ==
  ASSUME NEW file \in Seq(Record), NEW s, s = Read(file), NEW sw, sw = ReadHex(file),
         NEW whole, whole = Extent(file, Len(file))
  PROVE  IF \E n \in DOMAIN file : file[n].kind = "bad" \/ Reach(file[n]) > Word
         THEN s.ended # "no"
         ELSE /\ s.ended = "no"
              /\ IF Len(sw) = Word THEN Downloaded(sw) = <<>>
                 ELSE \/ Downloaded(sw) = Filled(Image(file), whole)
                      \/ OneByteEnd(file) /\ Downloaded(sw) = Filled(Image(file), whole - 1)
<1>1. PICK m \in Nat : m = Len(file) /\ DOMAIN file = 1 .. m
  BY LenProperties
<1>2. /\ s \in State
      /\ IF Broken(file, m) THEN s.ended # "no" ELSE ReadTo(file, m, s)
  BY <1>1, ReadFile
<1>3. Broken(file, m) <=> \E n \in DOMAIN file : file[n].kind = "bad" \/ Reach(file[n]) > Word
  BY <1>1 DEF Broken
<1>4. CASE Broken(file, m)
  BY <1>2, <1>3, <1>4
<1>5. CASE ~ Broken(file, m)
  <2>1. ReadTo(file, m, s)
    BY <1>2, <1>5
  <2>2. s.mem \in [0 .. Word - 1 -> Words] /\ s.size \in 0 .. Word
    BY <1>2 DEF State
  <2>3. s.mem = Image(file)
    <3>1. \A a : From(file, m, a)
                  = {n \in DOMAIN file : file[n].kind = "data"
                       /\ a \in file[n].addr .. file[n].addr + file[n].len - 1}
      BY <1>1 DEF From
    <3>2. Image(file) = [a \in 0 .. Word - 1 |-> Content(file, m, a)]
      BY <3>1, Zenon DEF Image, Content
    <3>3. \A a \in 0 .. Word - 1 : s.mem[a] = Content(file, m, a)
      BY <2>1 DEF ReadTo
    <3>4. QED
      BY <2>2, <3>2, <3>3
  <2>4. OneByte(file, m) => OneByteEnd(file)
    BY <1>1 DEF OneByte, OneByteEnd
  <2>5. s.size = whole \/ (s.size = whole - 1 /\ OneByteEnd(file))
    BY <1>1, <2>1, <2>4 DEF ReadTo
  <2>6. sw = Filled(s.mem, s.size)
    BY DEF ReadHex
  <2>7. Downloaded(sw) = IF Len(sw) = Word THEN <<>> ELSE sw
    BY <2>2, <2>6, DownloadOfFile
  <2>8. s.ended = "no"
    BY <2>1 DEF ReadTo
  <2>9. QED
    BY <1>3, <1>5, <2>3, <2>5, <2>6, <2>7, <2>8
<1>6. QED
  BY <1>4, <1>5

-----------------------------------------------------------------------------
(* The theorems of the specification.                                      *)

TypeOK == bytes \in Seq(Bytes) /\ hex \in Seq(Record)

LEMMA TypeCorrect == Spec => []TypeOK
<1>1. Init => TypeOK
  BY DEF Init, TypeOK
<1>2. TypeOK /\ [Next]_vars => TypeOK'
  <2> SUFFICES ASSUME TypeOK, [Next]_vars PROVE TypeOK'
    OBVIOUS
  <2>1. CASE AddByte
    <3>1. PICK b \in Bytes : bytes' = Append(bytes, b) /\ hex' = hex
      BY <2>1, PureAssumption DEF AddByte
    <3>2. QED
      BY <3>1 DEF TypeOK
  <2>2. CASE AddRecord
    <3>1. PICK r \in Record : hex' = Append(hex, r) /\ bytes' = bytes
      BY <2>2 DEF AddRecord
    <3>2. QED
      BY <3>1 DEF TypeOK
  <2>3. CASE AddPoint
    BY <2>3 DEF AddPoint, TypeOK
  <2>4. CASE UNCHANGED vars
    BY <2>4 DEF vars, TypeOK
  <2>5. QED
    BY <2>1, <2>2, <2>3, <2>4 DEF Next
<1>3. QED
  BY <1>1, <1>2, PTL DEF Spec

\* The CRC that the boot server announces with a software (Crc16, four bits at a time
\* with the table) is for every software the one of the reference implementation, by
\* which the boot loader of the node checks it.
THEOREM CrcIsReference == Spec => []CrcMatchesReference
<1>1. TypeOK => CrcMatchesReference
  BY CrcOfSoftware DEF TypeOK, CrcMatchesReference
<1>2. QED
  BY <1>1, TypeCorrect, PTL

\* For every hex file, and every size of address space, chunk and round: the chunks
\* that Download returns are the image of the file that readHex read, or nothing if it
\* fills the address space; a broken file is never downloaded.
THEOREM DownloadsAreImages == Spec => []DownloadIsImage
<1>1. TypeOK => DownloadIsImage
  BY DownloadOfHex DEF TypeOK, DownloadIsImage
<1>2. QED
  BY <1>1, TypeCorrect, PTL
=================================================================================
