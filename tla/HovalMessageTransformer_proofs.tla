---------------------- MODULE HovalMessageTransformer_proofs ----------------------
(***************************************************************************)
(* Proofs about the conversions of values, for every register, duration    *)
(* and percentage, about the table of types they use, and about the error  *)
(* slots, for any number of them.                                          *)
(*                                                                         *)
(* The arithmetic comes first: a quotient in single precision is off by at *)
(* most half a unit in its last place, a value of 16 bits has at least     *)
(* eight places to spare, and so rounding or truncating it gives the value *)
(* one expects.  Then come the bytes, the table of entries, and what each  *)
(* kind of entry writes and shows; the invariant of the specification only *)
(* says which of these the last step was.  The table of types and the      *)
(* error slots are at the end.                                             *)
(***************************************************************************)
EXTENDS HovalMessageTransformer, ErrorSlots, WellFoundedInduction, TLAPS

-------------------------------------------------------------------------------
(* Powers of two and single precision.                                       *)

(* Every set of naturals that is not empty has a least element.              *)
LEMMA Least ==
  ASSUME NEW T, T \subseteq Nat, T # {}
  PROVE  \E x \in T : \A y \in T : x <= y
<1> DEFINE R == OpToRel(<, Nat)
<1>1. IsWellFoundedOn(R, Nat)
  BY NatLessThanWellFounded
<1>2. \A x, y \in Nat : x < y <=> <<x, y>> \in R
  BY DEF OpToRel
<1> HIDE DEF R
<1>3. PICK x \in T : \A y \in T : ~(<<y, x>> \in R)
  BY <1>1, WFMin
<1>4. ASSUME NEW y \in T PROVE x <= y
  <2>1. x \in Nat /\ y \in Nat
    OBVIOUS
  <2>2. ~(y < x)
    BY <1>2, <1>3, <2>1, Zenon
  <2> QED
    BY <2>1, <2>2
<1> QED
  BY <1>3, <1>4

(* Induction: the least number that is missing has one before it.            *)
LEMMA Induct ==
  ASSUME NEW T \in SUBSET Nat, 0 \in T, \A n \in T : n + 1 \in T
  PROVE  T = Nat
<1> SUFFICES ASSUME Nat \ T # {} PROVE FALSE
  OBVIOUS
<1>1. PICK x \in Nat \ T : \A y \in Nat \ T : x <= y
  BY Least
<1>2. x - 1 \in Nat /\ ~(x <= x - 1)
  BY <1>1
<1>3. x - 1 \in T
  BY <1>1, <1>2
<1>4. (x - 1) + 1 = x
  BY <1>1
<1> QED
  BY <1>1, <1>3, <1>4

\* A power of two, kept apart from the arithmetic about it.
Two(k) == 2^k

(* The powers of two the conversions use.                                    *)
LEMMA Doubling ==
  ASSUME NEW k \in 1 .. 30
  PROVE  Two(k) \in Int /\ Two(k - 1) \in Int /\ Two(k - 1) >= 1 /\ Two(k) = 2 * Two(k - 1)
<1> DEFINE power == [j \in 0 .. 30 |-> 2^j]
<1>1. /\ power[0] = 1 /\ power[1] = 2 /\ power[2] = 4 /\ power[3] = 8 /\ power[4] = 16
      /\ power[5] = 32 /\ power[6] = 64 /\ power[7] = 128 /\ power[8] = 256 /\ power[9] = 512
      /\ power[10] = 1024 /\ power[11] = 2048 /\ power[12] = 4096 /\ power[13] = 8192
      /\ power[14] = 16384 /\ power[15] = 32768 /\ power[16] = 65536 /\ power[17] = 131072
      /\ power[18] = 262144 /\ power[19] = 524288 /\ power[20] = 1048576 /\ power[21] = 2097152
      /\ power[22] = 4194304 /\ power[23] = 8388608 /\ power[24] = 16777216
      /\ power[25] = 33554432 /\ power[26] = 67108864 /\ power[27] = 134217728
      /\ power[28] = 268435456 /\ power[29] = 536870912 /\ power[30] = 1073741824
  BY SMT
<1>2. Two(k) = power[k] /\ Two(k - 1) = power[k - 1]
  BY SMT DEF Two
<1> HIDE DEF power
<1>3. power[k] = 2 * power[k - 1] /\ power[k - 1] \in Int /\ power[k - 1] >= 1
  <2>1. CASE k <= 10
    BY <1>1, <2>1, SMT
  <2>2. CASE k > 10 /\ k <= 20
    BY <1>1, <2>2, SMT
  <2>3. CASE k > 20
    BY <1>1, <2>3, SMT
  <2> QED
    BY <2>1, <2>2, <2>3
<1> QED
  BY <1>2, <1>3

(* Rounding half to even is off by at most a half.                           *)
LEMMA RoundedToNearest ==
  ASSUME NEW a \in Int, NEW b \in Int, a >= 0, b > 0
  PROVE  /\ roundHalfEven(a, b) \in Int
         /\ 2 * (b * roundHalfEven(a, b)) <= 2 * a + b
         /\ 2 * (b * roundHalfEven(a, b)) >= 2 * a - b
<1> DEFINE q == a \div b
           r == a % b
<1>1. q \in Int /\ r \in Int /\ a = b * q + r /\ 0 <= r /\ r < b
  OBVIOUS
<1>2. roundHalfEven(a, b) = IF 2 * r > b \/ (2 * r = b /\ q % 2 = 1) THEN q + 1 ELSE q
  BY DEF roundHalfEven
<1> HIDE DEF q, r
<1>3. CASE 2 * r > b \/ (2 * r = b /\ q % 2 = 1)
  <2>1. b * (q + 1) = b * q + b
    BY <1>1
  <2> QED
    BY <1>1, <1>2, <1>3, <2>1
<1>4. CASE ~(2 * r > b \/ (2 * r = b /\ q % 2 = 1))
  <2>1. 2 * r <= b
    BY <1>1, <1>4
  <2> QED
    BY <1>1, <1>2, <1>4, <2>1
<1> QED
  BY <1>3, <1>4

(* Doubling a number reaches any bound, and first within twice the bound.    *)
LEMMA ExponentExists ==
  ASSUME NEW n \in Int, NEW g \in Int, n >= 1, n < g, n * Two(30) >= g
  PROVE  \E k \in 1 .. 30 : n * Two(k) >= g /\ n * Two(k) < 2 * g
<1> DEFINE T == {k \in 0 .. 30 : n * Two(k) >= g}
<1>1. T \subseteq Nat /\ 30 \in T
  OBVIOUS
<1> HIDE DEF T
<1>2. PICK k \in T : \A j \in T : k <= j
  <2>1. T # {}
    BY <1>1
  <2> QED
    BY <1>1, <2>1, Least
<1>3. k \in 0 .. 30 /\ n * Two(k) >= g
  BY <1>2 DEF T
<1>4. k # 0
  <2>1. Two(0) = 1
    BY DEF Two
  <2> QED
    BY <1>3, <2>1
<1>5. k \in 1 .. 30 /\ k - 1 \in 0 .. 30 /\ ~(k <= k - 1)
  BY <1>3, <1>4
<1>6. ~(n * Two(k - 1) >= g)
  <2>1. ~(k - 1 \in T)
    BY <1>2, <1>5
  <2> QED
    BY <1>5, <2>1 DEF T
<1>7. n * Two(k) < 2 * g
  BY <1>5, <1>6, Doubling
<1> QED
  BY <1>3, <1>5, <1>7

\* A quotient has an exponent k that gives it 24 bits, and a mantissa that is
\* off by at most a half.
InSinglePrecision(n, d) ==
  \E k \in 1 .. 30, M \in Int :
    /\ quotient(n, d) = [m |-> signed(n, M), k |-> k]
    /\ Abs(n) * Two(k) >= d * Two(23) /\ Abs(n) * Two(k) < d * Two(24)
    /\ 2 * (d * M) <= 2 * (Abs(n) * Two(k)) + d
    /\ 2 * (d * M) >= 2 * (Abs(n) * Two(k)) - d

(* Numbers of 16 bits have such quotients.                                   *)
LEMMA QuotientIs ==
  ASSUME NEW n \in Int, n # 0, Abs(n) < Two(16), NEW d \in {10, 60}
  PROVE  InSinglePrecision(n, d)
<1> DEFINE a == Abs(n)
           g == d * Two(23)
           k == CHOOSE k \in 0 .. 30 : a * 2^k \in (d * 2^23) .. (d * 2^24 - 1)
           M == roundHalfEven(a * Two(k), d)
<1>1. a \in Int /\ a >= 1 /\ a < Two(16)
  BY SMT DEF Abs
<1>2. g \in Int /\ d * Two(24) = 2 * g /\ a < g /\ a * Two(30) >= g /\ d \in Int /\ d > 0
  <2>1. Two(16) = 65536 /\ Two(23) = 8388608 /\ Two(24) = 16777216 /\ Two(30) = 1073741824
    BY SMT DEF Two
  <2> HIDE DEF a
  <2> QED
    BY <1>1, <2>1, SMT
<1> HIDE DEF a
<1>3. PICK j \in 1 .. 30 : a * Two(j) >= g /\ a * Two(j) < 2 * g
  BY <1>1, <1>2, ExponentExists
<1> HIDE DEF g
<1>4. a * Two(j) \in g .. (2 * g - 1)
  BY <1>1, <1>2, <1>3, Doubling
<1>5. g = d * 2^23 /\ 2 * g - 1 = d * 2^24 - 1
  BY <1>2, SMT DEF g, Two
<1>6. j \in 0 .. 30 /\ a * 2^j \in (d * 2^23) .. (d * 2^24 - 1)
  <2>1. j \in 0 .. 30
    OBVIOUS
  <2> QED
    BY <1>4, <1>5, <2>1, Zenon DEF Two
<1>7. k \in 0 .. 30 /\ a * 2^k \in (d * 2^23) .. (d * 2^24 - 1)
  BY <1>6, Zenon
<1>8. k \in 0 .. 30 /\ a * Two(k) \in g .. (2 * g - 1)
  BY <1>5, <1>7, Zenon DEF Two
<1>9. quotient(n, d) = [m |-> signed(n, M), k |-> k]
  BY Zenon DEF quotient, a, Two
<1> HIDE DEF k
<1>10. a * Two(k) \in Int /\ a * Two(k) >= g /\ a * Two(k) < 2 * g /\ g >= 0
  BY <1>1, <1>2, <1>8
<1>11. k # 0
  <2>1. Two(0) = 1
    BY DEF Two
  <2> QED
    BY <1>1, <1>2, <1>10, <2>1
<1>12. M \in Int /\ 2 * (d * M) <= 2 * (a * Two(k)) + d /\ 2 * (d * M) >= 2 * (a * Two(k)) - d
  <2> DEFINE P == a * Two(k)
  <2> HIDE DEF P
  <2>1. P \in Int /\ P >= 0
    BY <1>2, <1>10 DEF P
  <2> QED
    BY <1>2, <2>1, RoundedToNearest DEF P
<1>13. k \in 1 .. 30 /\ a * Two(k) >= d * Two(23) /\ a * Two(k) < d * Two(24)
  BY <1>2, <1>8, <1>10, <1>11 DEF g
<1> HIDE DEF M
<1> QED
  BY <1>9, <1>12, <1>13, Zenon DEF a, InSinglePrecision

(* Multiplied by ten and rounded, a quotient is the number nearest to ten    *)
(* times the exact one: single precision is never off far enough to matter.  *)
LEMMA TenfoldIsNearest ==
  ASSUME NEW n \in Int, Abs(n) < Two(16), NEW d \in {10, 60}
  PROVE  \E R \in Int :
           /\ rounded(quotient(n, d), 10) = signed(n, R)
           /\ R >= 0
           /\ 2 * (d * R) <= 20 * Abs(n) + d /\ 2 * (d * R) >= 20 * Abs(n) - d
<1> DEFINE a == Abs(n)
<1>1. a \in Int /\ a >= 0
  BY DEF Abs
<1>2. CASE n = 0
  <2>1. a = 0 /\ quotient(n, d) = [m |-> 0, k |-> 0]
    BY <1>2 DEF quotient, Abs
  <2>2. rounded([m |-> 0, k |-> 0], 10) = signed(n, 0)
    BY <1>2 DEF rounded, signed, Abs
  <2> QED
    BY <2>1, <2>2
<1>3. CASE n # 0
  <2>1. PICK k \in 1 .. 30, M \in Int :
          /\ quotient(n, d) = [m |-> signed(n, M), k |-> k]
          /\ a * Two(k) >= d * Two(23) /\ a * Two(k) < d * Two(24)
          /\ 2 * (d * M) <= 2 * (a * Two(k)) + d
          /\ 2 * (d * M) >= 2 * (a * Two(k)) - d
    <3>1. InSinglePrecision(n, d)
      BY <1>3, QuotientIs
    <3> QED
      BY <3>1, Zenon DEF InSinglePrecision
  <2> DEFINE f == quotient(n, d)
             K == Two(k)
             H == Two(k - 1)
             R == (10 * M + H) \div K
  <2>2. f.m = signed(n, M) /\ f.k = k
    BY <2>1
  <2>3. K \in Int /\ H \in Int /\ H >= 1 /\ K = 2 * H
    BY Doubling
  <2> HIDE DEF f, K, H, a
  <2>4. /\ a * K >= d * Two(23)
        /\ 2 * (d * M) <= 2 * (a * K) + d /\ 2 * (d * M) >= 2 * (a * K) - d
    BY <2>1 DEF K
  <2>5. Two(16) = 65536 /\ Two(23) = 8388608
    BY SMT DEF Two
  <2>6. a < 65536
    BY <2>5 DEF a
  <2>7. K > 10 * d
    <3> SUFFICES ASSUME K <= 10 * d PROVE FALSE
      BY <2>3, SMT
    <3>1. a * K <= 65536 * K
      BY <1>1, <2>3, <2>6, SMT
    <3>2. d * 8388608 <= 65536 * K
      BY <1>1, <2>3, <2>4, <2>5, <3>1
    <3> QED
      BY <2>3, <3>2, SMT
  <2>8. M > 0
    BY <2>4, <2>5, <2>3, <1>1, SMT
  <2>9. rounded(f, 10) = signed(n, R)
    <3>1. Abs(f.m) = M
      BY <2>2, <2>8 DEF Abs, signed
    <3>2. signed(f.m, R) = signed(n, R)
      BY <1>3, <2>2, <2>8 DEF signed
    <3>3. f.k # 0 /\ M * 10 = 10 * M
      BY <2>2
    <3> QED
      BY <2>2, <3>1, <3>2, <3>3 DEF rounded, K, H, Two
  <2>10. R \in Int /\ R * K <= 10 * M + H /\ 10 * M + H < R * K + K
    BY <2>3
  <2> HIDE DEF R
  <2>11. R >= 0
    <3> SUFFICES ASSUME R <= -1 PROVE FALSE
      BY <2>10
    <3>1. R * K <= -K
      BY <2>3, <2>10
    <3> QED
      BY <2>3, <2>8, <2>10, <3>1
  <2>12. d \in Int /\ d > 0
    OBVIOUS
  <2>13. 2 * (d * R) <= 20 * a + d
    <3>1. d * (R * K) <= d * (10 * M + H)
      BY <2>3, <2>10, <2>12
    <3>2. (2 * (d * R) - 20 * a - d) * K <= 10 * d
      BY <1>1, <2>3, <2>4, <2>10, <2>12, <3>1
    <3>3. ASSUME 2 * (d * R) - 20 * a - d >= 1 PROVE FALSE
      <4>1. (2 * (d * R) - 20 * a - d) * K >= K
        BY <1>1, <2>3, <2>10, <2>12, <3>3
      <4> QED
        BY <1>1, <2>3, <2>7, <2>10, <2>12, <3>2, <4>1
    <3> QED
      BY <1>1, <2>10, <2>12, <3>3
  <2>14. 2 * (d * R) >= 20 * a - d
    <3>1. d * (10 * M + H) <= d * (R * K + K)
      BY <2>3, <2>10, <2>12
    <3>2. (2 * (d * R) - 20 * a + d) * K >= -(10 * d)
      BY <1>1, <2>3, <2>4, <2>10, <2>12, <3>1
    <3>3. ASSUME 2 * (d * R) - 20 * a + d <= -1 PROVE FALSE
      <4>1. (2 * (d * R) - 20 * a + d) * K <= -K
        BY <1>1, <2>3, <2>10, <2>12, <3>3
      <4> QED
        BY <1>1, <2>3, <2>7, <2>10, <2>12, <3>2, <4>1
    <3> QED
      BY <1>1, <2>10, <2>12, <3>3
  <2> QED
    BY <2>9, <2>10, <2>11, <2>13, <2>14 DEF f, a
<1> QED
  BY <1>2, <1>3

(* Taking five or six places off a large power of two.                       *)
LEMMA PlacesOff ==
  ASSUME NEW k \in 1 .. 30, Two(k) > 64, NEW s \in {5, 6}
  PROVE  Two(k - s) \in Int /\ Two(k - s) >= 1 /\ Two(k) = Two(s) * Two(k - s)
<1>1. k > 6
  <2>1. /\ Two(1) = 2 /\ Two(2) = 4 /\ Two(3) = 8 /\ Two(4) = 16 /\ Two(5) = 32 /\ Two(6) = 64
    BY DEF Two
  <2> QED
    BY <2>1
<1>2. /\ k - 1 \in 1 .. 30 /\ k - 2 \in 1 .. 30 /\ k - 3 \in 1 .. 30
      /\ k - 4 \in 1 .. 30 /\ k - 5 \in 1 .. 30
      /\ k - 1 - 1 = k - 2 /\ k - 2 - 1 = k - 3 /\ k - 3 - 1 = k - 4 /\ k - 4 - 1 = k - 5
      /\ k - 5 - 1 = k - 6
  BY <1>1
<1>3. /\ Two(k) = 2 * Two(k - 1)     /\ Two(k - 1) = 2 * Two(k - 2)
      /\ Two(k - 2) = 2 * Two(k - 3) /\ Two(k - 3) = 2 * Two(k - 4)
      /\ Two(k - 4) = 2 * Two(k - 5) /\ Two(k - 5) = 2 * Two(k - 6)
      /\ Two(k - 5) \in Int /\ Two(k - 6) \in Int /\ Two(k - 6) >= 1
  BY <1>2, Doubling
<1>4. Two(5) = 32 /\ Two(6) = 64
  BY DEF Two
<1>5. Two(k) = 32 * Two(k - 5) /\ Two(k) = 64 * Two(k - 6) /\ Two(k - 5) >= 1
  BY <1>3
<1> QED
  BY <1>3, <1>4, <1>5

\* The places a product gives up: none of 0, five or six of 60 times 24 bits.
shift(E) == CHOOSE s \in 0..7 : E < 2^(24 + s) /\ (s = 0 \/ E >= 2^(23 + s))

LEMMA PlacesOfProduct ==
  ASSUME NEW E \in Int
  PROVE  /\ E = 0 => shift(E) = 0
         /\ E >= 60 * Two(23) /\ E <= 60 * Two(24) => shift(E) \in {5, 6}
<1>1. /\ Two(23) = 8388608 /\ Two(24) = 16777216 /\ Two(25) = 33554432 /\ Two(26) = 67108864
      /\ Two(27) = 134217728 /\ Two(28) = 268435456 /\ Two(29) = 536870912 /\ Two(30) = 1073741824
  BY SMT DEF Two
<1>2. ASSUME \E s \in 0..7 : E < Two(24 + s) /\ (s = 0 \/ E >= Two(23 + s))
      PROVE  /\ shift(E) \in 0..7 /\ E < Two(24 + shift(E))
             /\ shift(E) = 0 \/ E >= Two(23 + shift(E))
  BY <1>2, Zenon DEF shift, Two
<1>3. \A s \in 0..7 : s = 0 \/ s = 1 \/ s = 2 \/ s = 3 \/ s = 4 \/ s = 5 \/ s = 6 \/ s = 7
  BY SMT
<1>4. ASSUME E = 0 PROVE shift(E) = 0
  <2>1. 0 \in 0..7 /\ E < Two(24 + 0)
    BY <1>1, <1>4, SMT
  <2>2. shift(E) \in 0..7 /\ (shift(E) = 0 \/ E >= Two(23 + shift(E)))
    BY <1>2, <2>1, Zenon
  <2> QED
    BY <1>1, <1>3, <1>4, <2>2, SMT
<1>5. ASSUME E >= 60 * Two(23), E <= 60 * Two(24) PROVE shift(E) \in {5, 6}
  <2>1. E >= 503316480 /\ E <= 1006632960
    BY <1>1, <1>5, SMT
  <2>2. \E s \in 0..7 : E < Two(24 + s) /\ (s = 0 \/ E >= Two(23 + s))
    <3>1. CASE E < Two(29)
      <4>1. 5 \in 0..7 /\ E < Two(24 + 5) /\ E >= Two(23 + 5)
        BY <1>1, <2>1, <3>1, SMT
      <4> QED
        BY <4>1, SMT
    <3>2. CASE ~(E < Two(29))
      <4>1. 6 \in 0..7 /\ E < Two(24 + 6) /\ E >= Two(23 + 6)
        BY <1>1, <2>1, <3>2, SMT
      <4> QED
        BY <4>1, SMT
    <3> QED
      BY <3>1, <3>2, SMT
  <2>3. /\ shift(E) \in 0..7 /\ E < Two(24 + shift(E))
        /\ (shift(E) = 0 \/ E >= Two(23 + shift(E)))
    BY <1>2, <2>2, Zenon
  <2> QED
    BY <1>1, <1>3, <2>1, <2>3, SMT
<1> QED
  BY <1>4, <1>5, Zenon

(* Sixty times a tenth of the register, in single precision and truncated,   *)
(* is at most one minute short of the duration.                              *)
LEMMA ShownDuration ==
  ASSUME NEW n \in Int, n >= 0, n < Two(16)
  PROVE  /\ truncated(product(quotient(n, 10), 60)) \in Int
         /\ truncated(product(quotient(n, 10), 60)) >= 6 * n - 1
         /\ truncated(product(quotient(n, 10), 60)) <= 6 * n
<1> DEFINE f == quotient(n, 10)
           E == f.m * 60
           s == shift(E)
<1>1. product(f, 60) = [m |-> roundHalfEven(E, 2^s), k |-> f.k - s]
  BY Zenon DEF product, shift
<1>2. truncated(product(f, 60)) = roundHalfEven(E, 2^s) \div 2^(f.k - s)
  BY <1>1 DEF truncated
<1>3. CASE n = 0
  <2>1. f = [m |-> 0, k |-> 0]
    BY <1>3 DEF quotient
  <2>2. E = 0 /\ E \in Int
    BY <2>1
  <2>3. s = 0
    BY <2>2, PlacesOfProduct, Zenon
  <2>4. 2^s = 1 /\ 2^(f.k - s) = 1
    <3>1. f.k - s = 0
      BY <2>1, <2>3
    <3>2. 2^0 = 1
      OBVIOUS
    <3> HIDE DEF f, s
    <3> QED
      BY <2>3, <3>1, <3>2, Zenon
  <2>5. roundHalfEven(0, 1) = 0
    BY DEF roundHalfEven
  <2> QED
    BY <1>2, <1>3, <2>2, <2>4, <2>5
<1>4. CASE n # 0
  <2>1. Abs(n) = n
    BY DEF Abs
  <2>2. PICK k \in 1 .. 30, M \in Int :
          /\ f = [m |-> signed(n, M), k |-> k]
          /\ n * Two(k) >= 10 * Two(23) /\ n * Two(k) < 10 * Two(24)
          /\ 2 * (10 * M) <= 2 * (n * Two(k)) + 10
          /\ 2 * (10 * M) >= 2 * (n * Two(k)) - 10
    <3>1. InSinglePrecision(n, 10)
      <4>1. Abs(n) < Two(16)
        BY <2>1
      <4> QED
        BY <1>4, <4>1, QuotientIs, SMT
    <3> QED
      BY <2>1, <3>1, Zenon DEF InSinglePrecision
  <2>3. f.m = M /\ f.k = k
    BY <2>2 DEF signed
  <2>4. Two(16) = 65536 /\ Two(23) = 8388608 /\ Two(24) = 16777216
    BY SMT DEF Two
  <2> DEFINE K == Two(k)
             H == Two(k - s)
             S == Two(s)
             m == roundHalfEven(E, S)
             t == m \div H
  <2>5. K \in Int /\ K >= 1
    BY Doubling
  <2>6. K > 64
    <3> SUFFICES ASSUME K <= 64 PROVE FALSE
      BY <2>5
    <3> HIDE DEF K
    <3>1. n * K <= 65536 * K
      BY <2>4, <2>5
    <3>2. n * K >= 83886080
      BY <2>2, <2>4, SMT DEF K
    <3> QED
      BY <2>5, <3>1, <3>2, SMT
  <2>7. n * K \in Int
    BY <2>5
  <2>8. E = 60 * M /\ E \in Int /\ E >= 60 * Two(23) /\ E <= 60 * Two(24)
    BY <2>2, <2>3, <2>4, <2>7, SMT
  <2> HIDE DEF E, K
  <2>9. s \in {5, 6}
    BY <2>8, PlacesOfProduct
  <2> HIDE DEF s
  <2>10. H \in Int /\ H >= 1 /\ K = S * H
    BY <2>6, <2>9, PlacesOff DEF K
  <2>11. S \in {32, 64}
    <3>1. Two(5) = 32 /\ Two(6) = 64
      BY DEF Two
    <3> QED
      BY <2>9, <3>1
  <2>12. truncated(product(f, 60)) = t
    BY <1>2, <2>3 DEF Two
  <2> HIDE DEF S, H
  <2>13. E >= 0
    BY <2>4, <2>8
  <2>14. m \in Int /\ 2 * (S * m) <= 2 * E + S /\ 2 * (S * m) >= 2 * E - S
    <3>1. S \in Int /\ S > 0 /\ E \in Int
      BY <2>8, <2>11
    <3> QED
      BY <2>13, <3>1, RoundedToNearest
  <2> HIDE DEF m
  <2>15. t \in Int /\ t * H <= m /\ m < t * H + H
    BY <2>10, <2>14
  <2> HIDE DEF t
  <2>16. 20 * M <= 2 * (n * K) + 10 /\ 20 * M >= 2 * (n * K) - 10
    BY <2>2 DEF K
  <2>17. t <= 6 * n
    <3>1. S * (t * H) <= S * m
      BY <2>10, <2>11, <2>14, <2>15
    <3>2. S * (t * H) = t * K
      BY <2>10, <2>11, <2>15
    <3>3. (t - 6 * n) * K <= 62
      BY <2>5, <2>8, <2>11, <2>14, <2>15, <2>16, <3>1, <3>2
    <3>4. ASSUME t - 6 * n >= 1 PROVE FALSE
      <4>1. (t - 6 * n) * K >= K
        BY <2>5, <2>15, <3>4
      <4> QED
        BY <2>5, <2>6, <2>15, <3>3, <4>1
    <3> QED
      BY <2>15, <3>4
  <2>18. t >= 6 * n - 1
    <3>1. S * m < S * (t * H) + S * H
      BY <2>10, <2>11, <2>14, <2>15
    <3>2. S * (t * H) = t * K
      BY <2>10, <2>11, <2>15
    <3>3. (t + 1 - 6 * n) * K >= -62
      BY <2>5, <2>8, <2>10, <2>11, <2>14, <2>15, <2>16, <3>1, <3>2
    <3>4. ASSUME t + 1 - 6 * n <= -1 PROVE FALSE
      <4>1. (t + 1 - 6 * n) * K <= -K
        BY <2>5, <2>15, <3>4
      <4> QED
        BY <2>5, <2>6, <2>15, <3>3, <4>1
    <3> QED
      BY <2>15, <3>4
  <2> QED
    BY <2>12, <2>15, <2>17, <2>18
<1> QED
  BY <1>3, <1>4

-------------------------------------------------------------------------------
(* Integers and bytes.                                                       *)

(* The widths of the integers, and the powers of ten of the data points.     *)
LEMMA Widths ==
  /\ Integer["U8"].bytes = 1  /\ Integer["U8"].least = 0       /\ Integer["U8"].greatest = 255
  /\ Integer["U16"].bytes = 2 /\ Integer["U16"].least = 0      /\ Integer["U16"].greatest = 65535
  /\ Integer["S16"].bytes = 2 /\ Integer["S16"].least = -32768 /\ Integer["S16"].greatest = 32767
BY SMT DEF Integer

(* The powers of ten of the data points, and the sizes of bytes and words.   *)
LEMMA Tens == pow10[0] = 1 /\ pow10[1] = 10 /\ pow10[2] = 100
BY SMT DEF pow10

LEMMA Moduli == 2^(8 * 1) = 256 /\ 2^(8 * 2) = 65536
BY SMT

(* A cast keeps the low bits; a value that has no others is left as it is.   *)
LEMMA CastU8 == ASSUME NEW v \in Int PROVE cast(v, "U8") = v % 256
BY Moduli, Widths, SMT DEF cast

LEMMA CastU16 == ASSUME NEW v \in Int PROVE cast(v, "U16") = v % 65536
BY Moduli, Widths, SMT DEF cast

IsS16(x) == x \in Int /\ x >= -32768 /\ x <= 32767

LEMMA CastS16 == ASSUME NEW v \in Int PROVE IsS16(cast(v, "S16"))
<1> DEFINE y == (v + 32768) % 65536
<1>1. cast(v, "S16") = -32768 + y
  BY Moduli, Widths, SMT DEF cast
<1>2. y \in Int /\ y >= 0 /\ y < 65536
  BY SMT
<1> HIDE DEF y
<1>3. IsS16(-32768 + y)
  BY <1>2, SMT DEF IsS16
<1> QED
  BY <1>1, <1>3

LEMMA SmallCastU8 == ASSUME NEW v \in Int, v >= 0, v <= 255 PROVE cast(v, "U8") = v
<1>1. v % 256 = v
  BY SMT
<1> QED
  BY <1>1, CastU8, SMT

LEMMA SmallCastU16 == ASSUME NEW v \in Int, v >= 0, v <= 65535 PROVE cast(v, "U16") = v
<1>1. v % 65536 = v
  BY SMT
<1> QED
  BY <1>1, CastU16, SMT

(* What the bytes of a body decode to.                                       *)
LEMMA DecodedBytes ==
  ASSUME NEW a \in UINT8, NEW b \in UINT8
  PROVE  /\ decoded(<<b>>, "U8") = b
         /\ decoded(<<a, b>>, "U16") = a * 256 + b
         /\ IsS16(decoded(<<a, b>>, "S16"))
<1>1. /\ Len(<<b>>) = 1 /\ Len(<<a, b>>) = 2
      /\ bigEndian(<<b>>) = b /\ bigEndian(<<a, b>>) = a * 256 + b
  BY SMT DEF bigEndian, UINT8
<1>2. decoded(<<b>>, "U8") = cast(b, "U8")
  BY <1>1, Widths, SMT DEF decoded, UINT8
<1>3. /\ decoded(<<a, b>>, "U16") = cast(a * 256 + b, "U16")
      /\ decoded(<<a, b>>, "S16") = cast(a * 256 + b, "S16")
  BY <1>1, Widths, SMT DEF decoded, UINT8
<1>4. a * 256 + b \in Int /\ a * 256 + b >= 0 /\ a * 256 + b <= 65535 /\ b \in Int
  BY SMT DEF UINT8
<1>5. cast(b, "U8") = b /\ cast(a * 256 + b, "U16") = a * 256 + b
  <2>1. b \in Int /\ b >= 0 /\ b <= 255
    BY SMT DEF UINT8
  <2> QED
    BY <1>4, <2>1, SmallCastU8, SmallCastU16, SMT
<1>6. IsS16(cast(a * 256 + b, "S16"))
  BY <1>4, CastS16
<1>7. decoded(<<b>>, "U8") = b /\ decoded(<<a, b>>, "U16") = a * 256 + b
  BY <1>2, <1>3, <1>5, SMT
<1>8. IsS16(decoded(<<a, b>>, "S16"))
  BY <1>3, <1>6, Zenon
<1> QED
  BY <1>7, <1>8, Zenon

(* A value on its way into a register of one byte: bounded, and no more.     *)
Bounded(v, least, greatest) ==
  IF v < least THEN least ELSE IF v > greatest THEN greatest ELSE v

LEMMA WrittenU8 ==
  ASSUME NEW type, type.rawType = "U8", type.decimals = 0,
         NEW least \in Percentages, NEW greatest \in Percentages,
         type.minValue = least, type.maxValue = greatest,
         NEW v \in UINT8, NEW data \in {"LIST", "UINT8"}
  PROVE  written(type, HovalValue(v, data)) = <<Bounded(v, least, greatest)>>
<1> DEFINE w == Bounded(v, least, greatest)
<1> USE DEF UINT8, Percentages
<1>1. integerValue(HovalValue(v, data), "U8", 0) = v
  <2>1. HovalValue(v, data).value = v /\ HovalValue(v, data).type \in {"BOOL", "UINT8", "LIST"}
    BY SMT DEF HovalValue
  <2>2. integerValue(HovalValue(v, data), "U8", 0) = cast(scale(v, 0), "U8")
    BY <2>1, SMT DEF integerValue
  <2>3. scale(v, 0) = v
    BY Tens, SMT DEF scale
  <2> QED
    BY <2>2, <2>3, SmallCastU8, SMT
<1>2. checkBounds(v, "U8", least, greatest) = w
  <2>1. cast(least, "U8") = least /\ cast(greatest, "U8") = greatest
    BY SmallCastU8, SMT
  <2> QED
    BY <2>1, Widths, SMT DEF checkBounds, INT32_MIN, INT32_MAX, Bounded
<1>3. w \in Int /\ w >= 0 /\ w < 256
  BY SMT DEF Bounded
<1> HIDE DEF w
<1>4. bytes(w, "U8") = <<w>>
  BY <1>3, Widths, SMT DEF bytes
<1>5. written(type, HovalValue(v, data)) = <<w>>
  BY <1>1, <1>2, <1>4, SMT DEF written
<1> QED
  BY <1>5 DEF w

(* A duration on its way into its register: rounded, and bounded by 24 hours.*)
LEMMA WrittenDuration ==
  ASSUME NEW type, type.rawType = "U16", type.decimals = 1, type.minValue = 0, type.maxValue = 240,
         NEW f, NEW R \in Int, R >= 0, rounded(f, 10) = R
  PROVE  written(type, HovalValue(f, "FLOAT")) = <<0, Bounded(R, 0, 240)>>
<1> DEFINE w == Bounded(R, 0, 240)
           x == IF R < 65535 THEN R ELSE 65535
<1>1. integerValue(HovalValue(f, "FLOAT"), "U16", 1) = x
  <2>1. HovalValue(f, "FLOAT").value = f /\ HovalValue(f, "FLOAT").type = "FLOAT"
    BY SMT DEF HovalValue
  <2>2. integerValue(HovalValue(f, "FLOAT"), "U16", 1) = MIN(MAX(scaleFloat(f, 1), 0), 65535)
    BY <2>1, Widths, SMT DEF integerValue
  <2>3. scaleFloat(f, 1) = R
    BY Tens, SMT DEF scaleFloat
  <2> QED
    BY <2>2, <2>3, SMT DEF MIN, MAX
<1>2. checkBounds(x, "U16", 0, 240) = w
  BY Widths, SmallCastU16, SMT DEF checkBounds, INT32_MIN, INT32_MAX, Bounded
<1>3. w \in Int /\ w >= 0 /\ w < 256
  BY SMT DEF Bounded
<1> HIDE DEF w, x
<1>4. bytes(w, "U16") = <<0, w>>
  BY <1>3, Widths, SMT DEF bytes
<1>5. written(type, HovalValue(f, "FLOAT")) = <<0, w>>
  BY <1>1, <1>2, <1>4, SMT DEF written
<1> QED
  BY <1>5, SMT DEF w

-------------------------------------------------------------------------------
(* The entries of the table.                                                 *)

(* What the table says of its entries, by the way they convert.              *)
LEMMA Conversions ==
  ASSUME NEW e \in messageTransformers
  PROVE  e.conversion \in {"State", "Status3", "Scaling", "Minutes", "Float", "Frequency", "Weeks"}
BY SMT DEF messageTransformers, Entry, Switch, ReadOnly, ReadWrite

(* Switches, states and percentages are bytes; what is written has bounds.   *)
LEMMA ByteEntries ==
  ASSUME NEW e \in messageTransformers, e.conversion \in {"State", "Status3", "Scaling"}
  PROVE  e.type.rawType = "U8" /\ e.type.decimals = 0
BY SMT DEF messageTransformers, Entry, Switch, ReadOnly, ReadWrite,
   HovalMessageType, Measured, Setting, OfDevice,
   OperatingMode, AirQualityControl, VentilationControlStatus, Modulation, NormalModulation,
   EconomyModulation, HumiditySetpoint, HumidityExhaust, VentilationExhaust, PartyPauseValue,
   VocExhaust, VocOutdoor, VentilatorExhaustPWM, VentilatorOutdoorPWM

LEMMA SwitchEntries ==
  ASSUME NEW e \in messageTransformers, e.conversion \in {"State", "Status3"}, e.inverse
  PROVE  /\ e.type.minValue = 0 /\ e.type.maxValue \in {5, 6}
         /\ e.conversion = "State" => e.code \in 0 .. e.type.maxValue
BY SMT DEF messageTransformers, Entry, Switch, ReadOnly, ReadWrite,
   HovalMessageType, Measured, Setting, OfDevice,
   OperatingMode, AirQualityControl, VentilationControlStatus

LEMMA PercentEntries ==
  ASSUME NEW e \in messageTransformers, e.conversion = "Scaling", e.inverse
  PROVE  /\ e.type.minValue \in {15, 30} /\ e.type.maxValue \in {65, 100}
BY SMT DEF messageTransformers, Entry, Switch, ReadOnly, ReadWrite,
   HovalMessageType, Measured, Setting, OfDevice,
   NormalModulation, EconomyModulation, HumiditySetpoint, PartyPauseValue

LEMMA DurationEntries ==
  ASSUME NEW e \in messageTransformers, e.conversion = "Minutes"
  PROVE  /\ e.type.rawType = "U16" /\ e.type.decimals = 1
         /\ e.type.minValue = 0 /\ e.type.maxValue = 240
         /\ e.inverse
BY SMT DEF messageTransformers, Entry, Switch, ReadOnly, ReadWrite,
   HovalMessageType, Measured, Setting, OfDevice,
   PartyMode, PauseMode

LEMMA MeasuredEntries ==
  ASSUME NEW e \in messageTransformers
  PROVE  /\ e.conversion = "Float" => e.type.rawType = "S16" /\ e.type.decimals = 1 /\ ~e.inverse
         /\ e.conversion = "Frequency" =>
              e.type.rawType = "U16" /\ e.type.decimals = 2 /\ ~e.inverse
         /\ e.conversion = "Weeks" => e.type.rawType = "RAW" /\ ~e.inverse
BY SMT DEF messageTransformers, Entry, Switch, ReadOnly, ReadWrite,
   HovalMessageType, Measured, Setting, OfDevice,
   TemperatureOutdoor, TemperatureExhaust, RPMRotor1, RPMRotor2, MaintenanceRemainingTime

-------------------------------------------------------------------------------
(* From KNX to the register.                                                 *)

(* The register a telegram leaves, by the way the entry converts.            *)
LEMMA WrittenSwitch ==
  ASSUME NEW e \in messageTransformers, e.conversion = "State", e.inverse, NEW v \in BOOLEAN
  PROVE  /\ switchValue(e, v) \in 0 .. e.type.maxValue
         /\ written(e.type, inverseTransformed(e, v)) = <<switchValue(e, v)>>
<1> DEFINE x == switchValue(e, v)
           greatest == e.type.maxValue
<1>1. /\ e.type.rawType = "U8" /\ e.type.decimals = 0 /\ e.type.minValue = 0
      /\ greatest \in {5, 6} /\ e.code \in 0 .. greatest
  BY ByteEntries, SwitchEntries
<1>2. x \in 0 .. greatest
  BY <1>1, SMT DEF switchValue
<1>3. inverseTransformed(e, v) = HovalValue(x, "LIST")
  BY SMT DEF inverseTransformed
<1>4. e.type.maxValue = greatest
  OBVIOUS
<1> HIDE DEF x, greatest
<1>5. x \in UINT8 /\ 0 \in Percentages /\ greatest \in Percentages
  BY <1>1, <1>2, SMT DEF UINT8, Percentages
<1>6. written(e.type, HovalValue(x, "LIST")) = <<Bounded(x, 0, greatest)>>
  <2>1. "LIST" \in {"LIST", "UINT8"}
    OBVIOUS
  <2> DEFINE type == e.type
  <2>2. type.rawType = "U8" /\ type.decimals = 0 /\ type.minValue = 0 /\ type.maxValue = greatest
    BY <1>1, <1>4
  <2> HIDE DEF type
  <2>3. written(type, HovalValue(x, "LIST")) = <<Bounded(x, 0, greatest)>>
    BY <1>2, <1>5, <2>1, <2>2, WrittenU8, Zenon
  <2> QED
    BY <2>3 DEF type
<1>7. Bounded(x, 0, greatest) = x
  BY <1>1, <1>2, SMT DEF Bounded
<1> QED
  BY <1>2, <1>3, <1>4, <1>6, <1>7 DEF x

(* An object of status and mode bits leaves some allowed value.              *)
LEMMA WrittenStatus ==
  ASSUME NEW e \in messageTransformers, e.conversion = "Status3", e.inverse, NEW v \in 0..255
  PROVE  \E w \in 0 .. e.type.maxValue : written(e.type, inverseTransformed(e, v)) = <<w>>
<1> DEFINE x == statusValue(e, v)
           greatest == e.type.maxValue
<1>1. /\ e.type.rawType = "U8" /\ e.type.decimals = 0 /\ e.type.minValue = 0 /\ greatest \in {5, 6}
  BY ByteEntries, SwitchEntries
<1>2. x \in UINT8
  BY SMT DEF statusValue, UINT8
<1>3. inverseTransformed(e, v) = HovalValue(x, "LIST")
  BY SMT DEF inverseTransformed
<1>4. e.type.maxValue = greatest
  OBVIOUS
<1> HIDE DEF x, greatest
<1>5. 0 \in Percentages /\ greatest \in Percentages
  BY <1>1, SMT DEF Percentages
<1>6. written(e.type, HovalValue(x, "LIST")) = <<Bounded(x, 0, greatest)>>
  <2>1. "LIST" \in {"LIST", "UINT8"}
    OBVIOUS
  <2> DEFINE type == e.type
  <2>2. type.rawType = "U8" /\ type.decimals = 0 /\ type.minValue = 0 /\ type.maxValue = greatest
    BY <1>1, <1>4
  <2> HIDE DEF type
  <2>3. written(type, HovalValue(x, "LIST")) = <<Bounded(x, 0, greatest)>>
    BY <1>2, <1>5, <2>1, <2>2, WrittenU8, Zenon
  <2> QED
    BY <2>3 DEF type
<1>7. Bounded(x, 0, greatest) \in 0 .. greatest
  BY <1>1, <1>2, SMT DEF Bounded, UINT8
<1> QED
  BY <1>3, <1>4, <1>6, <1>7

(* A percentage leaves itself, or the bound it is beyond.                    *)
LEMMA WrittenPercent ==
  ASSUME NEW e \in messageTransformers, e.conversion = "Scaling", e.inverse, NEW v \in 0..100
  PROVE  written(e.type, inverseTransformed(e, v)) =
           <<Bounded(v, e.type.minValue, e.type.maxValue)>>
<1> DEFINE least == e.type.minValue
           greatest == e.type.maxValue
<1>1. /\ e.type.rawType = "U8" /\ e.type.decimals = 0 /\ least \in {15, 30} /\ greatest \in {65, 100}
  BY ByteEntries, PercentEntries
<1>2. inverseTransformed(e, v) = HovalValue(v, "UINT8")
  BY SMT DEF inverseTransformed
<1>3. e.type.minValue = least /\ e.type.maxValue = greatest
  OBVIOUS
<1> HIDE DEF least, greatest
<1>4. least \in Percentages /\ greatest \in Percentages /\ v \in UINT8
  BY <1>1, SMT DEF Percentages, UINT8
<1>5. written(e.type, HovalValue(v, "UINT8")) = <<Bounded(v, least, greatest)>>
  <2>1. "UINT8" \in {"LIST", "UINT8"}
    OBVIOUS
  <2> DEFINE type == e.type
  <2>2. type.rawType = "U8" /\ type.decimals = 0 /\ type.minValue = least /\ type.maxValue = greatest
    BY <1>1, <1>3
  <2> HIDE DEF type
  <2>3. written(type, HovalValue(v, "UINT8")) = <<Bounded(v, least, greatest)>>
    BY <1>4, <2>1, <2>2, WrittenU8, Zenon
  <2> QED
    BY <2>3 DEF type
<1> QED
  BY <1>2, <1>3, <1>5

(* A duration leaves the nearest tenth of an hour, at most 24 hours.         *)
LEMMA WrittenMinutes ==
  ASSUME NEW e \in messageTransformers, e.conversion = "Minutes", NEW n \in Int, n >= 0, n <= 65535
  PROVE  \E R \in Int :
           /\ written(e.type, inverseTransformed(e, n)) = <<0, Bounded(R, 0, 240)>>
           /\ R >= 0 /\ 6 * R <= n + 3 /\ 6 * R >= n - 3
<1> DEFINE f == quotient(n, 60)
<1>1. /\ e.type.rawType = "U16" /\ e.type.decimals = 1
      /\ e.type.minValue = 0 /\ e.type.maxValue = 240
  BY DurationEntries
<1>2. inverseTransformed(e, n) = HovalValue(f, "FLOAT")
  BY SMT DEF inverseTransformed
<1>3. Abs(n) = n /\ n < Two(16)
  <2>1. Two(16) = 65536
    BY SMT DEF Two
  <2> QED
    BY <2>1, SMT DEF Abs
<1>4. PICK R \in Int :
        /\ rounded(f, 10) = signed(n, R) /\ R >= 0
        /\ 2 * (60 * R) <= 20 * n + 60 /\ 2 * (60 * R) >= 20 * n - 60
  <2>1. 60 \in {10, 60}
    BY SMT
  <2> QED
    BY <1>3, <2>1, TenfoldIsNearest, SMT
<1>5. rounded(f, 10) = R
  BY <1>4, SMT DEF signed
<1> HIDE DEF f
<1>6. written(e.type, HovalValue(f, "FLOAT")) = <<0, Bounded(R, 0, 240)>>
  BY <1>1, <1>4, <1>5, WrittenDuration, SMT
<1>7. 6 * R <= n + 3 /\ 6 * R >= n - 3
  BY <1>4, SMT
<1> QED
  BY <1>2, <1>4, <1>6, <1>7, SMT

(* The bytes of a register are those of its type, in a sequence of its own.  *)
Bytes1(r) == r = <<r[1]>> /\ r[1] \in 0..255
Bytes2(r) == r = <<r[1], r[2]>> /\ r[1] \in 0..255 /\ r[2] \in 0..255
Bytes4(r) == r = <<0, 0, 0>> \/ (r = <<0, 0, 0, r[4]>> /\ r[4] \in 0..255)

SoundRegister(e, r) ==
  /\ e.type.rawType = "U8" => Bytes1(r)
  /\ e.type.rawType \in {"U16", "S16"} => Bytes2(r)
  /\ e.type.rawType = "RAW" => Bytes4(r)

LEMMA Ranges ==
  /\ \A v \in Raw8 : v \in UINT8
  /\ \A v \in Raw16 : v \in UINT16
  /\ \A v \in Minutes : v \in UINT16
  /\ \A v \in Percents : v \in Percentages
BY ValuesAssumption, Zenon

(* What is written to the entries that have an inverse.                      *)
LEMMA KnxWrites ==
  ASSUME NEW e \in messageTransformers, e.inverse, NEW v \in KnxValues(e)
  PROVE  /\ e.conversion \in {"State", "Status3", "Scaling", "Minutes"}
         /\ e.conversion = "State" => v \in BOOLEAN
         /\ e.conversion = "Status3" => v \in UINT8
         /\ e.conversion = "Scaling" => v \in Percentages
         /\ e.conversion = "Minutes" => v \in UINT16
<1>1. e.conversion \in {"State", "Status3", "Scaling", "Minutes"}
  BY Conversions, MeasuredEntries, SMT
<1>2. /\ e.conversion = "State" => v \in BOOLEAN
      /\ e.conversion = "Status3" => v \in Raw8
      /\ e.conversion = "Scaling" => v \in Percents
      /\ e.conversion = "Minutes" => v \in Minutes
  BY SMT DEF KnxValues
<1> QED
  BY <1>1, <1>2, Ranges, Zenon

(* A telegram leaves a register of the length of its type.                   *)
LEMMA WrittenIsSound ==
  ASSUME NEW e \in messageTransformers, e.inverse, NEW v \in KnxValues(e)
  PROVE  SoundRegister(e, written(e.type, inverseTransformed(e, v)))
<1> DEFINE r == written(e.type, inverseTransformed(e, v))
<1>1. e.conversion \in {"State", "Status3", "Scaling", "Minutes"}
  BY KnxWrites
<1>2. ASSUME e.type.rawType = "U8", \E w \in 0..255 : r = <<w>> PROVE SoundRegister(e, r)
  <2> HIDE DEF r
  <2> QED
    BY <1>2, SMT DEF SoundRegister, Bytes1
<1>3. CASE e.conversion = "State"
  <2> DEFINE x == switchValue(e, v)
  <2>1. v \in BOOLEAN
    BY <1>3, KnxWrites
  <2>2. e.type.maxValue \in {5, 6} /\ e.type.rawType = "U8"
    BY <1>3, ByteEntries, SwitchEntries
  <2>3. x \in 0 .. e.type.maxValue /\ r = <<x>>
    BY <1>3, <2>1, WrittenSwitch
  <2> HIDE DEF x, r
  <2>4. x \in 0..255
    BY <2>2, <2>3, SMT
  <2>5. SoundRegister(e, r)
    BY <1>2, <2>2, <2>3, <2>4, SMT
  <2> QED
    BY <2>5 DEF r
<1>4. CASE e.conversion = "Status3"
  <2>1. v \in 0..255
    BY <1>4, KnxWrites DEF UINT8
  <2>2. e.type.maxValue \in {5, 6} /\ e.type.rawType = "U8"
    BY <1>4, ByteEntries, SwitchEntries
  <2>3. PICK w \in 0 .. e.type.maxValue : r = <<w>>
    BY <1>4, <2>1, WrittenStatus
  <2> HIDE DEF r
  <2>4. w \in 0..255
    BY <2>2, SMT
  <2>5. SoundRegister(e, r)
    BY <1>2, <2>2, <2>3, <2>4, SMT
  <2> QED
    BY <2>5 DEF r
<1>5. CASE e.conversion = "Scaling"
  <2>1. v \in 0..100
    BY <1>5, KnxWrites DEF Percentages
  <2>2. e.type.minValue \in {15, 30} /\ e.type.maxValue \in {65, 100} /\ e.type.rawType = "U8"
    BY <1>5, ByteEntries, PercentEntries
  <2>3. r = <<Bounded(v, e.type.minValue, e.type.maxValue)>>
    BY <1>5, <2>1, WrittenPercent
  <2> HIDE DEF r
  <2>4. Bounded(v, e.type.minValue, e.type.maxValue) \in 0..255
    BY <2>1, <2>2, SMT DEF Bounded
  <2>5. SoundRegister(e, r)
    BY <1>2, <2>2, <2>3, <2>4, SMT
  <2> QED
    BY <2>5 DEF r
<1>6. CASE e.conversion = "Minutes"
  <2>1. v \in Int /\ v >= 0 /\ v <= 65535 /\ e.type.rawType = "U16"
    <3>1. v \in UINT16 /\ e.type.rawType = "U16"
      BY <1>6, KnxWrites, DurationEntries
    <3> QED
      BY <3>1, SMT DEF UINT16
  <2>2. PICK R \in Int : r = <<0, Bounded(R, 0, 240)>>
    BY <1>6, <2>1, WrittenMinutes
  <2> HIDE DEF r
  <2>3. Bounded(R, 0, 240) \in 0..255
    BY SMT DEF Bounded
  <2>4. Bytes2(r)
    BY <2>2, <2>3, SMT DEF Bytes2
  <2>5. SoundRegister(e, r)
    BY <2>1, <2>4, SMT DEF SoundRegister
  <2> QED
    BY <2>5 DEF r
<1> QED
  BY <1>1, <1>3, <1>4, <1>5, <1>6

(* What comes from the device does not depend on what was shown before,      *)
(* unless nothing is known of it.                                            *)
LEMMA TransformedAnew ==
  ASSUME NEW e \in messageTransformers, NEW body, NEW old, NEW new \in transformed(e, body, old)
  PROVE  new \in transformed(e, body, new)
<1>1. CASE e.conversion = "Scaling"
  BY <1>1, SMT DEF transformed
<1>2. CASE e.conversion # "Scaling"
  <2>1. transformed(e, body, old) = transformed(e, body, new)
    <3>1. e.conversion \in {"State", "Status3", "Minutes", "Float", "Frequency", "Weeks"}
      BY <1>2, Conversions, SMT
    <3> QED
      BY <3>1, SMT DEF transformed
  <2> QED
    BY <2>1
<1> QED
  BY <1>1, <1>2

-------------------------------------------------------------------------------
(* From the register to KNX.                                                 *)

(* What a sound register says.                                               *)
LEMMA RegisterIs ==
  ASSUME NEW e, NEW r, SoundRegister(e, r)
  PROVE  /\ e.type.rawType = "U8" =>
              r[1] \in UINT8 /\ r = <<r[1]>> /\ decoded(r, "U8") = r[1]
         /\ e.type.rawType = "U16" =>
              /\ r[1] \in UINT8 /\ r[2] \in UINT8 /\ r = <<r[1], r[2]>>
              /\ decoded(r, "U16") = r[1] * 256 + r[2]
         /\ e.type.rawType = "S16" =>
              IsS16(decoded(r, "S16"))
<1>1. ASSUME e.type.rawType = "U8"
      PROVE  r[1] \in UINT8 /\ r = <<r[1]>> /\ decoded(r, "U8") = r[1]
  <2>1. r = <<r[1]>> /\ r[1] \in 0..255
    BY <1>1, SMT DEF SoundRegister, Bytes1
  <2> DEFINE b == r[1]
  <2> HIDE DEF b
  <2>2. r = <<b>> /\ b \in 0..255
    BY <2>1 DEF b
  <2>3. b \in UINT8
    BY <2>2, SMT DEF UINT8
  <2>4. decoded(<<b>>, "U8") = b
    BY <2>3, DecodedBytes, Zenon
  <2> QED
    BY <2>2, <2>3, <2>4, SMT DEF b
<1>2. ASSUME e.type.rawType \in {"U16", "S16"}
      PROVE  /\ r[1] \in UINT8 /\ r[2] \in UINT8 /\ r = <<r[1], r[2]>>
             /\ decoded(r, "U16") = r[1] * 256 + r[2]
             /\ IsS16(decoded(r, "S16"))
  <2>1. r = <<r[1], r[2]>> /\ r[1] \in 0..255 /\ r[2] \in 0..255
    BY <1>2, SMT DEF SoundRegister, Bytes2
  <2> DEFINE a == r[1]
             b == r[2]
  <2> HIDE DEF a, b
  <2>2. r = <<a, b>> /\ a \in 0..255 /\ b \in 0..255
    BY <2>1 DEF a, b
  <2>3. a \in UINT8 /\ b \in UINT8
    BY <2>2, SMT DEF UINT8
  <2>4. decoded(<<a, b>>, "U16") = a * 256 + b /\ IsS16(decoded(<<a, b>>, "S16"))
    BY <2>3, DecodedBytes, Zenon
  <2> QED
    BY <2>2, <2>3, <2>4, SMT DEF a, b
<1> QED
  BY <1>1, <1>2, SMT

(* The group object after an update, by the way the entry converts.          *)
LEMMA ShownSwitch ==
  ASSUME NEW e \in messageTransformers, NEW r, NEW g,
         g \in transformed(e, r, g), e.conversion = "State"
  PROVE  g = (decoded(r, "U8") = e.code)
BY SMT DEF transformed

(* Status and mode: the low five bits of the value, and mode 1.              *)
LEMMA ShownStatus ==
  ASSUME NEW e \in messageTransformers, NEW r, NEW g,
         g \in transformed(e, r, g), e.conversion = "Status3",
         decoded(r, "U8") \in UINT8
  PROVE  g \div 2^3 = decoded(r, "U8") % 2^5 /\ g % 2^3 = 1
<1> DEFINE s == decoded(r, "U8")
<1>1. g = (s % 32) * 8 + 1
  BY SMT DEF transformed, toDptStatusMode3
<1>2. s \in Int /\ s >= 0
  BY SMT DEF UINT8
<1> HIDE DEF s
<1>3. g \div 8 = s % 32 /\ g % 8 = 1
  BY <1>1, <1>2, SMT
<1> QED
  BY <1>3, SMT DEF s

(* A percentage that has a code is shown as it is.                           *)
LEMMA ShownPercent ==
  ASSUME NEW e \in messageTransformers, NEW r, NEW g,
         g \in transformed(e, r, g), e.conversion = "Scaling",
         decoded(r, "U8") \in UINT8, decoded(r, "U8") <= 100
  PROVE  g = decoded(r, "U8")
<1> DEFINE s == decoded(r, "U8")
<1>1. s \in Int /\ s <= 100
  BY SMT DEF UINT8
<1>2. g \in IF s > 100 THEN {g, 0} ELSE {s}
  BY SMT DEF transformed
<1> HIDE DEF s
<1> QED
  BY <1>1, <1>2 DEF s

(* A duration is shown at most one minute short.                             *)
LEMMA ShownMinutes ==
  ASSUME NEW e \in messageTransformers, NEW r, NEW g,
         g \in transformed(e, r, g), e.conversion = "Minutes",
         NEW n \in Int, decoded(r, "U16") = n, n >= 0, 6 * n < 65536
  PROVE  g \in Int /\ g >= 6 * n - 1 /\ g <= 6 * n
<1> DEFINE m == truncated(product(quotient(n, 10), 60))
<1>1. e.type.rawType = "U16" /\ e.type.decimals = 1
  BY DurationEntries
<1>2. g \in minutesOf(floatValue(r, e.type))
  BY SMT DEF transformed
<1>3. floatValue(r, e.type) = quotient(n, 10)
  BY <1>1, Tens, SMT DEF floatValue, toFloat
<1>4. g \in IF m < 2^16 THEN {m} ELSE {2^16 - 1, m % 2^16}
  BY <1>2, <1>3, SMT DEF minutesOf
<1>5. n < Two(16)
  <2>1. Two(16) = 65536
    BY SMT DEF Two
  <2> QED
    BY <2>1, SMT
<1>6. m \in Int /\ m >= 6 * n - 1 /\ m <= 6 * n
  BY <1>5, ShownDuration, SMT
<1> HIDE DEF m
<1>7. g = m
  <2>1. 2^16 = 65536
    BY SMT
  <2> QED
    BY <1>4, <1>6, <2>1, SMT
<1> QED
  BY <1>6, <1>7, SMT

(* A temperature in single precision has one register only.                  *)
LEMMA ShownFloat ==
  ASSUME NEW e \in messageTransformers, NEW r, NEW g,
         g \in transformed(e, r, g), e.conversion = "Float",
         NEW n \in Int, decoded(r, "S16") = n, n >= -32768, n <= 32767
  PROVE  scaleFloat(g, e.type.decimals) = n
<1>1. e.type.rawType = "S16" /\ e.type.decimals = 1
  BY MeasuredEntries
<1>2. g = quotient(n, 10)
  BY <1>1, Tens, SMT DEF transformed, floatValue, toFloat
<1>3. scaleFloat(g, e.type.decimals) = rounded(quotient(n, 10), 10)
  BY <1>1, <1>2, Tens, SMT DEF scaleFloat
<1>4. Abs(n) < Two(16) /\ Abs(n) \in Int
  <2>1. Two(16) = 65536
    BY SMT DEF Two
  <2> QED
    BY <2>1, SMT DEF Abs
<1>5. PICK R \in Int :
        /\ rounded(quotient(n, 10), 10) = signed(n, R) /\ R >= 0
        /\ 2 * (10 * R) <= 20 * Abs(n) + 10 /\ 2 * (10 * R) >= 20 * Abs(n) - 10
  <2>1. 10 \in {10, 60}
    BY SMT
  <2> QED
    BY <1>4, <2>1, TenfoldIsNearest, SMT
<1>6. R = Abs(n)
  BY <1>4, <1>5, SMT
<1>7. signed(n, R) = n
  BY <1>6, SMT DEF signed, Abs
<1> QED
  BY <1>3, <1>5, <1>7, SMT

(* Of revolutions the group object shows pi / 30, to a thousandth.           *)
LEMMA ShownFrequency ==
  ASSUME NEW e \in messageTransformers, NEW r, NEW g,
         g \in transformed(e, r, g), e.conversion = "Frequency",
         NEW n \in Int, decoded(r, "U16") = n, n >= 0, n <= 65535
  PROVE  Abs(339 * g - 355 * n) <= 339
<1>1. e.type.rawType = "U16" /\ e.type.decimals = 2
  BY MeasuredEntries
<1>2. g = (n * 10472) \div 10000
  <2>1. g = angularFrequency(r, e.type)
    BY SMT DEF transformed
  <2> QED
    BY <1>1, <2>1, Tens, SMT DEF angularFrequency
<1>3. g \in Int /\ 10000 * g <= 10472 * n /\ 10472 * n < 10000 * g + 10000
  BY <1>2, SMT
<1>4. 339 * g - 355 * n <= 339 /\ 339 * g - 355 * n >= -339
  BY <1>3, SMT
<1> QED
  BY <1>3, <1>4, SMT DEF Abs

(* The remaining time in hours fits into 16 bits.                            *)
LEMMA ShownWeeks ==
  ASSUME NEW e \in messageTransformers, NEW r, NEW g,
         g \in transformed(e, r, g), e.conversion = "Weeks",
         Bytes4(r)
  PROVE  g < 2^16
<1>1. g = IF Len(r) < 4 THEN 0 ELSE r[4] * 24 * 7
  BY SMT DEF transformed, maintenanceWeeksToHrs
<1>2. CASE r = <<0, 0, 0>>
  <2>1. g = 0
    BY <1>1, <1>2, SMT
  <2> QED
    BY <2>1, SMT
<1>3. CASE r = <<0, 0, 0, r[4]>> /\ r[4] \in 0..255
  <2>1. Len(r) = 4
    BY <1>3, SMT
  <2>2. g = r[4] * 24 * 7
    BY <1>1, <2>1, SMT
  <2> QED
    BY <1>3, <2>2, SMT
<1> QED
  BY <1>2, <1>3, SMT DEF Bytes4

-------------------------------------------------------------------------------
(* The invariant: what the last step was.                                    *)

\* What set the group object last explains its value, and a telegram the register.
Traced ==
  /\ last.by \in {"nobody", "device", "knx"}
  /\ last.by = "nobody" => groupObject = NoValue
  /\ last.by = "device" => groupObject \in transformed(entry, last.value, groupObject)
  /\ last.by = "knx" => /\ entry.inverse /\ last.value \in KnxValues(entry)
                        /\ register = written(entry.type, inverseTransformed(entry, last.value))

Inv == entry \in messageTransformers /\ SoundRegister(entry, register) /\ Traced

(* The invariant holds at first, and every action keeps it.                  *)
LEMMA InitInv == Init => Inv
<1> SUFFICES ASSUME Init PROVE Inv
  OBVIOUS
<1>1. /\ entry \in messageTransformers /\ register \in Registers(entry)
      /\ groupObject = NoValue /\ last = Nothing
  BY DEF Init
<1>2. Traced
  BY <1>1, SMT DEF Traced, Nothing
<1>3. SoundRegister(entry, register)
  <2>1. CASE entry.type.rawType = "U8"
    <3>1. PICK b \in Raw8 : register = <<b>>
      BY <1>1, <2>1, SMT DEF Registers
    <3> QED
      BY <2>1, <3>1, Ranges, SMT DEF UINT8, SoundRegister, Bytes1
  <2>2. CASE entry.type.rawType \in {"U16", "S16"}
    <3>1. PICK v \in Raw16 : register = bytes(v, "U16")
      BY <1>1, <2>2, SMT DEF Registers
    <3>2. v \in Int /\ v >= 0 /\ v <= 65535
      <4>1. v \in UINT16
        BY Ranges, Zenon
      <4> QED
        BY <4>1, SMT DEF UINT16
    <3>3. register = <<(v % 65536) \div 256, v % 256>>
      BY <3>1, Widths, SMT DEF bytes
    <3>4. (v % 65536) \div 256 \in 0..255 /\ v % 256 \in 0..255
      BY <3>2, SMT
    <3> QED
      BY <2>2, <3>3, <3>4, SMT DEF SoundRegister, Bytes2
  <2>3. CASE entry.type.rawType = "RAW"
    <3>1. register \in {<<0, 0, 0, w>> : w \in Raw8} \cup {<<0, 0, 0>>}
      BY <1>1, <2>3, SMT DEF Registers
    <3> QED
      BY <2>3, <3>1, Ranges, SMT DEF UINT8, SoundRegister, Bytes4
  <2> QED
    BY <2>1, <2>2, <2>3, SMT DEF SoundRegister
<1> QED
  BY <1>1, <1>2, <1>3 DEF Inv

LEMMA NextInv == Inv /\ [Next]_vars => Inv'
<1> SUFFICES ASSUME Inv, [Next]_vars PROVE Inv'
  OBVIOUS
<1> USE DEF Inv
<1>1. CASE begin
  BY <1>1 DEF begin, Traced
<1>2. ASSUME NEW body, Update(body) PROVE Inv'
  <2>1. /\ groupObject' \in transformed(entry, body, groupObject)
        /\ last' = [by |-> "device", value |-> body]
        /\ entry' = entry /\ register' = register
    BY <1>2 DEF Update
  <2>2. last'.by = "device" /\ last'.value = body
    BY <2>1
  <2>3. groupObject' \in transformed(entry, body, groupObject')
    BY <2>1, TransformedAnew
  <2>4. Traced'
    BY <2>1, <2>2, <2>3 DEF Traced
  <2> QED
    BY <2>1, <2>4
<1>3. ASSUME NEW v \in KnxValues(entry), entry.inverse, KnxWrite(v) PROVE Inv'
  <2>1. /\ last' = [by |-> "knx", value |-> v] /\ entry' = entry
        /\ register' = written(entry.type, inverseTransformed(entry, v))
    BY <1>3 DEF KnxWrite
  <2>2. last'.by = "knx" /\ last'.value = v
    BY <2>1
  <2>3. Traced'
    BY <1>3, <2>1, <2>2 DEF Traced
  <2>4. SoundRegister(entry, register')
    BY <1>3, <2>1, WrittenIsSound
  <2> QED
    BY <2>1, <2>3, <2>4
<1>4. CASE UNCHANGED vars
  BY <1>4 DEF vars, Traced
<1> QED
  BY <1>1, <1>2, <1>3, <1>4 DEF Next

-------------------------------------------------------------------------------
(* What follows from it.                                                     *)

(* The bounds of an entry that KNX writes are inside one byte.               *)
LEMMA AllowedIs ==
  ASSUME NEW e \in messageTransformers, e.inverse
  PROVE  Allowed(e.type) = e.type.minValue .. e.type.maxValue
<1>1. e.conversion \in {"State", "Status3", "Scaling", "Minutes"}
  BY Conversions, MeasuredEntries, SMT
<1>2. e.type.minValue \in {0, 15, 30} /\ e.type.maxValue \in {5, 6, 65, 100, 240}
  BY <1>1, SwitchEntries, PercentEntries, DurationEntries, SMT
<1>3. 2^8 = 256
  BY SMT
<1>4. MAX(e.type.minValue, 0) = e.type.minValue /\ MIN(e.type.maxValue, 2^8) = e.type.maxValue
  BY <1>2, <1>3, SMT DEF MAX, MIN
<1> QED
  BY <1>4 DEF Allowed

\* The register r after KNX wrote v: among the allowed values, and nearest to v.
Means(e, r, v) ==
  LET raw == decoded(r, e.type.rawType)
  IN  /\ raw \in e.type.minValue .. e.type.maxValue
      /\ e.conversion = "State" => raw = switchValue(e, v)
      /\ e.conversion = "Scaling" =>
           \A x \in e.type.minValue .. e.type.maxValue : Abs(raw - v) <= Abs(x - v)
      /\ e.conversion = "Minutes" =>
           \A x \in e.type.minValue .. e.type.maxValue : Abs(6 * raw - v) <= Abs(6 * x - v)

LEMMA WrittenMeans ==
  ASSUME NEW e \in messageTransformers, e.inverse, NEW v \in KnxValues(e)
  PROVE  Means(e, written(e.type, inverseTransformed(e, v)), v)
<1> DEFINE r == written(e.type, inverseTransformed(e, v))
<1>1. e.conversion \in {"State", "Status3", "Scaling", "Minutes"}
  BY KnxWrites
<1>2. SoundRegister(e, r)
  BY WrittenIsSound
<1>3. /\ e.type.rawType = "U8" => r[1] \in UINT8 /\ decoded(r, "U8") = r[1]
      /\ e.type.rawType = "U16" =>
           r[1] \in UINT8 /\ r[2] \in UINT8 /\ decoded(r, "U16") = r[1] * 256 + r[2]
  <2> HIDE DEF r
  <2> QED
    BY <1>2, RegisterIs
<1>4. CASE e.conversion = "State"
  <2>1. v \in BOOLEAN
    BY <1>4, KnxWrites
  <2>2. e.type.rawType = "U8" /\ e.type.minValue = 0 /\ e.type.maxValue \in {5, 6}
    BY <1>4, ByteEntries, SwitchEntries
  <2>3. switchValue(e, v) \in 0 .. e.type.maxValue /\ r = <<switchValue(e, v)>>
    BY <1>4, <2>1, WrittenSwitch
  <2> HIDE DEF r
  <2>4. decoded(r, e.type.rawType) = switchValue(e, v)
    BY <1>3, <2>2, <2>3
  <2>5. Means(e, r, v)
    BY <1>4, <2>2, <2>3, <2>4 DEF Means
  <2> QED
    BY <2>5 DEF r
<1>5. CASE e.conversion = "Status3"
  <2>1. v \in 0..255
    BY <1>5, KnxWrites DEF UINT8
  <2>2. e.type.rawType = "U8" /\ e.type.minValue = 0 /\ e.type.maxValue \in {5, 6}
    BY <1>5, ByteEntries, SwitchEntries
  <2>3. PICK w \in 0 .. e.type.maxValue : r = <<w>>
    BY <1>5, <2>1, WrittenStatus
  <2> HIDE DEF r
  <2>4. decoded(r, e.type.rawType) = w
    BY <1>3, <2>2, <2>3
  <2>5. Means(e, r, v)
    BY <1>5, <2>2, <2>4 DEF Means
  <2> QED
    BY <2>5 DEF r
<1>6. CASE e.conversion = "Scaling"
  <2> DEFINE least    == e.type.minValue
             greatest == e.type.maxValue
             w        == Bounded(v, least, greatest)
  <2>1. v \in 0..100
    BY <1>6, KnxWrites DEF Percentages
  <2>2. e.type.rawType = "U8" /\ least \in {15, 30} /\ greatest \in {65, 100}
    BY <1>6, ByteEntries, PercentEntries
  <2>3. r = <<w>>
    BY <1>6, <2>1, WrittenPercent
  <2> HIDE DEF r
  <2>4. decoded(r, e.type.rawType) = w
    BY <1>3, <2>2, <2>3
  <2>5. w \in least .. greatest /\ \A x \in least .. greatest : Abs(w - v) <= Abs(x - v)
    <3> HIDE DEF least, greatest
    <3> QED
      BY <2>1, <2>2, SMT DEF Bounded, Abs
  <2>6. Means(e, r, v)
    <3> HIDE DEF w
    <3> QED
      BY <1>6, <2>4, <2>5 DEF Means
  <2> QED
    BY <2>6 DEF r
<1>7. CASE e.conversion = "Minutes"
  <2>1. v \in Int /\ v >= 0 /\ v <= 65535 /\ e.type.rawType = "U16"
        /\ e.type.minValue = 0 /\ e.type.maxValue = 240
    <3>1. v \in UINT16 /\ e.type.rawType = "U16" /\ e.type.minValue = 0 /\ e.type.maxValue = 240
      BY <1>7, KnxWrites, DurationEntries
    <3> QED
      BY <3>1, SMT DEF UINT16
  <2>2. PICK R \in Int : /\ r = <<0, Bounded(R, 0, 240)>>
                         /\ R >= 0 /\ 6 * R <= v + 3 /\ 6 * R >= v - 3
    BY <1>7, <2>1, WrittenMinutes
  <2> DEFINE w == Bounded(R, 0, 240)
  <2>3. w \in Int /\ w >= 0 /\ w <= 240 /\ w = IF R > 240 THEN 240 ELSE R
    BY <2>2, SMT DEF Bounded
  <2> HIDE DEF r, w
  <2>4. decoded(r, e.type.rawType) = w
    <3>1. r = <<0, w>>
      BY <2>2 DEF w
    <3> QED
      BY <1>3, <2>1, <2>3, <3>1, SMT
  <2>5. ASSUME NEW x \in 0 .. 240 PROVE Abs(6 * w - v) <= Abs(6 * x - v)
    BY <2>1, <2>2, <2>3, SMT DEF Abs
  <2>6. w \in 0 .. 240
    BY <2>3, SMT
  <2>7. Means(e, r, v)
    BY <1>7, <2>1, <2>4, <2>5, <2>6 DEF Means
  <2> QED
    BY <2>7 DEF r
<1> QED
  BY <1>1, <1>4, <1>5, <1>6, <1>7

(* So the register after a telegram is what KNX means.                       *)
LEMMA InvWrites == Inv => WritesWhatKnxMeans
<1> SUFFICES ASSUME Inv, last.by = "knx" PROVE WritesWhatKnxMeans
  BY DEF WritesWhatKnxMeans
<1>1. /\ entry \in messageTransformers /\ entry.inverse /\ last.value \in KnxValues(entry)
      /\ register = written(entry.type, inverseTransformed(entry, last.value))
  BY DEF Inv, Traced
<1>2. Means(entry, register, last.value)
  BY <1>1, WrittenMeans
<1>3. Allowed(entry.type) = entry.type.minValue .. entry.type.maxValue
  BY <1>1, AllowedIs
<1>4. Raw \in Allowed(entry.type)
  BY <1>2, <1>3 DEF Means, Raw
<1>5. entry.conversion \in {"State", "Status3", "Scaling", "Minutes"}
  BY <1>1, KnxWrites
<1>6. ASSUME entry.conversion = "State"
      PROVE  Raw = IF last.value THEN entry.code ELSE 0
  BY <1>2, <1>6 DEF Means, Raw, switchValue
<1>7. ASSUME entry.conversion \in {"Scaling", "Minutes"}
      PROVE  \A r \in Allowed(entry.type) : distance(Raw, last.value) <= distance(r, last.value)
  <2>1. CASE entry.conversion = "Scaling"
    <3>1. \A x : distance(x, last.value) = Abs(x - last.value)
      BY <2>1 DEF distance
    <3> QED
      BY <1>2, <1>3, <2>1, <3>1, Zenon DEF Means, Raw
  <2>2. CASE entry.conversion = "Minutes"
    <3>1. \A x : distance(x, last.value) = Abs(6 * x - last.value)
      BY <2>2 DEF distance
    <3> QED
      BY <1>2, <1>3, <2>2, <3>1, Zenon DEF Means, Raw
  <2> QED
    BY <1>7, <2>1, <2>2
<1> QED
  BY <1>4, <1>5, <1>6, <1>7 DEF WritesWhatKnxMeans

(* Bytes of the length of the type.                                          *)
LEMMA InvType == Inv => TypeOK
<1> SUFFICES ASSUME Inv PROVE TypeOK
  OBVIOUS
<1>1. /\ entry \in messageTransformers /\ SoundRegister(entry, register)
      /\ last.by = "nobody" => groupObject = NoValue
  BY DEF Inv, Traced
<1>2. entry.type.rawType \in {"U8", "U16", "S16", "RAW"}
  BY <1>1, Conversions, ByteEntries, DurationEntries, MeasuredEntries, SMT
<1>3. CASE entry.type.rawType = "U8"
  <2>1. register = <<register[1]>> /\ register[1] \in 0..255
    BY <1>1, <1>3, SMT DEF SoundRegister, Bytes1
  <2> DEFINE b == register[1]
  <2> HIDE DEF b
  <2>2. register = <<b>> /\ b \in 0..255
    BY <2>1 DEF b
  <2>3. Len(register) = 1 /\ \A i \in DOMAIN register : register[i] \in 0..255
    BY <2>2, SMT
  <2> QED
    BY <1>1, <1>3, <2>3, Widths, SMT DEF TypeOK
<1>4. CASE entry.type.rawType \in {"U16", "S16"}
  <2>1. register = <<register[1], register[2]>> /\ register[1] \in 0..255 /\ register[2] \in 0..255
    BY <1>1, <1>4, SMT DEF SoundRegister, Bytes2
  <2> DEFINE a == register[1]
             b == register[2]
  <2> HIDE DEF a, b
  <2>2. register = <<a, b>> /\ a \in 0..255 /\ b \in 0..255
    BY <2>1 DEF a, b
  <2>3. Len(register) = 2 /\ \A i \in DOMAIN register : register[i] \in 0..255
    BY <2>2, SMT
  <2> QED
    BY <1>1, <1>4, <2>3, Widths, SMT DEF TypeOK
<1>5. CASE entry.type.rawType = "RAW"
  <2>1. \/ register = <<0, 0, 0>>
        \/ register = <<0, 0, 0, register[4]>> /\ register[4] \in 0..255
    BY <1>1, <1>5, SMT DEF SoundRegister, Bytes4
  <2> DEFINE b == register[4]
  <2> HIDE DEF b
  <2>2. register = <<0, 0, 0>> \/ (register = <<0, 0, 0, b>> /\ b \in 0..255)
    BY <2>1 DEF b
  <2>3. \A i \in DOMAIN register : register[i] \in 0..255
    BY <2>2, SMT
  <2> QED
    BY <1>1, <1>5, <2>3, SMT DEF TypeOK
<1> QED
  BY <1>2, <1>3, <1>4, <1>5, SMT

(* After an update of the right length the group object shows the register.  *)
LEMMA InvShows == Inv => ShowsTheRegister
<1> SUFFICES ASSUME Inv, last.by = "device", last.value = register PROVE ShowsTheRegister
  BY DEF ShowsTheRegister
<1> DEFINE e == entry
           r == register
           g == groupObject
<1>1. e \in messageTransformers /\ SoundRegister(e, r) /\ g \in transformed(e, r, g)
  BY DEF Inv, Traced
<1>2. e.conversion \in {"State", "Status3", "Scaling", "Minutes", "Float", "Frequency", "Weeks"}
  BY <1>1, Conversions
<1>3. Raw = decoded(r, e.type.rawType)
  BY DEF Raw
<1>4. CASE e.conversion \in {"State", "Status3", "Scaling"}
  <2>1. e.type.rawType = "U8"
    BY <1>1, <1>4, ByteEntries
  <2>2. Raw = decoded(r, "U8")
    BY <1>3, <2>1
  <2>3. decoded(r, "U8") \in UINT8
    BY <1>1, <2>1, RegisterIs
  <2>4. CASE e.conversion = "State"
    <3>1. g = (Raw = e.code)
      BY <1>1, <2>2, <2>4, ShownSwitch
    <3> QED
      BY <2>4, <3>1 DEF ShowsTheRegister
  <2>5. CASE e.conversion = "Status3"
    <3>1. g \div 2^3 = Raw % 2^5 /\ g % 2^3 = 1
      BY <1>1, <2>2, <2>3, <2>5, ShownStatus
    <3> QED
      BY <2>5, <3>1 DEF ShowsTheRegister
  <2>6. CASE e.conversion = "Scaling"
    <3>1. Raw <= 100 => g = Raw
      BY <1>1, <2>2, <2>3, <2>6, ShownPercent
    <3> QED
      BY <2>6, <3>1 DEF ShowsTheRegister
  <2> QED
    BY <1>4, <2>4, <2>5, <2>6
<1>5. ASSUME e.type.rawType = "U16" PROVE Raw \in Int /\ Raw >= 0 /\ Raw <= 65535
  <2>1. r[1] \in UINT8 /\ r[2] \in UINT8 /\ decoded(r, "U16") = r[1] * 256 + r[2]
    BY <1>1, <1>5, RegisterIs
  <2> DEFINE a == r[1]
             b == r[2]
  <2>2. a \in UINT8 /\ b \in UINT8 /\ Raw = a * 256 + b
    BY <1>3, <1>5, <2>1
  <2> HIDE DEF a, b
  <2> QED
    BY <2>2, SMT DEF UINT8
<1>6. CASE e.conversion = "Minutes"
  <2>1. e.type.rawType = "U16"
    BY <1>1, <1>6, DurationEntries
  <2>2. decoded(r, "U16") = Raw
    BY <1>3, <2>1
  <2>3. ASSUME 6 * Raw < 65536 PROVE g \in (6 * Raw - 1) .. (6 * Raw)
    <3> DEFINE n == Raw
    <3> HIDE DEF n
    <3>1. n \in Int /\ n >= 0 /\ 6 * n < 65536 /\ decoded(r, "U16") = n
      BY <1>5, <2>1, <2>2, <2>3, SMT DEF n
    <3>2. g \in Int /\ g >= 6 * n - 1 /\ g <= 6 * n
      BY <1>1, <1>6, <3>1, ShownMinutes, SMT
    <3>3. g \in (6 * n - 1) .. (6 * n)
      BY <3>1, <3>2, SMT
    <3> QED
      BY <3>3 DEF n
  <2>4. 2^16 = 65536
    BY SMT
  <2> QED
    BY <1>6, <2>3, <2>4, SMT DEF ShowsTheRegister
<1>7. CASE e.conversion = "Float"
  <2>1. e.type.rawType = "S16"
    BY <1>1, <1>7, MeasuredEntries
  <2>2. decoded(r, "S16") = Raw
    BY <1>3, <2>1
  <2>3. IsS16(Raw)
    BY <1>1, <2>1, <2>2, RegisterIs
  <2>4. scaleFloat(g, e.type.decimals) = Raw
    <3> DEFINE n == Raw
    <3> HIDE DEF n
    <3>1. n \in Int /\ n >= -32768 /\ n <= 32767 /\ decoded(r, "S16") = n
      BY <2>2, <2>3, SMT DEF n, IsS16
    <3>2. scaleFloat(g, e.type.decimals) = n
      BY <1>1, <1>7, <3>1, ShownFloat, SMT
    <3> QED
      BY <3>2 DEF n
  <2> QED
    BY <1>7, <2>4 DEF ShowsTheRegister
<1>8. CASE e.conversion = "Frequency"
  <2>1. e.type.rawType = "U16"
    BY <1>1, <1>8, MeasuredEntries
  <2>2. decoded(r, "U16") = Raw
    BY <1>3, <2>1
  <2>3. Abs(339 * g - 355 * Raw) <= 339
    <3> DEFINE n == Raw
    <3> HIDE DEF n
    <3>1. n \in Int /\ n >= 0 /\ n <= 65535 /\ decoded(r, "U16") = n
      BY <1>5, <2>1, <2>2, SMT DEF n
    <3>2. Abs(339 * g - 355 * n) <= 339
      BY <1>1, <1>8, <3>1, ShownFrequency, SMT
    <3> QED
      BY <3>2 DEF n
  <2> QED
    BY <1>8, <2>3 DEF ShowsTheRegister
<1>9. CASE e.conversion = "Weeks"
  <2>1. Bytes4(r)
    BY <1>1, <1>9, MeasuredEntries DEF SoundRegister
  <2>2. g < 2^16
    BY <1>1, <1>9, <2>1, ShownWeeks
  <2> QED
    BY <1>9, <2>2 DEF ShowsTheRegister
<1> QED
  BY <1>2, <1>4, <1>6, <1>7, <1>8, <1>9

\* The allowed value n of a register comes back when its object is written again.
LEMMA ComesBack ==
  ASSUME NEW e \in messageTransformers, e.inverse, e.conversion # "Status3",
         NEW r, SoundRegister(e, r), decoded(r, e.type.rawType) \in Allowed(e.type),
         NEW g, g \in transformed(e, r, g), g \in KnxValues(e), e.conversion = "State" => g
  PROVE  written(e.type, inverseTransformed(e, g)) = r
<1> DEFINE raw == decoded(r, e.type.rawType)
<1>1. e.conversion \in {"State", "Scaling", "Minutes"}
  BY KnxWrites
<1>2. raw \in e.type.minValue .. e.type.maxValue
  BY AllowedIs
<1>3. e.type.rawType = "U8" => r[1] \in UINT8 /\ r = <<r[1]>> /\ raw = r[1]
  BY RegisterIs
<1>4. CASE e.conversion = "State"
  <2>1. e.type.rawType = "U8"
    BY <1>4, ByteEntries
  <2>2. g = (raw = e.code) /\ g
    <3>1. g = (decoded(r, "U8") = e.code)
      BY <1>4, ShownSwitch
    <3>2. (e.conversion = "State" => g) /\ raw = decoded(r, "U8")
      BY <2>1
    <3> QED
      BY <1>4, <3>1, <3>2
  <2>3. g \in BOOLEAN /\ g = TRUE
    BY <2>2
  <2>4. written(e.type, inverseTransformed(e, g)) = <<switchValue(e, g)>>
    BY <1>4, <2>3, WrittenSwitch
  <2>5. switchValue(e, g) = e.code
    BY <2>3 DEF switchValue
  <2> QED
    BY <1>3, <2>1, <2>2, <2>4, <2>5
<1>5. CASE e.conversion = "Scaling"
  <2>1. e.type.rawType = "U8" /\ e.type.minValue \in {15, 30} /\ e.type.maxValue \in {65, 100}
    BY <1>5, ByteEntries, PercentEntries
  <2>2. raw \in UINT8 /\ raw <= 100 /\ raw = decoded(r, "U8")
    BY <1>2, <1>3, <2>1, SMT
  <2>3. g = raw
    BY <1>5, <2>2, ShownPercent
  <2>4. g \in 0..100
    BY <1>5, KnxWrites DEF Percentages
  <2>5. written(e.type, inverseTransformed(e, g)) = <<Bounded(g, e.type.minValue, e.type.maxValue)>>
    BY <1>5, <2>4, WrittenPercent
  <2>6. Bounded(g, e.type.minValue, e.type.maxValue) = g
    <3> DEFINE least == e.type.minValue
               greatest == e.type.maxValue
    <3>1. g \in least .. greatest /\ least \in {15, 30} /\ greatest \in {65, 100}
      BY <1>2, <2>1, <2>3
    <3> HIDE DEF least, greatest
    <3>2. Bounded(g, least, greatest) = g
      BY <3>1, SMT DEF Bounded
    <3> QED
      BY <3>2 DEF least, greatest
  <2> QED
    BY <1>3, <2>1, <2>3, <2>5, <2>6
<1>6. CASE e.conversion = "Minutes"
  <2>1. e.type.rawType = "U16" /\ e.type.minValue = 0 /\ e.type.maxValue = 240
    BY <1>6, DurationEntries
  <2> DEFINE a == r[1]
             b == r[2]
  <2>2. /\ a \in UINT8 /\ b \in UINT8 /\ r = <<a, b>> /\ raw = a * 256 + b
        /\ raw \in 0 .. 240 /\ raw = decoded(r, "U16")
    BY <1>2, <2>1, RegisterIs
  <2> HIDE DEF a, b, raw
  <2>3. a = 0 /\ b = raw /\ raw \in Int /\ raw >= 0 /\ raw <= 240
    BY <2>2, SMT DEF UINT8
  <2>4. 6 * raw < 65536
    BY <2>3, SMT
  <2>5. g \in Int /\ g >= 6 * raw - 1 /\ g <= 6 * raw
    <3>1. decoded(r, "U16") = raw
      BY <2>2
    <3> QED
      BY <1>6, <2>3, <2>4, <3>1, ShownMinutes, SMT
  <2>6. g >= 0 /\ g <= 65535
    <3>1. g \in UINT16
      BY <1>6, KnxWrites
    <3> QED
      BY <3>1, SMT DEF UINT16
  <2>7. PICK R \in Int :
          /\ written(e.type, inverseTransformed(e, g)) = <<0, Bounded(R, 0, 240)>>
          /\ R >= 0 /\ 6 * R <= g + 3 /\ 6 * R >= g - 3
    BY <1>6, <2>5, <2>6, WrittenMinutes, SMT
  <2>8. R = raw
    BY <2>3, <2>5, <2>7, SMT
  <2>9. Bounded(R, 0, 240) = raw
    BY <2>3, <2>8, SMT DEF Bounded
  <2> QED
    BY <2>2, <2>3, <2>7, <2>9
<1> QED
  BY <1>1, <1>4, <1>5, <1>6

(* The step of which the action property speaks is a telegram.               *)
LEMMA StepComesBack ==
  ASSUME Inv, [Next]_vars,
         last.by = "device", last.value = register, entry.inverse, Raw \in Allowed(entry.type),
         entry.conversion # "Status3", entry.conversion = "State" => groupObject,
         last'.by = "knx", last'.value = groupObject
  PROVE  register' = register
<1>1. PICK v \in KnxValues(entry) : KnxWrite(v)
  <2>1. ~begin /\ ~UNCHANGED vars
    BY DEF begin, vars
  <2>2. ASSUME NEW body, Update(body) PROVE FALSE
    BY <2>2 DEF Update
  <2> QED
    BY <2>1, <2>2 DEF Next
<1>2. /\ v = groupObject
      /\ register' = written(entry.type, inverseTransformed(entry, v))
  BY <1>1 DEF KnxWrite
<1>3. /\ entry \in messageTransformers /\ SoundRegister(entry, register)
      /\ groupObject \in transformed(entry, register, groupObject)
      /\ decoded(register, entry.type.rawType) \in Allowed(entry.type)
  BY DEF Inv, Traced, Raw
<1> QED
  BY <1>1, <1>2, <1>3, ComesBack

-------------------------------------------------------------------------------
(* The invariant always holds.                                               *)
LEMMA InvHolds == Spec => []Inv
  BY InitInv, NextInv, PTL DEF Spec

(* Registers hold bytes of the length of their type, for any values.         *)
THEOREM TypeCorrect == Spec => []TypeOK
  BY InvHolds, InvType, PTL

(* Whatever KNX writes, the device gets an allowed value and the nearest one *)
(* there is, for every duration of 16 bits and every percentage.             *)
(* (HovalMessageTransformer.h:17-30, :56-59; HovalProtocolDecoder.cpp:726-760)*)
THEOREM WritesAreMeant == Spec => []WritesWhatKnxMeans
  BY InvHolds, InvWrites, PTL

(* Every value a register can have is shown as it should be.                 *)
(* (HovalMessageTransformer.h:12-79; HovalMessage.cpp:160-259)               *)
THEOREM RegisterIsShown == Spec => []ShowsTheRegister
  BY InvHolds, InvShows, PTL

(* What KNX was shown and writes back never changes the register, although   *)
(* durations are truncated one way and rounded the other.                    *)
(* (HovalMessageTransformer.h:49-59)                                         *)
THEOREM WhatIsShownComesBack == Spec => ShownComesBack
<1>1. Inv /\ [Next]_vars =>
        [ /\ last.by = "device" /\ last.value = register
          /\ entry.inverse /\ Raw \in Allowed(entry.type)
          /\ entry.conversion # "Status3" /\ (entry.conversion = "State" => groupObject)
          /\ last'.by = "knx" /\ last'.value = groupObject
          => register' = register ]_vars
  BY StepComesBack
<1> QED
  BY <1>1, InvHolds, PTL DEF Spec, ShownComesBack

-------------------------------------------------------------------------------
(* The table of types.  Nothing but its size and the range of the hash       *)
(* function is used: which types share a chain does not matter.              *)

\* The types of the filter, as far as the table depends on them.
RawTypes  == {"U8", "U16", "S16", "RAW"}
DataTypes == {"UINT8", "FLOAT", "LIST", "STRING", "RAW", "ERRORTYPE"}

MessageTypes ==
  [unitType : Int, functionGroup : Int, functionNumber : Int, dataPointId : Int,
   rawType : RawTypes, decimals : Int, dataType : DataTypes, minValue : Int, maxValue : Int]

(* The types of the filter are such types.                                   *)
LEMMA Constants ==
  /\ INT32_MIN \in Int /\ INT32_MAX \in Int
  /\ HOVAL_HOMEVENT \in Int /\ HOVAL_FUNCTION_GROUP_VENTILATION \in Int
<1>1. INT32_MIN \in Int /\ INT32_MAX \in Int
  BY SMT DEF INT32_MIN, INT32_MAX
<1>2. HOVAL_HOMEVENT = 32
  <2>1. 2^4 = 16
    BY SMT
  <2> QED
    BY <2>1, SMT DEF HOVAL_HOMEVENT
<1>3. HOVAL_FUNCTION_GROUP_VENTILATION = 50
  BY DEF HOVAL_FUNCTION_GROUP_VENTILATION
<1> QED
  BY <1>1, <1>2, <1>3, SMT

(* Data points that are only read, and those that are written.               *)
LEMMA ReadTypes ==
  ASSUME NEW dp \in Int, NEW raw \in RawTypes, NEW decimals \in Int, NEW data \in DataTypes
  PROVE  /\ Measured(dp, raw, decimals, data) \in MessageTypes
         /\ OfDevice(dp, raw, decimals, data) \in MessageTypes
BY Constants, SMT DEF Measured, OfDevice, HovalMessageType, MessageTypes

LEMMA WrittenTypes ==
  ASSUME NEW dp \in Int, NEW raw \in RawTypes, NEW decimals \in Int, NEW data \in DataTypes,
         NEW least \in Int, NEW greatest \in Int
  PROVE  Setting(dp, raw, decimals, data, least, greatest) \in MessageTypes
BY Constants, SMT DEF Setting, HovalMessageType, MessageTypes

(* The filter is a sequence of them.                                         *)
LEMMA FilterIsOfTypes == messageFilter \in Seq(MessageTypes)
<1>0. /\ "U8" \in RawTypes /\ "U16" \in RawTypes /\ "S16" \in RawTypes /\ "RAW" \in RawTypes
      /\ "UINT8" \in DataTypes /\ "FLOAT" \in DataTypes /\ "LIST" \in DataTypes
      /\ "STRING" \in DataTypes /\ "RAW" \in DataTypes /\ "ERRORTYPE" \in DataTypes
  BY DEF RawTypes, DataTypes
<1>1. /\ OperatingMode \in MessageTypes /\ NormalModulation \in MessageTypes
      /\ EconomyModulation \in MessageTypes /\ HumiditySetpoint \in MessageTypes
      /\ AirQualityControl \in MessageTypes /\ PartyMode \in MessageTypes
      /\ PauseMode \in MessageTypes /\ PartyPauseValue \in MessageTypes
  BY <1>0, WrittenTypes, SMT
  DEF OperatingMode, NormalModulation, EconomyModulation, HumiditySetpoint,
     AirQualityControl, PartyMode, PauseMode, PartyPauseValue
<1>2. /\ Modulation \in MessageTypes /\ HumidityExhaust \in MessageTypes
      /\ VocExhaust \in MessageTypes /\ VocOutdoor \in MessageTypes
      /\ VentilationControlStatus \in MessageTypes /\ TemperatureOutdoor \in MessageTypes
      /\ TemperatureExhaust \in MessageTypes /\ VentilationExhaust \in MessageTypes
      /\ MaintenanceRemainingTime \in MessageTypes
  BY <1>0, ReadTypes, SMT
  DEF Modulation, HumidityExhaust, VocExhaust, VocOutdoor,
     VentilationControlStatus, TemperatureOutdoor, TemperatureExhaust,
     VentilationExhaust, MaintenanceRemainingTime
<1>3. /\ MaintenanceRemainingTime2 \in MessageTypes /\ ActiveWeek \in MessageTypes
      /\ ActiveWeekName \in MessageTypes /\ DisplayState \in MessageTypes
      /\ DeviceName \in MessageTypes /\ VentilatorExhaustPWM \in MessageTypes
      /\ VentilatorOutdoorPWM \in MessageTypes /\ RPMRotor1 \in MessageTypes
      /\ RPMRotor2 \in MessageTypes
  BY <1>0, ReadTypes, SMT
  DEF MaintenanceRemainingTime2, ActiveWeek, ActiveWeekName, DisplayState,
     DeviceName, VentilatorExhaustPWM, VentilatorOutdoorPWM, RPMRotor1,
     RPMRotor2
<1>4. \A i \in 1 .. 5 : OfDevice(29041 + i, "RAW", 0, "ERRORTYPE") \in MessageTypes
  BY ReadTypes, SMT DEF RawTypes, DataTypes
<1>5. ActiveErrors \in Seq(MessageTypes)
  BY <1>4, SMT DEF ActiveErrors
<1> HIDE DEF MessageTypes
<1>6. <<OperatingMode, NormalModulation, EconomyModulation, Modulation, HumiditySetpoint,
        HumidityExhaust, VocExhaust, VocOutdoor, AirQualityControl, VentilationControlStatus,
        TemperatureOutdoor, TemperatureExhaust, VentilationExhaust, PartyMode, PauseMode,
        PartyPauseValue, MaintenanceRemainingTime, MaintenanceRemainingTime2>>
      \in Seq(MessageTypes)
  BY <1>1, <1>2, <1>3
<1>7. <<ActiveWeek, ActiveWeekName, DisplayState, DeviceName, VentilatorExhaustPWM,
        VentilatorOutdoorPWM, RPMRotor1, RPMRotor2>> \in Seq(MessageTypes)
  BY <1>2, <1>3
<1>8. \A s, t \in Seq(MessageTypes) : s \o t \in Seq(MessageTypes)
  OBVIOUS
<1> QED
  BY <1>5, <1>6, <1>7, <1>8, Zenon DEF messageFilter

(* Every id that is looked up has a chain.                                   *)
LEMMA IdsAreNumbers ==
  ASSUME NEW id \in TypeIds
  PROVE  TypeMap!calculateHashKey(id) \in TypeMap!HashKeys
<1>1. \A t \in Declared : t \in MessageTypes
  <2>1. Welcome \in MessageTypes /\ MaintenanceResetCounter \in MessageTypes
    BY ReadTypes, SMT DEF RawTypes, DataTypes, Welcome, MaintenanceResetCounter
  <2>2. \A i \in DOMAIN messageFilter : messageFilter[i] \in MessageTypes
    BY FilterIsOfTypes
  <2> QED
    BY <2>1, <2>2 DEF Declared, Filtered
<1> DEFINE Ids == [unitType : Int, functionGroup : Int, functionNumber : Int, dataPointId : Int]
<1>2. \A t \in MessageTypes : HovalMessageTypeId(t) \in Ids
  BY DEF MessageTypes, HovalMessageTypeId
<1>3. id \in Ids
  <2> DEFINE ids == {HovalMessageTypeId(t) : t \in Declared}
  <2>1. ids \subseteq Ids
    BY <1>1, <1>2
  <2>2. /\ \A i \in Ids : [i EXCEPT !.unitType = 64] \in Ids
        /\ \A i \in Ids : [i EXCEPT !.functionGroup = 50 - @] \in Ids
        /\ \A i \in Ids : [i EXCEPT !.functionNumber = 1] \in Ids
    BY SMT
  <2>3. id \in ids \cup {[i EXCEPT !.unitType = 64] : i \in ids}
                   \cup {[i EXCEPT !.functionGroup = 50 - @] : i \in ids}
                   \cup {[i EXCEPT !.functionNumber = 1] : i \in ids}
    BY DEF TypeIds
  <2> HIDE DEF ids, Ids
  <2> QED
    BY <2>1, <2>2, <2>3
<1>4. hashCode(id) \in Nat
  <2>1. 2^16 = 65536
    BY SMT
  <2> QED
    BY <1>3, <2>1, SMT DEF hashCode
<1>5. TypeMap!calculateHashKey(id) = hashCode(id) % 53
  BY DEF TypeMap!calculateHashKey, messageFilterHash
<1> QED
  BY <1>4, <1>5, SMT DEF TypeMap!HashKeys

\* The tables of begin(): each chain is a sequence of nodes.
TypeNodes  == [key : TypeIds, value : Filtered]
TypeTables == [TypeMap!HashKeys -> Seq(TypeNodes)]

(* The loops of the map stop at a node with the key, if there is one.        *)
LEMMA StopsAtNode ==
  ASSUME NEW c \in Seq(TypeNodes), NEW id, TypeMap!nodesWith(c, id) # {}
  PROVE  /\ TypeMap!entryOf(c, id) \in DOMAIN c
         /\ c[TypeMap!entryOf(c, id)].key = id
<1> DEFINE at == TypeMap!nodesWith(c, id)
<1>1. at \subseteq Nat
  BY DEF TypeMap!nodesWith
<1>2. \E i \in at : \A j \in at : i <= j
  <2> HIDE DEF at
  <2> QED
    BY <1>1, Least DEF at
<1>3. TypeMap!entryOf(c, id) \in at
  BY <1>2 DEF TypeMap!entryOf
<1> QED
  BY <1>3 DEF TypeMap!nodesWith

(* What is found after put: the new type under its id, and under every other *)
(* id what was found before (HashMap.h:90-112).                              *)
LEMMA FoundAfterPut ==
  ASSUME NEW t \in TypeTables, NEW id \in TypeIds, NEW type \in Filtered
  PROVE  /\ TypeMap!put(t, id, type) \in TypeTables
         /\ \A other \in TypeIds :
              TypeMap!get(TypeMap!put(t, id, type), other) =
                IF other = id THEN type ELSE TypeMap!get(t, other)
<1> DEFINE h     == TypeMap!calculateHashKey(id)
           chain == t[h]
           node  == TypeMap!Node(id, type)
<1>1. h \in TypeMap!HashKeys /\ chain \in Seq(TypeNodes)
  BY IdsAreNumbers DEF TypeTables
<1>2. node \in TypeNodes /\ node.key = id /\ node.value = type
  BY DEF TypeMap!Node, TypeNodes
<1>3. ASSUME NEW c \in Seq(TypeNodes),
             TypeMap!put(t, id, type) = [t EXCEPT ![h] = c],
             TypeMap!nodesWith(c, id) # {},
             c[TypeMap!entryOf(c, id)] = node,
             \A k \in TypeIds \ {id} :
                /\ TypeMap!nodesWith(c, k) = TypeMap!nodesWith(chain, k)
                /\ TypeMap!nodesWith(c, k) # {} =>
                     c[TypeMap!entryOf(c, k)] = chain[TypeMap!entryOf(chain, k)]
      PROVE  /\ TypeMap!put(t, id, type) \in TypeTables
             /\ \A other \in TypeIds :
                  TypeMap!get(TypeMap!put(t, id, type), other) =
                    IF other = id THEN type ELSE TypeMap!get(t, other)
  <2> DEFINE u == [t EXCEPT ![h] = c]
  <2>1. u \in TypeTables /\ u[h] = c
    BY <1>1, <1>3 DEF TypeTables
  <2>2. \A g \in TypeMap!HashKeys \ {h} : u[g] = t[g]
    BY DEF TypeTables
  <2> HIDE DEF u
  <2>3. TypeMap!get(u, id) = type
    BY <1>2, <1>3, <2>1 DEF TypeMap!get
  <2>4. ASSUME NEW k \in TypeIds \ {id} PROVE TypeMap!get(u, k) = TypeMap!get(t, k)
    <3>1. CASE TypeMap!calculateHashKey(k) = h
      BY <1>3, <2>1, <3>1 DEF TypeMap!get
    <3>2. CASE TypeMap!calculateHashKey(k) # h
      <4>1. TypeMap!calculateHashKey(k) \in TypeMap!HashKeys \ {h}
        BY <3>2, IdsAreNumbers
      <4> QED
        BY <2>2, <4>1 DEF TypeMap!get
    <3> QED
      BY <3>1, <3>2
  <2> QED
    BY <1>3, <2>1, <2>3, <2>4 DEF u
<1>4. CASE TypeMap!nodesWith(chain, id) = {}
  <2> DEFINE c == Append(chain, node)
  <2>1. TypeMap!put(t, id, type) = [t EXCEPT ![h] = c]
    BY <1>4 DEF TypeMap!put
  <2>2. \A i \in DOMAIN chain : chain[i].key # id
    BY <1>4 DEF TypeMap!nodesWith
  <2> HIDE DEF h, chain, node
  <2>3. /\ c \in Seq(TypeNodes) /\ Len(chain) + 1 \notin DOMAIN chain
        /\ DOMAIN c = DOMAIN chain \cup {Len(chain) + 1}
        /\ c[Len(chain) + 1] = node /\ \A i \in DOMAIN chain : c[i] = chain[i]
    BY <1>1, <1>2, SMT
  <2> HIDE DEF c
  <2>4. TypeMap!nodesWith(c, id) = {Len(chain) + 1}
    BY <1>2, <2>2, <2>3 DEF TypeMap!nodesWith
  <2>5. TypeMap!entryOf(c, id) = Len(chain) + 1
    <3>1. /\ TypeMap!entryOf(c, id) \in DOMAIN c
          /\ c[TypeMap!entryOf(c, id)].key = id
      BY <2>3, <2>4, StopsAtNode
    <3>2. TypeMap!entryOf(c, id) \in TypeMap!nodesWith(c, id)
      BY <3>1 DEF TypeMap!nodesWith
    <3> QED
      BY <2>4, <3>2
  <2>6. ASSUME NEW k \in TypeIds \ {id}
        PROVE  /\ TypeMap!nodesWith(c, k) = TypeMap!nodesWith(chain, k)
               /\ TypeMap!nodesWith(c, k) # {} =>
                    c[TypeMap!entryOf(c, k)] = chain[TypeMap!entryOf(chain, k)]
    <3>1. TypeMap!nodesWith(c, k) = TypeMap!nodesWith(chain, k)
      BY <1>2, <2>3 DEF TypeMap!nodesWith
    <3>2. TypeMap!entryOf(c, k) = TypeMap!entryOf(chain, k)
      BY <3>1, Zenon DEF TypeMap!entryOf
    <3> QED
      BY <1>1, <2>3, <3>1, <3>2, StopsAtNode
  <2> QED
    BY <1>3, <2>1, <2>3, <2>4, <2>5, <2>6 DEF h, chain, node
<1>5. CASE TypeMap!nodesWith(chain, id) # {}
  <2> DEFINE p == TypeMap!entryOf(chain, id)
             c == [chain EXCEPT ![p] = node]
  <2>1. TypeMap!put(t, id, type) = [t EXCEPT ![h] = c]
    BY <1>5 DEF TypeMap!put
  <2>2. p \in DOMAIN chain /\ chain[p].key = id
    BY <1>1, <1>5, StopsAtNode
  <2> HIDE DEF p, h, chain, node
  <2>3. /\ c \in Seq(TypeNodes) /\ DOMAIN c = DOMAIN chain
        /\ c[p] = node /\ \A i \in DOMAIN chain \ {p} : c[i] = chain[i]
    BY <1>1, <1>2, <2>2, SMT
  <2> HIDE DEF c
  <2>4. \A k : TypeMap!nodesWith(c, k) = TypeMap!nodesWith(chain, k)
    <3>1. \A i \in DOMAIN chain : c[i].key = chain[i].key
      BY <1>2, <2>2, <2>3
    <3> QED
      BY <2>3, <3>1 DEF TypeMap!nodesWith
  <2>5. ASSUME NEW k PROVE TypeMap!entryOf(c, k) = TypeMap!entryOf(chain, k)
    <3>1. TypeMap!nodesWith(c, k) = TypeMap!nodesWith(chain, k)
      BY <2>4
    <3> QED
      BY <3>1, Zenon DEF TypeMap!entryOf
  <2>6. ASSUME NEW k \in TypeIds \ {id}, TypeMap!nodesWith(c, k) # {}
        PROVE  c[TypeMap!entryOf(c, k)] = chain[TypeMap!entryOf(chain, k)]
    <3>1. /\ TypeMap!entryOf(chain, k) \in DOMAIN chain
          /\ chain[TypeMap!entryOf(chain, k)].key = k
      BY <1>1, <2>4, <2>6, StopsAtNode
    <3>2. TypeMap!entryOf(chain, k) # p
      BY <2>2, <2>6, <3>1
    <3> QED
      BY <2>3, <2>5, <3>1, <3>2
  <2>7. c[TypeMap!entryOf(c, id)] = node /\ TypeMap!nodesWith(c, id) # {}
    BY <1>5, <2>3, <2>4, <2>5 DEF p, chain
  <2> QED
    BY <1>3, <2>1, <2>3, <2>4, <2>6, <2>7 DEF h, chain, node, p
<1> QED
  BY <1>4, <1>5

\* What one turn of the loop of begin() makes of the tables before it.
Filling(n, f) ==
  f = [i \in 0 .. n |->
         IF i = 0 THEN TypeMap!emptyTable
         ELSE TypeMap!put(f[i - 1], HovalMessageTypeId(messageFilter[i]), messageFilter[i])]

(* The loop has a table after each of its turns: the definition of filled is *)
(* sound.                                                                    *)
LEMMA FillingExists == \A n \in Nat : \E f : Filling(n, f)
<1> DEFINE T == {n \in Nat : \E f : Filling(n, f)}
<1>1. 0 \in T
  <2> DEFINE f == [i \in 0 .. 0 |-> TypeMap!emptyTable]
  <2>1. f = [i \in 0 .. 0 |->
               IF i = 0 THEN TypeMap!emptyTable
               ELSE TypeMap!put(f[i - 1], HovalMessageTypeId(messageFilter[i]), messageFilter[i])]
    <3>1. \A i \in 0 .. 0 : i = 0
      BY SMT
    <3> QED
      BY <3>1, Zenon
  <2> QED
    BY <2>1 DEF Filling
<1>2. ASSUME NEW n \in T PROVE n + 1 \in T
  <2>1. PICK f : Filling(n, f)
    OBVIOUS
  <2> DEFINE next(t) == TypeMap!put(t, HovalMessageTypeId(messageFilter[n + 1]), messageFilter[n + 1])
             g == [i \in 0 .. (n + 1) |-> IF i = n + 1 THEN next(f[n]) ELSE f[i]]
             step(i) == IF i = 0 THEN TypeMap!emptyTable
                        ELSE TypeMap!put(g[i - 1], HovalMessageTypeId(messageFilter[i]), messageFilter[i])
  <2>2. n \in Nat /\ (n + 1) - 1 = n /\ n + 1 # 0 /\ n + 1 \in 0 .. (n + 1) /\ n \in 0 .. (n + 1) /\ n # n + 1
    BY SMT
  <2>3. g[n + 1] = step(n + 1)
    <3>1. g[n + 1] = next(f[n]) /\ g[n] = f[n]
      BY <2>2, Zenon
    <3> HIDE DEF g
    <3> QED
      BY <2>2, <3>1, Zenon
  <2>4. ASSUME NEW i \in 0 .. (n + 1), i # n + 1 PROVE g[i] = step(i)
    <3>1. i \in 0 .. n /\ (i # 0 => i - 1 \in 0 .. (n + 1) /\ i - 1 # n + 1)
      BY <2>2, <2>4, SMT
    <3>2. g[i] = f[i] /\ (i # 0 => g[i - 1] = f[i - 1])
      BY <2>4, <3>1, Zenon
    <3>3. f[i] = IF i = 0 THEN TypeMap!emptyTable
                 ELSE TypeMap!put(f[i - 1], HovalMessageTypeId(messageFilter[i]), messageFilter[i])
      BY <2>1, <3>1, Zenon DEF Filling
    <3> HIDE DEF g
    <3> QED
      BY <3>2, <3>3, Zenon
  <2>5. \A i \in 0 .. (n + 1) : g[i] = step(i)
    BY <2>3, <2>4
  <2>6. g = [i \in 0 .. (n + 1) |-> g[i]]
    BY Zenon
  <2>7. Filling(n + 1, g)
    <3> HIDE DEF g
    <3> QED
      BY <2>5, <2>6, Zenon DEF Filling
  <2> QED
    BY <2>2, <2>7
<1>3. T = Nat
  <2> HIDE DEF T
  <2> QED
    BY <1>1, <1>2, Induct DEF T
<1> QED
  BY <1>3

\* What is found after n turns.
FindsFirst(n, t) ==
  \A id \in TypeIds :
    IF \E i \in 1 .. n : HovalMessageTypeId(messageFilter[i]) = id
    THEN TypeMap!get(t, id) \in Filtered /\ HovalMessageTypeId(TypeMap!get(t, id)) = id
    ELSE TypeMap!get(t, id) = nullptr

(* Each turn adds its type to what is found, and loses none.                *)
LEMMA EveryTurnFinds ==
  ASSUME NEW N \in Nat, N = Len(messageFilter), NEW f, Filling(N, f)
  PROVE  f[N] \in TypeTables /\ FindsFirst(N, f[N])
<1> DEFINE Found(n) == f[n] \in TypeTables /\ FindsFirst(n, f[n])
           T == {n \in Nat : n <= N => Found(n)}
<1>0. \A i \in 0 .. N :
        f[i] = IF i = 0 THEN TypeMap!emptyTable
               ELSE TypeMap!put(f[i - 1], HovalMessageTypeId(messageFilter[i]), messageFilter[i])
  BY Zenon DEF Filling
<1>1. 0 \in T
  <2>1. f[0] = TypeMap!emptyTable
    <3>1. 0 \in 0 .. N
      OBVIOUS
    <3> QED
      BY <1>0, <3>1, Zenon
  <2>2. TypeMap!emptyTable \in TypeTables
    BY DEF TypeMap!emptyTable, TypeTables
  <2>3. ASSUME NEW id \in TypeIds PROVE TypeMap!get(TypeMap!emptyTable, id) = nullptr
    <3>1. TypeMap!emptyTable[TypeMap!calculateHashKey(id)] = <<>>
      BY IdsAreNumbers DEF TypeMap!emptyTable
    <3> QED
      BY <3>1 DEF TypeMap!get, TypeMap!nodesWith
  <2>4. FindsFirst(0, TypeMap!emptyTable)
    <3>1. ~ \E i \in 1 .. 0 : TRUE
      BY SMT
    <3> QED
      BY <2>3, <3>1, Zenon DEF FindsFirst
  <2> QED
    BY <2>1, <2>2, <2>4
<1>2. ASSUME NEW n \in T, n + 1 <= N PROVE Found(n + 1)
  <2> DEFINE type == messageFilter[n + 1]
             id   == HovalMessageTypeId(type)
  <2>1. n \in Nat /\ n <= N /\ n + 1 \in 1 .. N /\ n + 1 \in 0 .. N /\ n + 1 # 0 /\ (n + 1) - 1 = n
        /\ 1 .. (n + 1) = (1 .. n) \cup {n + 1}
    BY <1>2, SMT
  <2>2. Found(n)
    BY <1>2, <2>1, Zenon
  <2>3. f[n + 1] = TypeMap!put(f[n], id, type)
    BY <1>0, <2>1, Zenon
  <2>4. type \in Filtered /\ id \in TypeIds
    <3>1. n + 1 \in DOMAIN messageFilter
      BY <2>1, FilterIsOfTypes
    <3>2. type \in Filtered
      BY <3>1, Zenon DEF Filtered
    <3> HIDE DEF type
    <3>3. type \in Declared
      BY <3>2 DEF Declared
    <3> QED
      BY <3>2, <3>3, Zenon DEF TypeIds
  <2>5. /\ f[n + 1] \in TypeTables
        /\ \A other \in TypeIds :
             TypeMap!get(f[n + 1], other) = IF other = id THEN type ELSE TypeMap!get(f[n], other)
    <3> HIDE DEF type, id
    <3> QED
      BY <2>2, <2>3, <2>4, FoundAfterPut
  <2>6. ASSUME NEW other \in TypeIds
        PROVE  IF \E i \in 1 .. (n + 1) : HovalMessageTypeId(messageFilter[i]) = other
               THEN /\ TypeMap!get(f[n + 1], other) \in Filtered
                    /\ HovalMessageTypeId(TypeMap!get(f[n + 1], other)) = other
               ELSE TypeMap!get(f[n + 1], other) = nullptr
    <3>1. CASE other = id
      <4>1. \E i \in 1 .. (n + 1) : HovalMessageTypeId(messageFilter[i]) = other
        BY <2>1, <3>1
      <4> QED
        BY <2>4, <2>5, <3>1, <4>1
    <3>2. CASE other # id
      <4>1. (\E i \in 1 .. (n + 1) : HovalMessageTypeId(messageFilter[i]) = other)
              <=> (\E i \in 1 .. n : HovalMessageTypeId(messageFilter[i]) = other)
        BY <2>1, <3>2, Zenon
      <4>2. TypeMap!get(f[n + 1], other) = TypeMap!get(f[n], other)
        BY <2>5, <3>2
      <4> QED
        BY <2>2, <4>1, <4>2 DEF FindsFirst
    <3> QED
      BY <3>1, <3>2
  <2> QED
    BY <2>5, <2>6 DEF FindsFirst
<1>3. T = Nat
  <2>1. \A n \in T : n + 1 \in T
    BY <1>2
  <2> HIDE DEF Found
  <2>2. T \in SUBSET Nat
    OBVIOUS
  <2> HIDE DEF T
  <2> QED
    BY <1>1, <2>1, <2>2, Induct
<1> QED
  BY <1>3

(* After begin() the table has exactly the types of the filter, and before   *)
(* nothing is looked up.                                                     *)
LEMMA FilterIsFound == FindsExactlyTheFilter
<1> DEFINE N == Len(messageFilter)
           F == CHOOSE f : Filling(N, f)
<1>1. N \in Nat /\ DOMAIN messageFilter = 1 .. N
  BY FilterIsOfTypes
<1>2. Filling(N, F)
  BY <1>1, FillingExists
<1>3. filled = F[N]
  BY DEF filled, Filling
<1> HIDE DEF F, N
<1>4. FindsFirst(N, filled)
  BY <1>1, <1>2, <1>3, EveryTurnFinds DEF N
<1>5. ASSUME NEW id \in TypeIds
      PROVE  (\E t \in Filtered : HovalMessageTypeId(t) = id)
               <=> (\E i \in 1 .. N : HovalMessageTypeId(messageFilter[i]) = id)
  BY <1>1, Zenon DEF Filtered
<1>6. \A id \in TypeIds : found[id] = TypeMap!get(filled, id)
  BY Zenon DEF found
<1> QED
  BY <1>4, <1>5, <1>6 DEF FindsExactlyTheFilter, FindsFirst, findMessageType

(* Exactly the types of the filter are found, each under its own id,         *)
(* whichever types share a chain.                                            *)
(* (HovalProtocolDecoder.cpp:27-36, :180-184; HovalMessage.h:90-97)          *)
THEOREM TypesAreFound == Spec => []FindsExactlyTheFilter
BY FilterIsFound, PTL

-------------------------------------------------------------------------------
(* The error slots.                                                          *)

(* A text shows the last message of its slot, if there was one; once any     *)
(* message has come, the sums show the bit fields.                           *)
ObjectsShowBits ==
  /\ \A s \in Slots : \/ groupObjects[s] = received[s]
                      \/ groupObjects[s] = Uninitialized /\ received[s] = ""
  /\ \/ \A o \in Objects : groupObjects[o] = Uninitialized
     \/ /\ groupObjects["active_error"] = (errorBitSet # {})
        /\ groupObjects["active_error_error"] = errorBitField
        /\ groupObjects["active_error_warning"] = warningBitField

ErrorInv == ErrorTypeOK /\ BitsAreOfLastMessages /\ ObjectsShowBits /\ EveryChangeIsSent

(* Types and values of the error objects.                                    *)
LEMMA ErrorTypes == ASSUME NEW body PROVE errorType(body) \in Types
  BY DEF errorType, mapErrorType, Types

LEMMA SilentType == [s \in Slots |-> ""] \in [Slots -> Types]
<1>1. "" \in Types
  BY DEF Types
<1> QED BY <1>1

LEMMA UninitializedAllowed == \A o : Uninitialized \in ObjectValues(o)
  BY DEF ObjectValues

-------------------------------------------------------------------------------
(* What one message does to the bits and to the group objects.               *)

LEMMA EventBits ==
  ASSUME ErrorInv, NEW s \in Slots, NEW body, NEW due, hovalEvent(s, body, due)
  PROVE  /\ BitsAreOfLastMessages'
         /\ received' \in [Slots -> Types]
         /\ received'[s] = errorType(body)
         /\ \A t \in Slots \ {s} : received'[t] = received[t]
<1> DEFINE type == errorType(body)
<1>1. type \in Types
  BY ErrorTypes
<1>2. received \in [Slots -> Types] /\ received' = [received EXCEPT ![s] = type]
  BY DEF ErrorInv, ErrorTypeOK, hovalEvent
<1>3. /\ received' \in [Slots -> Types] /\ received'[s] = type
      /\ \A t \in Slots \ {s} : received'[t] = received[t]
  BY <1>1, <1>2
<1>4. errorBitSet' = {t \in Slots : received'[t] # ""}
  BY <1>1, <1>3 DEF hovalEvent, hasError, withBit, ErrorInv, BitsAreOfLastMessages, Types
<1>5. errorBitField' = {t \in Slots : received'[t] \in {"B", "?"}}
  BY <1>1, <1>3 DEF hovalEvent, activeErrors, withBit, ErrorInv, BitsAreOfLastMessages, Types
<1>6. warningBitField' = {t \in Slots : received'[t] = "W"}
  BY <1>1, <1>3 DEF hovalEvent, activeWarnings, withBit, ErrorInv, BitsAreOfLastMessages, Types
<1> QED BY <1>3, <1>4, <1>5, <1>6 DEF BitsAreOfLastMessages

LEMMA EventObjects ==
  ASSUME ErrorInv, NEW s \in Slots, NEW body, NEW due, hovalEvent(s, body, due)
  PROVE  /\ groupObjects'["active_error"] = (errorBitSet' # {})
         /\ groupObjects'["active_error_error"] = errorBitField'
         /\ groupObjects'["active_error_warning"] = warningBitField'
         /\ groupObjects'[s] = errorType(body)
         /\ \A t \in Slots \ {s} : groupObjects'[t] = groupObjects[t]
         /\ \A o \in Objects : \/ knx'[o] = groupObjects'[o]
                               \/ /\ knx'[o] = knx[o]
                                  /\ everyChange => groupObjects'[o] = groupObjects[o]
<1> DEFINE type   == errorType(body)
           values == Transformed(s, type)
<1>1. /\ DOMAIN values = Sums \cup {s} /\ s \notin Sums
      /\ values["active_error"] = (errorBitSet' # {})
      /\ values["active_error_error"] = errorBitField'
      /\ values["active_error_warning"] = warningBitField'
      /\ values[s] = type
  BY SlotsAssumption DEF Transformed, Sums, hovalEvent
<1>2. groupObjects' = [o \in Objects |-> IF o \in DOMAIN values THEN values[o] ELSE groupObjects[o]]
  BY DEF hovalEvent
<1>3. knx' = [o \in Objects |-> IF o \in DOMAIN values /\ Sent(o, values[o], type, due)
                                THEN values[o] ELSE knx[o]]
  BY DEF hovalEvent
<1>4. \A o \in Objects : \/ knx'[o] = groupObjects'[o]
                         \/ knx'[o] = knx[o] /\ (everyChange => groupObjects'[o] = groupObjects[o])
  BY <1>2, <1>3 DEF Sent
<1>5. \A t \in Slots \ {s} : t \in Objects /\ t \notin DOMAIN values
  BY <1>1, SlotsAssumption DEF Objects
<1>6. Sums \subseteq Objects /\ s \in Objects
  BY DEF Objects
<1> QED BY <1>1, <1>2, <1>4, <1>5, <1>6 DEF Sums

LEMMA EventKeepsInv ==
  ASSUME ErrorInv, NEW s \in Slots, NEW body, NEW due, hovalEvent(s, body, due),
         faults' \in 0..MaxFaults
  PROVE  ErrorInv'
<1>1. /\ BitsAreOfLastMessages' /\ received' \in [Slots -> Types]
      /\ received'[s] = errorType(body)
      /\ \A t \in Slots \ {s} : received'[t] = received[t]
  BY EventBits
<1>2. /\ groupObjects'["active_error"] = (errorBitSet' # {})
      /\ groupObjects'["active_error_error"] = errorBitField'
      /\ groupObjects'["active_error_warning"] = warningBitField'
      /\ groupObjects'[s] = errorType(body)
      /\ \A t \in Slots \ {s} : groupObjects'[t] = groupObjects[t]
      /\ \A o \in Objects : \/ knx'[o] = groupObjects'[o]
                            \/ knx'[o] = knx[o] /\ (everyChange => groupObjects'[o] = groupObjects[o])
  BY EventObjects
<1>3. everyChange' = everyChange /\ slot' = slot /\ changes' = changes
  BY DEF hovalEvent
<1>4. errorType(body) \in Types
  BY ErrorTypes
<1>5. errorBitSet' \subseteq Slots /\ errorBitField' \subseteq Slots /\ warningBitField' \subseteq Slots
  BY <1>1 DEF BitsAreOfLastMessages
<1>6. ASSUME NEW o \in Objects PROVE groupObjects'[o] \in ObjectValues(o)
  <2>1. CASE o \in Sums
    BY <1>2, <1>5, <2>1, SlotsAssumption DEF Sums, ObjectValues
  <2>2. CASE o = s
    BY <1>2, <1>4, <2>2, SlotsAssumption DEF ObjectValues, Sums
  <2>3. CASE o \in Slots \ {s}
    BY <1>2, <2>3 DEF ErrorInv, ErrorTypeOK, Objects
  <2> QED BY <2>1, <2>2, <2>3 DEF Objects
<1>7. ASSUME NEW o \in Objects PROVE knx'[o] \in ObjectValues(o)
  BY <1>2, <1>6 DEF ErrorInv, ErrorTypeOK
<1>8. ErrorTypeOK'
  <2>1. \A o \in Objects : groupObjects'[o] \in ObjectValues(o)' /\ knx'[o] \in ObjectValues(o)'
    BY <1>6, <1>7 DEF ObjectValues
  <2> QED BY <1>1, <1>3, <1>5, <2>1 DEF ErrorInv, ErrorTypeOK
<1>9. ObjectsShowBits'
  <2>1. ASSUME NEW t \in Slots \ {s}
        PROVE  groupObjects'[t] = received'[t] \/ (groupObjects'[t] = Uninitialized /\ received'[t] = "")
    <3>1. groupObjects[t] = received[t] \/ (groupObjects[t] = Uninitialized /\ received[t] = "")
      BY DEF ErrorInv, ObjectsShowBits
    <3> QED BY <1>1, <1>2, <3>1
  <2> QED BY <1>1, <1>2, <2>1 DEF ObjectsShowBits
<1>10. EveryChangeIsSent'
  BY <1>2, <1>3 DEF ErrorInv, EveryChangeIsSent
<1> QED BY <1>1, <1>8, <1>9, <1>10 DEF ErrorInv

-------------------------------------------------------------------------------
(* The invariant of the error slots is inductive.                            *)
LEMMA ErrorInitInv == ErrorInit => ErrorInv
<1> SUFFICES ASSUME ErrorInit PROVE ErrorInv
  OBVIOUS
<1>1. ErrorTypeOK
  <2>1. \A o \in Objects : groupObjects[o] \in ObjectValues(o) /\ knx[o] \in ObjectValues(o)
    BY UninitializedAllowed DEF ErrorInit
  <2>2. received \in [Slots -> Types]
    BY SilentType DEF ErrorInit
  <2>3. changes \in 0..MaxChanges /\ faults \in 0..MaxFaults
    <3>1. changes = 0 /\ faults = 0
      BY DEF ErrorInit
    <3> QED BY <3>1, SlotsAssumption
  <2>4. slot \in [Slots -> FirstBytes] /\ everyChange \in BOOLEAN
        /\ errorBitSet \subseteq Slots /\ errorBitField \subseteq Slots /\ warningBitField \subseteq Slots
    BY DEF ErrorInit
  <2> QED BY <2>1, <2>2, <2>3, <2>4 DEF ErrorTypeOK
<1>2. BitsAreOfLastMessages /\ EveryChangeIsSent /\ ObjectsShowBits
  BY DEF ErrorInit, BitsAreOfLastMessages, EveryChangeIsSent, ObjectsShowBits, Objects
<1> QED BY <1>1, <1>2 DEF ErrorInv

LEMMA ErrorNextInv == ErrorInv /\ [ErrorNext]_errorVars => ErrorInv'
<1> SUFFICES ASSUME ErrorInv, [ErrorNext]_errorVars PROVE ErrorInv'
  OBVIOUS
<1> USE DEF ErrorInv
<1>1. ASSUME NEW s \in Slots, NEW due, SlotUpdate(s, due) PROVE ErrorInv'
  BY <1>1, EventKeepsInv DEF SlotUpdate, ErrorTypeOK
<1>2. ASSUME NEW s \in Slots, NEW due, ShortUpdate(s, due) PROVE ErrorInv'
  <2>1. faults' \in 0..MaxFaults
    BY <1>2, SlotsAssumption DEF ShortUpdate, ErrorTypeOK
  <2> QED BY <1>2, <2>1, EventKeepsInv DEF ShortUpdate
<1>3. ASSUME NEW s \in Slots, NEW b \in FirstBytes, Change(s, b) PROVE ErrorInv'
  <2>1. ErrorTypeOK'
    BY <1>3, SlotsAssumption DEF Change, ErrorTypeOK, bits, ObjectValues
  <2> QED BY <1>3, <2>1 DEF Change, bits, BitsAreOfLastMessages, EveryChangeIsSent, ObjectsShowBits
<1>4. CASE Restart
  <2>1. ErrorTypeOK'
    <3>1. \A o \in Objects : groupObjects'[o] \in ObjectValues(o)' /\ knx'[o] \in ObjectValues(o)'
      <4>1. \A o \in Objects : groupObjects'[o] = Uninitialized /\ knx'[o] = knx[o]
        BY <1>4 DEF Restart
      <4>2. \A o \in Objects : groupObjects'[o] \in ObjectValues(o) /\ knx'[o] \in ObjectValues(o)
        BY <4>1, UninitializedAllowed DEF ErrorTypeOK
      <4> QED BY <4>2 DEF ObjectValues
    <3>2. received' \in [Slots -> Types]
      BY <1>4, SilentType DEF Restart
    <3>3. faults' \in 0..MaxFaults
      <4>1. faults < MaxFaults /\ faults' = faults + 1 /\ faults \in 0..MaxFaults
        BY <1>4 DEF Restart, ErrorTypeOK
      <4> QED BY <4>1, SlotsAssumption
    <3> QED BY <1>4, <3>1, <3>2, <3>3 DEF Restart, ErrorTypeOK
  <2>2. (BitsAreOfLastMessages /\ EveryChangeIsSent /\ ObjectsShowBits)'
    BY <1>4 DEF Restart, BitsAreOfLastMessages, EveryChangeIsSent, ObjectsShowBits, Objects
  <2> QED BY <2>1, <2>2
<1>5. CASE UNCHANGED errorVars
  <2>1. ErrorTypeOK'
    BY <1>5 DEF errorVars, bits, ErrorTypeOK, ObjectValues
  <2> QED BY <1>5, <2>1 DEF errorVars, bits, BitsAreOfLastMessages, EveryChangeIsSent, ObjectsShowBits
<1> QED BY <1>1, <1>2, <1>3, <1>4, <1>5 DEF ErrorNext

(* It implies that the error objects agree.                                  *)
LEMMA ErrorInvAgrees == ErrorInv => ObjectsAgree
<1> SUFFICES ASSUME ErrorInv, ~ \A o \in Objects : groupObjects[o] = Uninitialized PROVE ObjectsAgree
  BY DEF ObjectsAgree
<1>1. /\ groupObjects["active_error"] = (errorBitSet # {})
      /\ groupObjects["active_error_error"] = errorBitField
      /\ groupObjects["active_error_warning"] = warningBitField
  BY DEF ErrorInv, ObjectsShowBits
<1>2. /\ errorBitSet = {s \in Slots : received[s] # ""}
      /\ errorBitField = {s \in Slots : received[s] \in {"B", "?"}}
      /\ warningBitField = {s \in Slots : received[s] = "W"}
      /\ \A s \in Slots : received[s] \in Types
  BY DEF ErrorInv, ErrorTypeOK, BitsAreOfLastMessages
<1>3. errorBitSet = errorBitField \cup warningBitField /\ errorBitField \cap warningBitField = {}
  BY <1>2 DEF Types
<1>4. ASSUME NEW s \in Slots
      PROVE  /\ s \in errorBitField => groupObjects[s] \in {"B", "?"}
             /\ s \in warningBitField => groupObjects[s] = "W"
             /\ s \notin errorBitField \cup warningBitField => groupObjects[s] \in {"", Uninitialized}
  <2>1. groupObjects[s] = received[s] \/ (groupObjects[s] = Uninitialized /\ received[s] = "")
    BY DEF ErrorInv, ObjectsShowBits
  <2> QED BY <1>2, <2>1 DEF Types
<1> QED BY <1>1, <1>3, <1>4 DEF ObjectsAgree

-------------------------------------------------------------------------------
LEMMA ErrorInvAlways == ErrorSpec => []ErrorInv
  BY ErrorInitInv, ErrorNextInv, PTL DEF ErrorSpec

(* Every variable keeps its type, for any number of slots.                   *)
THEOREM ErrorTypeCorrect == ErrorSpec => []ErrorTypeOK
<1>1. ErrorInv => ErrorTypeOK BY DEF ErrorInv
<1> QED BY <1>1, ErrorInvAlways, PTL

(* The bit fields are those of the last messages, whatever was received.     *)
(* (HovalMessageTransformer.h:99-147)                                        *)
THEOREM BitsAreCurrent == ErrorSpec => []BitsAreOfLastMessages
<1>1. ErrorInv => BitsAreOfLastMessages BY DEF ErrorInv
<1> QED BY <1>1, ErrorInvAlways, PTL

(* Alarm, status objects and texts never contradict each other.              *)
(* (HovalMessageTransformer.h:306-349)                                       *)
THEOREM ErrorsAgree == ErrorSpec => []ObjectsAgree
BY ErrorInvAlways, ErrorInvAgrees, PTL

(* When every change is sent, KNX always knows every group object.           *)
(* (Hoval2KNXMapper.cpp:146-163)                                             *)
THEOREM ChangesAreSent == ErrorSpec => []EveryChangeIsSent
<1>1. ErrorInv => EveryChangeIsSent BY DEF ErrorInv
<1> QED BY <1>1, ErrorInvAlways, PTL
===============================================================================
