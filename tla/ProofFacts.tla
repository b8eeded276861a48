----------------------------- MODULE ProofFacts -----------------------------
(***************************************************************************)
(* Facts about numbers and finite sets that the proofs of several modules  *)
(* rest on.                                                                *)
(***************************************************************************)
EXTENDS Integers, Sequences, FiniteSets, FiniteSetsExt, FiniteSetTheorems,
        SequenceTheorems, WellFoundedInduction, TLAPS

\* Every non-empty set of natural numbers has a least element.
LEMMA LeastNat ==
  ASSUME NEW S, S \subseteq Nat, S # {}
  PROVE  \E x \in S : \A y \in S : x <= y
<1> DEFINE R == OpToRel(<, Nat)
<1>1. \A x, y \in Nat : x < y => <<x, y>> \in R
  BY Zenon DEF OpToRel
<1>2. IsWellFoundedOn(R, Nat)
  BY NatLessThanWellFounded, Zenon
<1> HIDE DEF R
<1>3. PICK x \in S : \A y \in S : ~(<<y, x>> \in R)
  BY <1>2, WFMin, Zenon
<1>4. \A y \in S : ~(y < x)
  BY <1>1, <1>3
<1>5. \A y \in S : x <= y
  BY <1>4
<1> QED BY <1>5

\* Min returns the least element of such a set.
LEMMA MinNat ==
  ASSUME NEW S, S \subseteq Nat, S # {}
  PROVE  /\ Min(S) \in S
         /\ \A y \in S : Min(S) <= y
<1>1. \E x \in S : \A y \in S : x <= y
  BY LeastNat
<1> QED BY <1>1 DEF Min

\* A non-empty set of integers with an upper bound has a greatest element, which
\* Max returns.
LEMMA MaxBounded ==
  ASSUME NEW S, NEW b \in Int, S \subseteq Int, S # {}, \A y \in S : y <= b
  PROVE  /\ Max(S) \in S
         /\ \A y \in S : y <= Max(S)
<1> DEFINE D == {b - y : y \in S}
<1>1. D \subseteq Nat /\ D # {}
  OBVIOUS
<1>2. PICK d \in D : \A e \in D : d <= e
  BY <1>1, LeastNat, Zenon
<1>3. PICK x \in S : d = b - x
  OBVIOUS
<1>4. \A y \in S : b - y \in D
  OBVIOUS
<1>5. \A y \in S : y <= x
  BY <1>2, <1>3, <1>4
<1>6. \E z \in S : \A y \in S : z >= y
  BY <1>5
<1> QED BY <1>6 DEF Max

\* Addition modulo n is injective within n consecutive numbers ...
LEMMA ModInjective ==
  ASSUME NEW a \in Nat, NEW n \in Nat \ {0}, NEW i \in 0..(n - 1), NEW j \in 0..(n - 1),
         (a + i) % n = (a + j) % n
  PROVE  i = j
<1>1. ASSUME NEW c \in 0..(n - 1), NEW d \in 0..(n - 1), c < d,
             (a + c) % n = (a + d) % n
      PROVE  FALSE
  <2> DEFINE x == a + c  y == a + d
             q == x \div n  r == y \div n
  <2>1. x \in Nat /\ y \in Nat /\ x < y /\ y < x + n
    BY <1>1
  <2>2. /\ x = n * q + (x % n) /\ y = n * r + (y % n)
        /\ q \in Int /\ r \in Int /\ x % n \in Int /\ y % n \in Int
    BY <2>1
  <2>3. x % n = y % n
    BY <1>1
  <2> HIDE DEF x, y, q, r
  <2>4. y - x = n * r - n * q
    BY <2>1, <2>2, <2>3
  <2>5. n * r - n * q = n * (r - q)
    BY <2>2
  <2>6. PICK e \in Int : e = r - q
    BY <2>2
  <2>7. y - x = n * e
    BY <2>4, <2>5, <2>6
  <2>8. (e >= 1 => n * e >= n) /\ (e <= 0 => n * e <= 0)
    OBVIOUS
  <2> QED BY <2>1, <2>6, <2>7, <2>8
<1> QED BY <1>1

\* ... and reaches every remainder.
LEMMA ModOnto ==
  ASSUME NEW a \in Nat, NEW n \in Nat \ {0}, NEW s \in 0..(n - 1)
  PROVE  \E i \in 0..(n - 1) : (a + i) % n = s
<1> DEFINE q == a \div n  r == a % n
           i == IF r <= s THEN s - r ELSE n + s - r
<1>1. r \in 0..(n - 1) /\ a = n * q + r /\ q \in Int
  OBVIOUS
<1> HIDE DEF q, r
<1>2. i \in 0..(n - 1)
  BY <1>1
<1>3. PICK d \in Int : a + i = n * d + s
  <2>1. CASE r <= s
    BY <1>1, <2>1
  <2>2. CASE ~(r <= s)
    <3>1. a + i = n * q + n + s
      BY <1>1, <2>2
    <3>2. n * q + n = n * (q + 1)
      BY <1>1
    <3>3. q + 1 \in Int
      BY <1>1
    <3>4. a + i = n * (q + 1) + s
      BY <1>1, <3>1, <3>2
    <3> HIDE DEF i
    <3> QED BY <3>3, <3>4
  <2> QED BY <2>1, <2>2
<1>4. \A d1 \in Int : (n * d1 + s) % n = s
  OBVIOUS
<1>5. (a + i) % n = s
  BY <1>3, <1>4
<1> QED BY <1>2, <1>5

\* The filtered positions of a sequence are finitely many.
LEMMA FiniteInterval ==
  ASSUME NEW n \in Nat, NEW S, S \subseteq 1..n
  PROVE  IsFiniteSet(S) /\ Cardinality(S) \in Nat /\ Cardinality(S) <= n
<1>1. IsFiniteSet(1..n) /\ Cardinality(1..n) = n
  BY FS_Interval
<1> QED BY <1>1, FS_Subset, FS_CardinalityType
=============================================================================
