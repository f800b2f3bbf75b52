------------------------------ MODULE NumberFacts ------------------------------
(***************************************************************************)
(* Facts about numbers which several proofs need.  The library states      *)
(* induction for an operator, which the provers cannot instantiate; what   *)
(* is stated here is about sets, and an induction is the refutation of a   *)
(* least counterexample.  Quotients by a variable are beyond the provers'  *)
(* arithmetic and get lemmas of their own.                                 *)
(***************************************************************************)
EXTENDS Integers, FiniteSets, FiniteSetTheorems, TLAPS

\* Every set of natural numbers that has an element has a least one.
LEMMA LeastNumber ==
  ASSUME NEW S \in SUBSET Nat, S # {}
  PROVE  \E n \in S : \A m \in S : n <= m
<1> DEFINE R == OpToRel(<, Nat)
<1>1. IsWellFoundedOn(R, Nat)
  BY NatLessThanWellFounded
<1>2. R = {pair \in Nat \X Nat : pair[1] < pair[2]}
  BY DEF OpToRel
<1> HIDE DEF R
<1>3. PICK n \in S : \A m \in S : ~(<<m, n>> \in R)
  BY <1>1, WFMin
<1>4. ASSUME NEW m \in S PROVE n <= m
  <2>1. ~(<<m, n>> \in R) /\ m \in Nat /\ n \in Nat
    BY <1>3
  <2> QED
    BY <1>2, <2>1
<1> QED
  BY <1>4

\* A finite set has no injection into one of its elements' complement.
LEMMA NoRoomForAll ==
  ASSUME NEW S, NEW T, IsFiniteSet(T), Cardinality(T) < Cardinality(S),
         NEW f \in [S -> T], \A x, y \in S : f[x] = f[y] => x = y
  PROVE  FALSE
<1>1. f \in Injection(S, T)
  BY DEF Injection, IsInjective
<1>2. IsFiniteSet(S) /\ Cardinality(S) <= Cardinality(T)
  BY <1>1, FS_Injection
<1>3. Cardinality(S) \in Nat /\ Cardinality(T) \in Nat
  BY <1>2, FS_CardinalityType
<1> QED
  BY <1>2, <1>3

LEMMA ModFacts ==
  ASSUME NEW w \in Nat \ {0}, NEW a \in Nat
  PROVE  a % w \in 0..(w - 1) /\ a \div w \in Nat /\ a = w * (a \div w) + (a % w)
OBVIOUS

LEMMA ModUnique ==
  ASSUME NEW w \in Nat \ {0}, NEW a \in Nat, NEW q \in Int, NEW r \in 0..(w - 1), a = w * q + r
  PROVE  a % w = r
<1> DEFINE d == a \div w
<1>1. d \in Nat /\ a % w \in 0..(w - 1) /\ a = w * d + (a % w)
  BY ModFacts
<1> HIDE DEF d
<1>2. w * (d - q) = r - (a % w)
  BY <1>1
<1>3. r - (a % w) < w /\ (a % w) - r < w
  BY <1>1
<1>4. CASE d >= q + 1
  <2>1. w * (d - q) >= w
    BY <1>1, <1>4
  <2> QED
    BY <1>2, <1>3, <2>1
<1>5. CASE q >= d + 1
  <2>1. w * (d - q) <= -w
    BY <1>1, <1>5
  <2> QED
    BY <1>2, <1>3, <2>1
<1>6. CASE d = q
  BY <1>1, <1>6
<1> QED
  BY <1>1, <1>4, <1>5, <1>6

LEMMA DivUnique ==
  ASSUME NEW w \in Nat \ {0}, NEW a \in Nat, NEW q \in Int, NEW r \in 0..(w - 1), a = w * q + r
  PROVE  a % w = r /\ a \div w = q
<1>1. a % w = r
  BY ModUnique
<1> DEFINE d == a \div w
<1>2. d \in Nat /\ a = w * d + (a % w)
  BY ModFacts
<1> HIDE DEF d
<1>3. w * (d - q) = 0
  BY <1>1, <1>2
<1>4. d = q
  <2>1. CASE d >= q + 1
    <3>1. w * (d - q) >= w
      BY <1>2, <2>1
    <3> QED
      BY <1>3, <3>1
  <2>2. CASE q >= d + 1
    <3>1. w * (d - q) <= -w
      BY <1>2, <2>2
    <3> QED
      BY <1>3, <3>1
  <2> QED
    BY <1>2, <2>1, <2>2
<1> QED
  BY <1>1, <1>4 DEF d

LEMMA DivAdd ==
  ASSUME NEW w \in Nat \ {0}, NEW q \in Nat, NEW r \in Nat
  PROVE  (w * q + r) \div w = q + (r \div w) /\ (w * q + r) % w = r % w
<1> DEFINE d == r \div w
           m == r % w
<1>1. d \in Nat /\ m \in 0..(w - 1) /\ r = w * d + m
  BY ModFacts
<1> HIDE DEF d, m
<1>2. w * q + r = w * (q + d) + m /\ w * q + r \in Nat
  BY <1>1
<1>3. (w * q + r) % w = m /\ (w * q + r) \div w = q + d
  BY <1>1, <1>2, DivUnique
<1> QED
  BY <1>3 DEF d, m

\* One token more opens a block or fills the open one.
LEMMA Successor ==
  ASSUME NEW w \in Nat \ {0}, NEW a \in Nat
  PROVE  \/ /\ a % w = w - 1 /\ (a + 1) % w = 0
            /\ (a + 1) \div w = (a \div w) + 1
         \/ /\ a % w # w - 1 /\ (a + 1) % w = (a % w) + 1
            /\ (a + 1) \div w = a \div w
<1> DEFINE q == a \div w
           r == a % w
<1>1. q \in Nat /\ r \in 0..(w - 1) /\ a = w * q + r
  BY ModFacts
<1> HIDE DEF q, r
<1>2. CASE r = w - 1
  <2>1. a + 1 = w * (q + 1) + 0
    BY <1>1, <1>2
  <2>2. (a + 1) % w = 0 /\ (a + 1) \div w = q + 1
    BY <1>1, <2>1, DivUnique
  <2> QED
    BY <1>2, <2>2 DEF q, r
<1>3. CASE r # w - 1
  <2>1. a + 1 = w * q + (r + 1) /\ r + 1 \in 0..(w - 1)
    BY <1>1, <1>3
  <2>2. (a + 1) % w = r + 1 /\ (a + 1) \div w = q
    BY <1>1, <2>1, DivUnique
  <2> QED
    BY <1>3, <2>2 DEF q, r
<1> QED
  BY <1>2, <1>3

LEMMA DivMonotonic ==
  ASSUME NEW w \in Nat \ {0}, NEW a \in Nat, NEW b \in Nat, a <= b
  PROVE  a \div w <= b \div w
<1> DEFINE p == a \div w
           q == b \div w
<1>1. p \in Nat /\ q \in Nat /\ a >= w * p /\ b < w * q + w
  BY ModFacts
<1> HIDE DEF p, q
<1>2. CASE p >= q + 1
  <2>1. w * (p - q) >= w /\ w * (p - q) = w * p - w * q
    BY <1>1, <1>2
  <2>2. w * p \in Nat /\ w * q \in Nat
    BY <1>1
  <2> QED
    BY <1>1, <2>1, <2>2
<1> QED
  BY <1>1, <1>2 DEF p, q
===============================================================================
