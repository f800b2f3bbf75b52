--------------------------- MODULE PrefixCacheProofs ---------------------------
(***************************************************************************)
(* Proofs about PrefixCache and PrefixCacheHistory, for every set of       *)
(* hashes and snapshots, every capacity and every pair of ratios.          *)
(***************************************************************************)
EXTENDS PrefixCacheHistory, NumberFacts, SequenceTheorems

-------------------------------------------------------------------------------
(* Queues.                                                                   *)

Once(q) == \A i, j \in 1..Len(q) : q[i] = q[j] => i = j
Before(q, a, b) == \E i, j \in 1..Len(q) : i < j /\ q[i] = a /\ q[j] = b

LEMMA ToSetFacts ==
  ASSUME NEW D, NEW q \in Seq(D)
  PROVE  /\ ToSet(q) = {q[i] : i \in 1..Len(q)}
         /\ ToSet(q) \subseteq D
         /\ Len(q) \in Nat
BY DEF ToSet

\* A queue without repetitions is as long as the set of what it lists.
LEMMA OnceCounts ==
  ASSUME NEW D, NEW q \in Seq(D), Once(q)
  PROVE  IsFiniteSet(ToSet(q)) /\ Cardinality(ToSet(q)) = Len(q)
<1> DEFINE f == [i \in 1..Len(q) |-> q[i]]
<1>1. f \in Bijection(1..Len(q), ToSet(q))
  BY ToSetFacts DEF Once, Bijection, Injection, Surjection, IsInjective
<1>2. Len(q) \in Nat
  OBVIOUS
<1> HIDE DEF f
<1>3. ExistsBijection(1..Len(q), ToSet(q))
  BY <1>1 DEF ExistsBijection
<1>5. IsFiniteSet(1..Len(q)) /\ Cardinality(1..Len(q)) = Len(q)
  BY <1>2, FS_Interval
<1> QED
  BY <1>3, <1>5, FS_Bijection

LEMMA BeforeListed ==
  ASSUME NEW D, NEW q \in Seq(D)
  PROVE  \A a, b : Before(q, a, b) => a \in ToSet(q) /\ b \in ToSet(q)
BY ToSetFacts DEF Before

\* Two queues of the same elements in the same order are the same.
LEMMA SameOrder ==
  ASSUME NEW D, NEW q \in Seq(D), NEW r \in Seq(D), Once(q), Once(r),
         ToSet(q) = ToSet(r),
         \A a, b \in D : Before(q, a, b) => Before(r, a, b)
  PROVE  q = r
<1> DEFINE Bad == {i \in 1..Len(q) : ~(i <= Len(r) /\ q[i] = r[i])}
<1>0. /\ Len(q) \in Nat /\ Len(r) \in Nat
      /\ \A i \in 1..Len(q) : q[i] \in D
  OBVIOUS
<1>a. ASSUME NEW i \in 1..Len(q) PROVE \E k \in 1..Len(r) : q[i] = r[k]
  <2>1. q[i] \in ToSet(q)
    BY DEF ToSet
  <2> QED
    BY <2>1, ToSetFacts
<1>b. ASSUME NEW k \in 1..Len(r) PROVE \E i \in 1..Len(q) : q[i] = r[k]
  <2>1. r[k] \in ToSet(r)
    BY DEF ToSet
  <2> QED
    BY <2>1, ToSetFacts
<1> HIDE DEF Bad
<1>2. CASE Bad = {}
  <2>1. \A i \in 1..Len(q) : i <= Len(r) /\ q[i] = r[i]
    BY <1>2 DEF Bad
  <2>2. Len(q) <= Len(r)
    BY <2>1, <1>0
  <2>3. ASSUME Len(q) < Len(r) PROVE FALSE
    <3>1. Len(q) + 1 \in 1..Len(r)
      BY <1>0, <2>3
    <3>2. PICK i \in 1..Len(q) : q[i] = r[Len(q) + 1]
      BY <1>b, <3>1
    <3>3. r[i] = r[Len(q) + 1] /\ i \in 1..Len(r) /\ i # Len(q) + 1
      BY <1>0, <2>1, <2>2, <3>2
    <3> QED
      BY <3>1, <3>3 DEF Once
  <2> QED
    BY <1>0, <2>1, <2>2, <2>3, SeqEqual
<1>3. CASE Bad # {}
  <2>0. Bad \in SUBSET Nat
    BY <1>0 DEF Bad
  <2>1. PICK n \in Bad : \A m \in Bad : n <= m
    BY <1>3, <2>0, LeastNumber
  <2>1a. n \in 1..Len(q) /\ n \in Nat /\ ~(n <= Len(r) /\ q[n] = r[n])
    BY <1>0, <2>1 DEF Bad
  <2>2. \A m \in 1..(n - 1) : m \in 1..Len(r) /\ m \in 1..Len(q) /\ q[m] = r[m]
    BY <1>0, <2>1, <2>1a DEF Bad
  <2>3. PICK k \in 1..Len(r) : q[n] = r[k]
    BY <1>a, <2>1a
  <2>4. k > n
    <3>1. ASSUME k < n PROVE FALSE
      <4>1. k \in 1..(n - 1)
        BY <1>0, <2>1a, <3>1
      <4>2. q[k] = q[n] /\ k \in 1..Len(q) /\ k # n
        BY <2>2, <2>3, <3>1, <4>1
      <4> QED
        BY <2>1a, <4>2 DEF Once
    <3>2. k # n
      BY <2>1a, <2>3, <1>0
    <3> QED
      BY <3>1, <3>2, <2>1a, <1>0
  <2>5. n \in 1..Len(r)
    BY <2>1a, <2>4, <1>0
  <2>6. PICK m \in 1..Len(q) : q[m] = r[n]
    BY <1>b, <2>5
  <2>7. m > n
    <3>1. ASSUME m < n PROVE FALSE
      <4>1. m \in 1..(n - 1)
        BY <1>0, <2>1a, <3>1
      <4>2. r[m] = r[n] /\ m \in 1..Len(r) /\ m # n
        BY <2>2, <2>6, <3>1, <4>1
      <4> QED
        BY <4>2, <2>5 DEF Once
    <3>2. m # n
      BY <2>1a, <2>5, <2>6, <1>0
    <3> QED
      BY <3>1, <3>2, <2>1a, <1>0
  <2>8. Before(q, q[n], q[m])
    BY <2>1a, <2>7 DEF Before
  <2>9. PICK i, j \in 1..Len(r) : i < j /\ r[i] = q[n] /\ r[j] = q[m]
    BY <1>0, <2>1a, <2>8 DEF Before
  <2>10. i = k /\ j = n
    BY <2>3, <2>5, <2>6, <2>9 DEF Once
  <2> QED
    BY <2>4, <2>5, <2>9, <2>10, <1>0
<1> QED
  BY <1>2, <1>3

\* Picked is the loop it is written as.
Extended(r, q, places, i) == IF i \in places THEN Append(r, q[i]) ELSE r

LEMMA PickedUnfolds ==
  ASSUME NEW D, NEW q \in Seq(D), NEW places \in SUBSET (1..Len(q))
  PROVE  \E picked : /\ Picked(q, places) = picked[Len(q)]
                     /\ picked[0] = <<>>
                     /\ \A i \in 1..Len(q) :
                          picked[i] = Extended(picked[i - 1], q, places, i)
<1> DEFINE Solves(f, n) ==
             f = [i \in 0..n |-> IF i = 0 THEN <<>>
                                 ELSE Extended(f[i - 1], q, places, i)]
           Bad == {n \in Nat : ~\E f : Solves(f, n)}
<1>1. ASSUME Bad # {} PROVE FALSE
  <2>1. PICK n \in Bad : \A m \in Bad : n <= m
    BY <1>1, LeastNumber
  <2>a. n \in Nat
    BY <2>1
  <2>2. n # 0
    <3> DEFINE f == [i \in 0..0 |-> <<>>]
    <3>1. Solves(f, 0)
      OBVIOUS
    <3> HIDE DEF f, Solves
    <3> QED
      BY <3>1
  <2>3. PICK f : Solves(f, n - 1)
    <3> HIDE DEF Solves
    <3> QED
      BY <2>1, <2>2
  <2> DEFINE g == [i \in 0..n |-> IF i = n THEN Extended(f[n - 1], q, places, n)
                                  ELSE f[i]]
  <2>4. Solves(g, n)
    BY <2>a, <2>2, <2>3
  <2> HIDE DEF Solves, g
  <2> QED
    BY <2>4
<1>2. Len(q) \in Nat
  OBVIOUS
<1>3. \E f : Solves(f, Len(q))
  <2> HIDE DEF Solves
  <2> QED
    BY <1>1, <1>2
<1> DEFINE picked == CHOOSE f : Solves(f, Len(q))
<1>4. Solves(picked, Len(q))
  BY <1>3
<1>5. Picked(q, places) = picked[Len(q)]
  BY DEF Picked, Extended
<1> HIDE DEF picked
<1>6. picked[0] = <<>>
  BY <1>2, <1>4
<1>7. ASSUME NEW i \in 1..Len(q)
      PROVE  picked[i] = Extended(picked[i - 1], q, places, i)
  BY <1>2, <1>4
<1> QED
  BY <1>5, <1>6, <1>7

\* r is the part of q at places: pos takes each place of r to its place in q.
PartOf(r, q, places, pos) ==
  /\ pos \in [1..Len(r) -> places]
  /\ \A i, j \in 1..Len(r) : i < j => pos[i] < pos[j]
  /\ \A p \in places : \E i \in 1..Len(r) : pos[i] = p
  /\ \A i \in 1..Len(r) : r[i] = q[pos[i]]

LEMMA PickedPlaces ==
  ASSUME NEW D, NEW q \in Seq(D), NEW places \in SUBSET (1..Len(q))
  PROVE  /\ Picked(q, places) \in Seq(D)
         /\ \E pos : PartOf(Picked(q, places), q, places, pos)
<1>1. PICK picked : /\ Picked(q, places) = picked[Len(q)]
                    /\ picked[0] = <<>>
                    /\ \A i \in 1..Len(q) :
                          picked[i] = Extended(picked[i - 1], q, places, i)
  BY PickedUnfolds
<1> DEFINE Upto(n) == places \cap (1..n)
           Good(n) == /\ picked[n] \in Seq(D)
                      /\ \E pos : PartOf(picked[n], q, Upto(n), pos)
           Bad == {n \in 0..Len(q) : ~Good(n)}
<1>2. Len(q) \in Nat
  OBVIOUS
<1>3. Good(0)
  <2>1. PartOf(<<>>, q, Upto(0), <<>>)
    BY DEF PartOf
  <2> QED
    BY <1>1, <2>1
<1>4. ASSUME NEW n \in 1..Len(q), Good(n - 1) PROVE Good(n)
  <2>1. PICK pos : PartOf(picked[n - 1], q, Upto(n - 1), pos)
    BY <1>4
  <2> DEFINE r == picked[n - 1]
             l == Len(r)
  <2>2. r \in Seq(D) /\ l \in Nat /\ q[n] \in D
    BY <1>4
  <2>b. picked[n] = Extended(r, q, places, n)
    BY <1>1
  <2>3. CASE n \notin places
    <3>1. picked[n] = r /\ Upto(n) = Upto(n - 1)
      BY <1>2, <2>b, <2>3 DEF Extended
    <3> QED
      BY <1>4, <3>1
  <2>4. CASE n \in places
    <3> DEFINE s == Append(r, q[n])
               ext == [i \in 1..(l + 1) |-> IF i = l + 1 THEN n ELSE pos[i]]
    <3>0. picked[n] = s
      BY <2>b, <2>4 DEF Extended
    <3> HIDE DEF r
    <3>1. s \in Seq(D) /\ Len(s) = l + 1 /\ s[l + 1] = q[n]
          /\ \A i \in 1..l : s[i] = r[i]
      BY <2>2, AppendProperties
    <3>2. Upto(n) = Upto(n - 1) \cup {n} /\ n \notin Upto(n - 1)
      BY <1>2, <2>4
    <3>a. PartOf(r, q, Upto(n - 1), pos)
      BY <2>1 DEF r
    <3>3. \A i \in 1..l : pos[i] \in Upto(n - 1) /\ ext[i] = pos[i]
      BY <2>2, <3>a DEF PartOf
    <3>c. ASSUME NEW i \in 1..(l + 1) PROVE ext[i] \in Upto(n)
      <4>1. CASE i = l + 1
        BY <2>2, <3>2, <4>1
      <4>2. CASE i \in 1..l
        BY <3>2, <3>3, <4>2
      <4> QED
        BY <2>2, <4>1, <4>2
    <3>4. ext[l + 1] = n /\ ext \in [1..(l + 1) -> Upto(n)]
      BY <2>2, <3>c
    <3> HIDE DEF ext, s
    <3>5. \A i, j \in 1..(l + 1) : i < j => ext[i] < ext[j]
      <4> SUFFICES ASSUME NEW i \in 1..(l + 1), NEW j \in 1..(l + 1), i < j
                   PROVE  ext[i] < ext[j]
        OBVIOUS
      <4>1. i \in 1..l
        BY <2>2
      <4>2. CASE j = l + 1
        BY <3>3, <3>4, <4>1, <4>2
      <4>3. CASE j \in 1..l
        BY <3>a, <3>3, <4>1, <4>3 DEF PartOf
      <4> QED
        BY <2>2, <4>2, <4>3
    <3>6. \A p \in Upto(n) : \E i \in 1..(l + 1) : ext[i] = p
      <4> SUFFICES ASSUME NEW p \in Upto(n) PROVE \E i \in 1..(l + 1) : ext[i] = p
        OBVIOUS
      <4>1. CASE p = n
        BY <2>2, <3>4, <4>1
      <4>2. CASE p # n
        <5>1. PICK i \in 1..l : pos[i] = p
          BY <3>a, <3>2, <4>2 DEF PartOf
        <5> QED
          BY <2>2, <3>3, <5>1
      <4> QED
        BY <4>1, <4>2
    <3>7. \A i \in 1..(l + 1) : s[i] = q[ext[i]]
      BY <3>a, <2>2, <3>1, <3>3, <3>4 DEF PartOf
    <3>8. PartOf(s, q, Upto(n), ext)
      BY <3>1, <3>4, <3>5, <3>6, <3>7 DEF PartOf
    <3> QED
      BY <3>0, <3>1, <3>8
  <2> QED
    BY <2>3, <2>4
<1>5. ASSUME Bad # {} PROVE FALSE
  <2> HIDE DEF Good
  <2>a. Bad \in SUBSET Nat
    BY <1>2
  <2>1. PICK n \in Bad : \A m \in Bad : n <= m
    BY <1>5, <2>a, LeastNumber
  <2>2. n # 0
    BY <1>3, <2>1
  <2> QED
    BY <1>2, <1>4, <2>1, <2>2
<1>6. Good(Len(q))
  <2> HIDE DEF Good
  <2> QED
    BY <1>2, <1>5
<1>7. Upto(Len(q)) = places
  OBVIOUS
<1> QED
  BY <1>1, <1>6, <1>7

\* What a part of a queue lists, and in which order.
LEMMA PartFacts ==
  ASSUME NEW D, NEW q \in Seq(D), NEW places \in SUBSET (1..Len(q))
  PROVE  /\ Picked(q, places) \in Seq(D)
         /\ ToSet(Picked(q, places)) = {q[i] : i \in places}
         /\ Once(q) => Once(Picked(q, places))
         /\ \A a, b : Before(Picked(q, places), a, b) <=>
                        \E i, j \in places : i < j /\ q[i] = a /\ q[j] = b
<1> DEFINE r == Picked(q, places)
<1>1. r \in Seq(D)
  BY PickedPlaces
<1>2. PICK pos : PartOf(r, q, places, pos)
  BY PickedPlaces
<1> HIDE DEF r
<1>3. /\ \A i \in 1..Len(r) : pos[i] \in places /\ r[i] = q[pos[i]]
      /\ \A i, j \in 1..Len(r) : i < j => pos[i] < pos[j]
      /\ \A p \in places : \E i \in 1..Len(r) : pos[i] = p
      /\ Len(r) \in Nat
      /\ places \subseteq Nat
  BY <1>1, <1>2 DEF PartOf
<1>4. ToSet(r) = {q[i] : i \in places}
  <2>1. ToSet(r) = {r[i] : i \in 1..Len(r)}
    BY <1>1 DEF ToSet
  <2>2. ASSUME NEW i \in 1..Len(r) PROVE r[i] \in {q[k] : k \in places}
    BY <1>3
  <2>3. ASSUME NEW p \in places PROVE q[p] \in {r[k] : k \in 1..Len(r)}
    <3>1. PICK i \in 1..Len(r) : pos[i] = p
      BY <1>3
    <3> QED
      BY <1>3, <3>1
  <2> QED
    BY <2>1, <2>2, <2>3
<1>5. ASSUME Once(q), NEW i \in 1..Len(r), NEW j \in 1..Len(r), r[i] = r[j]
      PROVE  i = j
  <2>1. pos[i] \in 1..Len(q) /\ pos[j] \in 1..Len(q) /\ q[pos[i]] = q[pos[j]]
    BY <1>3, <1>5
  <2>2. pos[i] = pos[j] /\ pos[i] \in Nat
    BY <1>5, <2>1 DEF Once
  <2>3. ~(i < j) /\ ~(j < i)
    BY <1>3, <2>2
  <2> QED
    BY <1>3, <2>3
<1>6. ASSUME NEW a, NEW b, NEW i \in 1..Len(r), NEW j \in 1..Len(r), i < j, r[i] = a, r[j] = b
      PROVE  \E k, l \in places : k < l /\ q[k] = a /\ q[l] = b
  BY <1>3, <1>6
<1>7. ASSUME NEW a, NEW b, NEW k \in places, NEW l \in places, k < l, q[k] = a, q[l] = b
      PROVE  \E i, j \in 1..Len(r) : i < j /\ r[i] = a /\ r[j] = b
  <2>1. PICK i \in 1..Len(r) : pos[i] = k
    BY <1>3
  <2>2. PICK j \in 1..Len(r) : pos[j] = l
    BY <1>3
  <2>3. i < j
    <3>1. ~(j < i) /\ i # j
      BY <1>3, <1>7, <2>1, <2>2
    <3> QED
      BY <1>3, <3>1
  <2> QED
    BY <1>3, <1>7, <2>1, <2>2, <2>3
<1> QED
  BY <1>1, <1>4, <1>5, <1>6, <1>7 DEF Once, Before, r

LEMMA OnlyInFacts ==
  ASSUME NEW D, NEW q \in Seq(D), NEW S
  PROVE  /\ OnlyIn(q, S) \in Seq(D)
         /\ ToSet(OnlyIn(q, S)) = ToSet(q) \cap S
         /\ Once(q) => Once(OnlyIn(q, S))
         /\ \A a, b : Before(OnlyIn(q, S), a, b) <=> a \in S /\ b \in S /\ Before(q, a, b)
<1> DEFINE places == {i \in 1..Len(q) : q[i] \in S}
<1>1. /\ OnlyIn(q, S) \in Seq(D)
      /\ ToSet(OnlyIn(q, S)) = {q[i] : i \in places}
      /\ Once(q) => Once(OnlyIn(q, S))
      /\ \A a, b : Before(OnlyIn(q, S), a, b) <=>
                     \E i, j \in places : i < j /\ q[i] = a /\ q[j] = b
  BY PartFacts DEF OnlyIn
<1>2. {q[i] : i \in places} = ToSet(q) \cap S
  BY ToSetFacts
<1>3. ASSUME NEW a, NEW b
      PROVE  (\E i, j \in places : i < j /\ q[i] = a /\ q[j] = b)
               <=> a \in S /\ b \in S /\ Before(q, a, b)
  BY DEF Before
<1> QED
  BY <1>1, <1>2, <1>3

\* A queue of the elements of S, each once, is clean.
LEMMA CleanedIsSame ==
  ASSUME NEW D, NEW q \in Seq(D), NEW S, Once(q), ToSet(q) \subseteq S
  PROVE  Cleaned(q, S) = q
<1> DEFINE places == {i \in 1..Len(q) : q[i] \in S /\ \A j \in 1..(i - 1) : q[j] # q[i]}
<1>1. places = 1..Len(q)
  <2> SUFFICES ASSUME NEW i \in 1..Len(q)
               PROVE  q[i] \in S /\ \A j \in 1..(i - 1) : q[j] # q[i]
    OBVIOUS
  <2>1. q[i] \in S
    BY ToSetFacts
  <2>2. ASSUME NEW j \in 1..(i - 1) PROVE q[j] # q[i]
    <3>1. j \in 1..Len(q) /\ j # i
      OBVIOUS
    <3> QED
      BY <3>1 DEF Once
  <2> QED
    BY <2>1, <2>2
<1>2. Cleaned(q, S) = Picked(q, 1..Len(q))
  BY <1>1 DEF Cleaned
<1> DEFINE r == Picked(q, 1..Len(q))
<1>3. /\ r \in Seq(D)
      /\ ToSet(r) = {q[i] : i \in 1..Len(q)}
      /\ Once(r)
      /\ \A a, b : Before(r, a, b) <=> \E i, j \in 1..Len(q) : i < j /\ q[i] = a /\ q[j] = b
  BY PartFacts
<1> HIDE DEF r
<1>4. ToSet(r) = ToSet(q)
  BY <1>3, ToSetFacts
<1>5. \A a, b \in D : Before(r, a, b) => Before(q, a, b)
  BY <1>3 DEF Before
<1> QED
  BY <1>2, <1>3, <1>4, <1>5, SameOrder DEF r

LEMMA AppendFacts ==
  ASSUME NEW D, NEW q \in Seq(D), NEW h \in D
  PROVE  /\ Append(q, h) \in Seq(D)
         /\ ToSet(Append(q, h)) = ToSet(q) \cup {h}
         /\ Once(q) /\ h \notin ToSet(q) => Once(Append(q, h))
         /\ \A a, b : Before(Append(q, h), a, b) <=>
                        Before(q, a, b) \/ (a \in ToSet(q) /\ b = h)
<1> DEFINE r == Append(q, h)
           l == Len(q)
<1>1. /\ r \in Seq(D) /\ Len(r) = l + 1 /\ r[l + 1] = h /\ l \in Nat
      /\ \A i \in 1..l : r[i] = q[i]
  BY AppendProperties
<1>2. ToSet(r) = {r[i] : i \in 1..(l + 1)} /\ ToSet(q) = {q[i] : i \in 1..l}
  <2>1. ToSet(r) = {r[i] : i \in 1..Len(r)} /\ ToSet(q) = {q[i] : i \in 1..Len(q)}
    BY <1>1, ToSetFacts
  <2> QED
    BY <1>1, <2>1
<1> HIDE DEF r
<1>3. ToSet(r) = ToSet(q) \cup {h}
  <2>1. 1..(l + 1) = (1..l) \cup {l + 1}
    BY <1>1
  <2> QED
    BY <1>1, <1>2, <2>1
<1>4. ASSUME Once(q), h \notin ToSet(q) PROVE Once(r)
  <2> SUFFICES ASSUME NEW i \in 1..(l + 1), NEW j \in 1..(l + 1), r[i] = r[j] PROVE i = j
    BY <1>1 DEF Once
  <2>1. CASE i \in 1..l /\ j \in 1..l
    BY <1>1, <1>4, <2>1 DEF Once
  <2>2. CASE i = l + 1 /\ j \in 1..l
    BY <1>1, <1>2, <1>4, <2>2
  <2>3. CASE j = l + 1 /\ i \in 1..l
    BY <1>1, <1>2, <1>4, <2>3
  <2> QED
    BY <1>1, <2>1, <2>2, <2>3
<1>5. ASSUME NEW a, NEW b, Before(r, a, b)
      PROVE  Before(q, a, b) \/ (a \in ToSet(q) /\ b = h)
  <2>1. PICK i, j \in 1..(l + 1) : i < j /\ r[i] = a /\ r[j] = b
    BY <1>1, <1>5 DEF Before
  <2>2. i \in 1..l /\ r[i] = q[i]
    BY <1>1, <2>1
  <2>3. CASE j = l + 1
    BY <1>1, <1>2, <2>1, <2>2, <2>3
  <2>4. CASE j \in 1..l
    BY <1>1, <2>1, <2>2, <2>4 DEF Before
  <2> QED
    BY <1>1, <2>3, <2>4
<1>6. ASSUME NEW a, NEW b, Before(q, a, b) \/ (a \in ToSet(q) /\ b = h)
      PROVE  Before(r, a, b)
  <2>1. CASE Before(q, a, b)
    <3>1. PICK i, j \in 1..l : i < j /\ q[i] = a /\ q[j] = b
      BY <2>1 DEF Before
    <3>2. i \in 1..Len(r) /\ j \in 1..Len(r) /\ r[i] = a /\ r[j] = b
      BY <1>1, <3>1
    <3> QED
      BY <3>1, <3>2 DEF Before
  <2>2. CASE a \in ToSet(q) /\ b = h
    <3>1. PICK i \in 1..l : q[i] = a
      BY <1>2, <2>2
    <3>2. i \in 1..Len(r) /\ l + 1 \in 1..Len(r) /\ i < l + 1 /\ r[i] = a /\ r[l + 1] = b
      BY <1>1, <2>2, <3>1
    <3> QED
      BY <3>2 DEF Before
  <2> QED
    BY <1>6, <2>1, <2>2
<1> QED
  BY <1>1, <1>3, <1>4, <1>5, <1>6 DEF r

-------------------------------------------------------------------------------
(* One tier.                                                                 *)

\* The queues of a tier list its snapshots, each once and in the queue of its class.
TierOK(tier, marks) ==
  /\ tier \in Tiers
  /\ Once(tier.lru) /\ Once(tier.plru)
  /\ ToSet(tier.lru) = Stored(tier) \ marks
  /\ ToSet(tier.plru) = Stored(tier) \cap marks

LEMMA TierType ==
  ASSUME NEW tier \in Tiers
  PROVE  /\ tier.lru \in Seq(Hashes) /\ tier.plru \in Seq(Hashes)
         /\ Stored(tier) \subseteq Hashes
         /\ tier.snaps \in [Stored(tier) -> Snapshots]
         /\ tier = [snaps |-> tier.snaps, lru |-> tier.lru, plru |-> tier.plru]
<1>1. tier.lru \in Seq(Hashes) /\ tier.plru \in Seq(Hashes)
      /\ tier.snaps \in UNION {[S -> Snapshots] : S \in SUBSET Hashes}
      /\ tier = [snaps |-> tier.snaps, lru |-> tier.lru, plru |-> tier.plru]
  BY DEF Tiers
<1>2. PICK S \in SUBSET Hashes : tier.snaps \in [S -> Snapshots]
  BY <1>1
<1>3. Stored(tier) = S
  BY <1>2 DEF Stored
<1> QED
  BY <1>1, <1>2, <1>3

LEMMA IsTier ==
  ASSUME NEW S \in SUBSET Hashes, NEW f \in [S -> Snapshots],
         NEW q \in Seq(Hashes), NEW r \in Seq(Hashes)
  PROVE  /\ [snaps |-> f, lru |-> q, plru |-> r] \in Tiers
         /\ Stored([snaps |-> f, lru |-> q, plru |-> r]) = S
<1>1. f \in UNION {[X -> Snapshots] : X \in SUBSET Hashes}
  OBVIOUS
<1> QED
  BY <1>1 DEF Tiers, Stored

LEMMA EmptyTierOK ==
  ASSUME NEW marks
  PROVE  TierOK(EmptyTier, marks) /\ Stored(EmptyTier) = {} /\ Size(EmptyTier) = 0
<1>1. Stored(EmptyTier) = {}
  BY DEF Stored, EmptyTier
<1>2. <<>> \in [{} -> Snapshots] /\ <<>> \in Seq(Hashes)
  OBVIOUS
<1>3. EmptyTier \in Tiers
  BY <1>2, IsTier DEF EmptyTier
<1>4. ToSet(<<>>) = {} /\ Once(<<>>)
  BY DEF ToSet, Once
<1> QED
  BY <1>1, <1>3, <1>4, FS_EmptySet DEF TierOK, EmptyTier, Size

LEMMA QueueFacts ==
  ASSUME NEW tier, NEW marks, TierOK(tier, marks)
  PROVE  /\ Queue(tier) \in Seq(Hashes) /\ Once(Queue(tier))
         /\ ToSet(Queue(tier)) = Stored(tier)
         /\ Len(Queue(tier)) = Size(tier)
         /\ Len(tier.lru) \in Nat /\ Len(tier.plru) \in Nat
         /\ Size(tier) = Len(tier.lru) + Len(tier.plru)
         /\ \A i \in 1..Len(tier.lru) : Queue(tier)[i] = tier.lru[i]
         /\ \A i \in (Len(tier.lru) + 1)..Size(tier) :
              Queue(tier)[i] = tier.plru[i - Len(tier.lru)]
         /\ IsFiniteSet(Stored(tier)) /\ Size(tier) \in Nat
<1> DEFINE q == tier.lru
           r == tier.plru
           a == Queue(tier)
           l == Len(q)
           m == Len(r)
<1>1. q \in Seq(Hashes) /\ r \in Seq(Hashes) /\ Once(q) /\ Once(r)
      /\ ToSet(q) = Stored(tier) \ marks /\ ToSet(r) = Stored(tier) \cap marks
  BY TierType DEF TierOK
<1>2. a = q \o r
  BY DEF Queue
<1> HIDE DEF q, r, a
<1>3. /\ a \in Seq(Hashes) /\ Len(a) = l + m /\ l \in Nat /\ m \in Nat
      /\ \A i \in 1..l : a[i] = q[i]
      /\ \A i \in (l + 1)..(l + m) : a[i] = r[i - l]
  BY <1>1, <1>2, ConcatProperties
<1>4. /\ ToSet(a) = {a[i] : i \in 1..(l + m)}
      /\ ToSet(q) = {q[i] : i \in 1..l}
      /\ ToSet(r) = {r[i] : i \in 1..m}
  BY <1>1, <1>3, ToSetFacts
<1>5. ToSet(a) = Stored(tier)
  <2>1. ToSet(a) \subseteq Stored(tier)
    <3> SUFFICES ASSUME NEW i \in 1..(l + m) PROVE a[i] \in Stored(tier)
      BY <1>4
    <3>1. CASE i \in 1..l
      BY <1>1, <1>3, <1>4, <3>1
    <3>2. CASE i \in (l + 1)..(l + m)
      <4>1. i - l \in 1..m /\ a[i] = r[i - l]
        BY <1>3, <3>2
      <4> QED
        BY <1>1, <1>4, <4>1
    <3> QED
      BY <1>3, <3>1, <3>2
  <2>2. ASSUME NEW h \in Stored(tier) PROVE h \in ToSet(a)
    <3>1. CASE h \in marks
      <4>1. PICK i \in 1..m : r[i] = h
        BY <1>1, <1>4, <2>2, <3>1
      <4>2. i + l \in 1..(l + m) /\ i + l \in (l + 1)..(l + m) /\ (i + l) - l = i
        BY <1>3
      <4>3. a[i + l] = h
        BY <1>3, <4>1, <4>2
      <4> QED
        BY <1>4, <4>2, <4>3
    <3>2. CASE h \notin marks
      <4>1. PICK i \in 1..l : q[i] = h
        BY <1>1, <1>4, <2>2, <3>2
      <4>2. i \in 1..(l + m) /\ a[i] = h
        BY <1>3, <4>1
      <4> QED
        BY <1>4, <4>2
    <3> QED
      BY <3>1, <3>2
  <2> QED
    BY <2>1, <2>2
<1>6. Once(a)
  <2> SUFFICES ASSUME NEW i \in 1..(l + m), NEW j \in 1..(l + m), a[i] = a[j] PROVE i = j
    BY <1>3 DEF Once
  <2>0. /\ \A k \in 1..l : a[k] \notin marks
        /\ \A k \in (l + 1)..(l + m) : a[k] \in marks /\ k - l \in 1..m
    <3>1. ASSUME NEW k \in 1..l PROVE a[k] \notin marks
      BY <1>1, <1>3, <1>4
    <3>2. ASSUME NEW k \in (l + 1)..(l + m) PROVE a[k] \in marks /\ k - l \in 1..m
      <4>1. k - l \in 1..m /\ a[k] = r[k - l]
        BY <1>3
      <4> QED
        BY <1>1, <1>4, <4>1
    <3> QED
      BY <3>1, <3>2
  <2>1. CASE i \in 1..l /\ j \in 1..l
    BY <1>1, <1>3, <2>1 DEF Once
  <2>2. CASE i \in (l + 1)..(l + m) /\ j \in (l + 1)..(l + m)
    <3>1. r[i - l] = r[j - l] /\ i - l \in 1..m /\ j - l \in 1..m
      BY <1>3, <2>0, <2>2
    <3>2. i - l = j - l
      BY <1>1, <3>1 DEF Once
    <3> QED
      BY <1>3, <3>2
  <2>3. CASE i \in 1..l /\ j \in (l + 1)..(l + m)
    BY <2>0, <2>3
  <2>4. CASE j \in 1..l /\ i \in (l + 1)..(l + m)
    BY <2>0, <2>4
  <2> QED
    BY <1>3, <2>1, <2>2, <2>3, <2>4
<1>7. IsFiniteSet(Stored(tier)) /\ Size(tier) = Len(a)
  BY <1>3, <1>5, <1>6, OnceCounts DEF Size
<1>8. Size(tier) = l + m /\ Size(tier) \in Nat
  BY <1>3, <1>7
<1> QED
  BY <1>1, <1>3, <1>5, <1>6, <1>7, <1>8 DEF a, q, r

\* Queues in order need no normalizing.
LEMMA NormalizedIsSame ==
  ASSUME NEW tier, NEW marks, TierOK(tier, marks)
  PROVE  Normalized(tier, marks) = tier
<1>1. /\ tier.lru \in Seq(Hashes) /\ tier.plru \in Seq(Hashes)
      /\ tier = [snaps |-> tier.snaps, lru |-> tier.lru, plru |-> tier.plru]
  BY TierType DEF TierOK
<1>2. Cleaned(tier.lru, Stored(tier) \ marks) = tier.lru
  BY <1>1, CleanedIsSame DEF TierOK
<1>3. Cleaned(tier.plru, Stored(tier) \cap marks) = tier.plru
  BY <1>1, CleanedIsSame DEF TierOK
<1> DEFINE late == Stored(tier) \ (ToSet(tier.lru) \cup ToSet(tier.plru))
<1>4. late = {}
  BY DEF TierOK
<1>5. SetToSeq({}) = <<>>
  BY DEF SetToSeq, IsInjective
<1>6. tier.lru \o <<>> = tier.lru /\ tier.plru \o <<>> = tier.plru
  BY <1>1
<1>7. late \ marks = {} /\ late \cap marks = {}
  BY <1>4
<1> HIDE DEF late
<1>8. Normalized(tier, marks) = [tier EXCEPT !.lru  = tier.lru \o SetToSeq(late \ marks),
                                             !.plru = tier.plru \o SetToSeq(late \cap marks)]
  BY <1>2, <1>3 DEF Normalized, late
<1>9. Normalized(tier, marks) = [tier EXCEPT !.lru  = tier.lru, !.plru = tier.plru]
  BY <1>5, <1>6, <1>7, <1>8
<1> QED
  BY <1>1, <1>9

LEMMA WithoutFacts ==
  ASSUME NEW tier, NEW marks, TierOK(tier, marks), NEW gone, NEW marks2,
         marks2 \cap (Stored(tier) \ gone) = marks \cap (Stored(tier) \ gone)
  PROVE  /\ TierOK(Without(tier, gone), marks2)
         /\ Stored(Without(tier, gone)) = Stored(tier) \ gone
         /\ \A g \in Stored(tier) \ gone : Without(tier, gone).snaps[g] = tier.snaps[g]
<1> DEFINE S == Stored(tier) \ gone
           f == Restrict(tier.snaps, S)
           q == OnlyIn(tier.lru, Hashes \ gone)
           r == OnlyIn(tier.plru, Hashes \ gone)
<1>1. /\ tier.lru \in Seq(Hashes) /\ tier.plru \in Seq(Hashes)
      /\ Stored(tier) \subseteq Hashes /\ tier.snaps \in [Stored(tier) -> Snapshots]
  BY TierType DEF TierOK
<1>2. f \in [S -> Snapshots] /\ S \subseteq Hashes /\ \A g \in S : f[g] = tier.snaps[g]
  BY <1>1 DEF Restrict
<1>3. /\ q \in Seq(Hashes) /\ ToSet(q) = ToSet(tier.lru) \cap (Hashes \ gone) /\ Once(q)
      /\ r \in Seq(Hashes) /\ ToSet(r) = ToSet(tier.plru) \cap (Hashes \ gone) /\ Once(r)
  BY <1>1, OnlyInFacts DEF TierOK
<1>4. Without(tier, gone) = [snaps |-> f, lru |-> q, plru |-> r]
  BY DEF Without
<1> HIDE DEF f, q, r
<1>5. Without(tier, gone) \in Tiers /\ Stored(Without(tier, gone)) = S
  BY <1>2, <1>3, <1>4, IsTier
<1>6. ToSet(q) = S \ marks2 /\ ToSet(r) = S \cap marks2
  BY <1>1, <1>3 DEF TierOK
<1> QED
  BY <1>2, <1>3, <1>4, <1>5, <1>6 DEF TierOK

PutTier(tier, h, snap, keep) ==
  [snaps |-> [g \in Stored(tier) \cup {h} |-> IF g = h THEN snap ELSE tier.snaps[g]],
   lru   |-> IF keep THEN OnlyIn(tier.lru, Hashes \ {h})
             ELSE Append(OnlyIn(tier.lru, Hashes \ {h}), h),
   plru  |-> IF keep THEN Append(OnlyIn(tier.plru, Hashes \ {h}), h)
             ELSE OnlyIn(tier.plru, Hashes \ {h})]

LEMMA PutShape ==
  ASSUME NEW tier \in Tiers, NEW h, NEW snap, NEW keep \in BOOLEAN
  PROVE  Touched(With(tier, h, snap), h, keep) = PutTier(tier, h, snap, keep)
<1> DEFINE t == Touched(With(tier, h, snap), h, keep)
           S == Stored(tier) \cup {h}
           f == [g \in S |-> IF g = h THEN snap ELSE tier.snaps[g]]
           q == OnlyIn(tier.lru, Hashes \ {h})
           r == OnlyIn(tier.plru, Hashes \ {h})
           q2 == IF keep THEN q ELSE Append(q, h)
           r2 == IF keep THEN Append(r, h) ELSE r
<1>1. tier = [snaps |-> tier.snaps, lru |-> tier.lru, plru |-> tier.plru]
  BY TierType
<1> DEFINE w == With(tier, h, snap)
<1>a. w = [tier EXCEPT !.snaps = f]
  BY DEF With
<1> HIDE DEF f, w
<1>4. w = [snaps |-> f, lru |-> tier.lru, plru |-> tier.plru]
  <2>1. PICK a, b, c : tier = [snaps |-> a, lru |-> b, plru |-> c]
    BY <1>1
  <2> QED
    BY <1>a, <2>1
<1>b. q = OnlyIn(w.lru, Hashes \ {h}) /\ r = OnlyIn(w.plru, Hashes \ {h})
  BY <1>4
<1>c. t = [w EXCEPT !.lru = IF keep THEN OnlyIn(w.lru, Hashes \ {h})
                            ELSE Append(OnlyIn(w.lru, Hashes \ {h}), h),
                    !.plru = IF keep THEN Append(OnlyIn(w.plru, Hashes \ {h}), h)
                             ELSE OnlyIn(w.plru, Hashes \ {h})]
  BY DEF Touched, w
<1> HIDE DEF q, r, t
<1>d. t = [w EXCEPT !.lru = q2, !.plru = r2]
  BY <1>b, <1>c
<1> HIDE DEF q2, r2
<1>5. t = [snaps |-> f, lru |-> q2, plru |-> r2]
  BY <1>4, <1>d
<1> QED
  BY <1>5 DEF t, S, f, q, r, q2, r2, PutTier

LEMMA PutFacts ==
  ASSUME NEW tier, NEW marks, TierOK(tier, marks), NEW h \in Hashes, NEW snap \in Snapshots,
         NEW keep \in BOOLEAN, NEW marks2, keep <=> h \in marks2,
         marks2 \cap (Stored(tier) \ {h}) = marks \cap (Stored(tier) \ {h})
  PROVE  LET t == Touched(With(tier, h, snap), h, keep)
         IN /\ TierOK(t, marks2)
            /\ Stored(t) = Stored(tier) \cup {h}
            /\ t.snaps[h] = snap
            /\ \A g \in Stored(tier) \ {h} : t.snaps[g] = tier.snaps[g]
<1> DEFINE t == Touched(With(tier, h, snap), h, keep)
           S == Stored(tier) \cup {h}
           f == [g \in S |-> IF g = h THEN snap ELSE tier.snaps[g]]
           q == OnlyIn(tier.lru, Hashes \ {h})
           r == OnlyIn(tier.plru, Hashes \ {h})
           q2 == IF keep THEN q ELSE Append(q, h)
           r2 == IF keep THEN Append(r, h) ELSE r
<1>1. /\ tier.lru \in Seq(Hashes) /\ tier.plru \in Seq(Hashes)
      /\ Stored(tier) \subseteq Hashes /\ tier.snaps \in [Stored(tier) -> Snapshots]
      /\ tier = [snaps |-> tier.snaps, lru |-> tier.lru, plru |-> tier.plru]
  BY TierType DEF TierOK
<1>2. f \in [S -> Snapshots] /\ S \subseteq Hashes /\ f[h] = snap
      /\ \A g \in Stored(tier) \ {h} : f[g] = tier.snaps[g]
  BY <1>1
<1>3. /\ q \in Seq(Hashes) /\ ToSet(q) = ToSet(tier.lru) \cap (Hashes \ {h}) /\ Once(q)
      /\ r \in Seq(Hashes) /\ ToSet(r) = ToSet(tier.plru) \cap (Hashes \ {h}) /\ Once(r)
  BY <1>1, OnlyInFacts DEF TierOK
<1>5. t = [snaps |-> f, lru |-> q2, plru |-> r2]
  <2>1. tier \in Tiers
    BY DEF TierOK
  <2>2. t = PutTier(tier, h, snap, keep)
    BY <2>1, PutShape
  <2> QED
    BY <2>2 DEF PutTier
<1> HIDE DEF f, q, r, t
<1>6. /\ Append(q, h) \in Seq(Hashes) /\ ToSet(Append(q, h)) = ToSet(q) \cup {h}
      /\ Once(Append(q, h))
      /\ Append(r, h) \in Seq(Hashes) /\ ToSet(Append(r, h)) = ToSet(r) \cup {h}
      /\ Once(Append(r, h))
  BY <1>3, AppendFacts
<1>7. /\ q2 \in Seq(Hashes) /\ Once(q2)
      /\ r2 \in Seq(Hashes) /\ Once(r2)
  BY <1>3, <1>6
<1>8. ToSet(q2) = S \ marks2 /\ ToSet(r2) = S \cap marks2
  <2>1. ToSet(q) = (S \ marks2) \ {h} /\ ToSet(r) = (S \cap marks2) \ {h}
    BY <1>1, <1>3 DEF TierOK
  <2>2. CASE keep
    BY <1>6, <2>1, <2>2
  <2>3. CASE ~keep
    BY <1>6, <2>1, <2>3
  <2> QED
    BY <2>2, <2>3
<1> HIDE DEF S, q2, r2
<1>e. S \in SUBSET Hashes
  BY <1>2
<1>f. f \in [S -> Snapshots] /\ q2 \in Seq(Hashes) /\ r2 \in Seq(Hashes)
  BY <1>2, <1>7
<1>g. /\ [snaps |-> f, lru |-> q2, plru |-> r2] \in Tiers
      /\ Stored([snaps |-> f, lru |-> q2, plru |-> r2]) = S
  BY <1>e, <1>f, IsTier
<1>9. t \in Tiers /\ Stored(t) = S
  BY <1>5, <1>g
<1>10. TierOK(t, marks2) /\ t.snaps = f
  BY <1>5, <1>7, <1>8, <1>9 DEF TierOK
<1>11. Stored(t) = Stored(tier) \cup {h}
  BY <1>9 DEF S
<1> QED
  BY <1>2, <1>10, <1>11 DEF t

\* Whose turn it is: when a snapshot is popped, those of its class that stay
\* behind come after it in the queue.
LEMMA VictimFacts ==
  ASSUME NEW tier, NEW marks, TierOK(tier, marks), NEW n \in Nat
  PROVE  LET out == Victims(tier, n)
         IN /\ out \in Seq(Hashes)
            /\ ToSet(out) \subseteq Stored(tier)
            /\ Cardinality(Stored(tier) \ ToSet(out)) <= n
            /\ Size(tier) <= n => ToSet(out) = {}
            /\ \A p \in ToSet(out) \cap marks : Stored(tier) \ marks \subseteq ToSet(out)
            /\ \A i, j \in 1..Len(out) : out[i] = out[j] => i = j
            /\ \A i \in 1..Len(out) : \A b \in Stored(tier) :
                 (\A k \in 1..i : out[k] # b) =>
                   /\ out[i] \notin marks /\ b \notin marks => Before(tier.lru, out[i], b)
                   /\ out[i] \in marks /\ b \in marks => Before(tier.plru, out[i], b)
<1> DEFINE a == Queue(tier)
           s == Size(tier)
           l == Len(tier.lru)
           m == IF s > n THEN s - n ELSE 0
           out == Victims(tier, n)
<1>1. /\ a \in Seq(Hashes) /\ Once(a) /\ ToSet(a) = Stored(tier) /\ Len(a) = s
      /\ l \in Nat /\ Len(tier.plru) \in Nat /\ s = l + Len(tier.plru)
      /\ \A i \in 1..l : a[i] = tier.lru[i]
      /\ \A i \in (l + 1)..s : a[i] = tier.plru[i - l]
      /\ IsFiniteSet(Stored(tier)) /\ s \in Nat
  BY QueueFacts
<1>2. /\ tier.lru \in Seq(Hashes) /\ tier.plru \in Seq(Hashes)
      /\ ToSet(tier.lru) = Stored(tier) \ marks
      /\ ToSet(tier.plru) = Stored(tier) \cap marks
  BY TierType DEF TierOK
<1>3. out = SubSeq(a, 1, m)
  BY DEF Victims
<1> HIDE DEF a, s, l, out
<1>4. m \in 0..s
  BY <1>1
<1>5. /\ out \in Seq(Hashes) /\ Len(out) = m
      /\ \A i \in 1..m : i \in 1..s /\ out[i] = a[i]
  <2>1. \A i \in 1..m : a[i] \in Hashes
    BY <1>1, <1>4
  <2>2. CASE m = 0
    BY <1>1, <1>3, <2>2
  <2>3. CASE m # 0
    BY <1>1, <1>3, <1>4, <2>3, SubSeqProperties
  <2> QED
    BY <2>2, <2>3
<1> HIDE DEF m
<1>6. ToSet(out) = {a[i] : i \in 1..m} /\ Stored(tier) = {a[i] : i \in 1..s}
  <2>1. ToSet(out) = {out[i] : i \in 1..m}
    BY <1>5, ToSetFacts
  <2>2. Stored(tier) = {a[i] : i \in 1..s}
    BY <1>1, ToSetFacts
  <2> QED
    BY <1>5, <2>1, <2>2
<1>7. ToSet(out) \subseteq Stored(tier)
  BY <1>5, <1>6
<1>8. Once(out)
  BY <1>1, <1>5 DEF Once
<1>9. IsFiniteSet(ToSet(out)) /\ Cardinality(ToSet(out)) = m
  BY <1>5, <1>8, OnceCounts
<1>10. Cardinality(Stored(tier) \ ToSet(out)) = s - m
  <2>1. Stored(tier) \cap ToSet(out) = ToSet(out)
    BY <1>7
  <2>2. Cardinality(Stored(tier) \ ToSet(out))
          = Cardinality(Stored(tier)) - Cardinality(Stored(tier) \cap ToSet(out))
    BY <1>1, FS_Difference
  <2> QED
    BY <1>9, <2>1, <2>2 DEF s, Size
<1>11. Cardinality(Stored(tier) \ ToSet(out)) <= n
  BY <1>1, <1>10 DEF m
<1>12. ASSUME s <= n PROVE ToSet(out) = {}
  <2>1. m = 0
    BY <1>1, <1>12 DEF m
  <2> QED
    BY <1>6, <2>1
<1>b. ToSet(tier.lru) = {tier.lru[i] : i \in 1..l}
  BY <1>2, ToSetFacts DEF l
<1>13. ASSUME NEW i \in 1..s, a[i] \in marks, NEW j \in 1..s, a[j] \notin marks PROVE j < i
  <2>1. ~(i \in 1..l)
    <3>1. ASSUME i \in 1..l PROVE a[i] \notin marks
      <4>1. a[i] \in ToSet(tier.lru)
        BY <1>1, <1>b, <3>1
      <4> QED
        BY <1>2, <4>1
    <3> QED
      BY <1>13, <3>1
  <2>2. ~(j \in (l + 1)..s)
    <3>1. ASSUME j \in (l + 1)..s PROVE a[j] \in marks
      <4>1. a[j] = tier.plru[j - l] /\ j - l \in 1..Len(tier.plru)
        BY <1>1, <3>1
      <4>2. a[j] \in ToSet(tier.plru)
        BY <1>2, <4>1, ToSetFacts
      <4> QED
        BY <1>2, <4>2
    <3> QED
      BY <1>13, <3>1
  <2> QED
    BY <1>1, <2>1, <2>2
<1>14. ASSUME NEW p \in ToSet(out) \cap marks, NEW o \in Stored(tier) \ marks
       PROVE  o \in ToSet(out)
  <2>1. PICK i \in 1..m : a[i] = p
    BY <1>6
  <2>2. PICK j \in 1..s : a[j] = o
    BY <1>6
  <2>3. j < i
    <3>1. i \in 1..s /\ a[i] \in marks /\ a[j] \notin marks
      BY <1>5, <2>1, <2>2
    <3> QED
      BY <1>13, <3>1
  <2>4. j \in 1..m
    BY <1>4, <1>1, <2>3
  <2> QED
    BY <1>6, <2>2, <2>4
<1>15. ASSUME NEW i \in 1..m, NEW b \in Stored(tier), \A k \in 1..i : out[k] # b
       PROVE  /\ out[i] \notin marks /\ b \notin marks => Before(tier.lru, out[i], b)
              /\ out[i] \in marks /\ b \in marks => Before(tier.plru, out[i], b)
  <2>1. PICK j \in 1..s : a[j] = b
    BY <1>6
  <2>2. i < j /\ i \in 1..s /\ a[i] = out[i]
    <3>1. ~(j \in 1..i)
      <4>1. ASSUME j \in 1..i PROVE out[j] = b
        <5>1. j \in 1..m
          BY <1>4, <1>1, <4>1
        <5> QED
          BY <1>5, <2>1, <5>1
      <4> QED
        BY <1>15, <4>1
    <3> QED
      BY <1>1, <1>4, <1>5, <3>1
  <2>3. ASSUME NEW k \in 1..s, a[k] \notin marks PROVE k \in 1..l
    <3>1. ASSUME k \in (l + 1)..s PROVE FALSE
      <4>1. a[k] = tier.plru[k - l] /\ k - l \in 1..Len(tier.plru)
        BY <1>1, <3>1
      <4>2. a[k] \in ToSet(tier.plru)
        BY <1>2, <4>1, ToSetFacts
      <4> QED
        BY <1>2, <2>3, <4>2
    <3> QED
      BY <1>1, <3>1
  <2>4. ASSUME NEW k \in 1..s, a[k] \in marks PROVE k \in (l + 1)..s
    <3>1. ASSUME k \in 1..l PROVE FALSE
      <4>1. a[k] \in ToSet(tier.lru)
        BY <1>1, <1>b, <3>1
      <4> QED
        BY <1>2, <2>4, <4>1
    <3> QED
      BY <1>1, <3>1
  <2>5. ASSUME out[i] \notin marks, b \notin marks PROVE Before(tier.lru, out[i], b)
    <3>1. i \in 1..l /\ j \in 1..l
      BY <2>1, <2>2, <2>3, <2>5
    <3>2. tier.lru[i] = out[i] /\ tier.lru[j] = b
      BY <1>1, <2>1, <2>2, <3>1
    <3> QED
      BY <2>2, <3>1, <3>2 DEF Before, l
  <2>6. ASSUME out[i] \in marks, b \in marks PROVE Before(tier.plru, out[i], b)
    <3>1. i \in (l + 1)..s /\ j \in (l + 1)..s
      BY <2>1, <2>2, <2>4, <2>6
    <3>2. tier.plru[i - l] = out[i] /\ tier.plru[j - l] = b
      BY <1>1, <2>1, <2>2, <3>1
    <3>3. i - l \in 1..Len(tier.plru) /\ j - l \in 1..Len(tier.plru) /\ i - l < j - l
      BY <1>1, <2>2, <3>1
    <3> QED
      BY <3>2, <3>3 DEF Before
  <2> QED
    BY <2>5, <2>6
<1>16. \A i, j \in 1..Len(out) : out[i] = out[j] => i = j
  BY <1>8 DEF Once
<1> HIDE DEF out
<1>17. /\ out \in Seq(Hashes)
       /\ ToSet(out) \subseteq Stored(tier)
       /\ Cardinality(Stored(tier) \ ToSet(out)) <= n
       /\ Size(tier) <= n => ToSet(out) = {}
       /\ \A p \in ToSet(out) \cap marks : Stored(tier) \ marks \subseteq ToSet(out)
  BY <1>5, <1>7, <1>11, <1>12, <1>14 DEF s
<1>18. \A i \in 1..Len(out) : \A b \in Stored(tier) :
         (\A k \in 1..i : out[k] # b) =>
           /\ out[i] \notin marks /\ b \notin marks => Before(tier.lru, out[i], b)
           /\ out[i] \in marks /\ b \in marks => Before(tier.plru, out[i], b)
  BY <1>5, <1>15
<1> QED
  BY <1>16, <1>17, <1>18 DEF out

LEMMA WithoutNothing ==
  ASSUME NEW tier, NEW marks, TierOK(tier, marks)
  PROVE  Without(tier, {}) = tier
<1>1. /\ tier.lru \in Seq(Hashes) /\ tier.plru \in Seq(Hashes)
      /\ tier.snaps \in [Stored(tier) -> Snapshots]
      /\ tier = [snaps |-> tier.snaps, lru |-> tier.lru, plru |-> tier.plru]
  BY TierType DEF TierOK
<1>2. ASSUME NEW q \in Seq(Hashes), Once(q) PROVE OnlyIn(q, Hashes \ {}) = q
  <2> DEFINE r == OnlyIn(q, Hashes \ {})
  <2>1. /\ r \in Seq(Hashes) /\ Once(r) /\ ToSet(r) = ToSet(q) \cap (Hashes \ {})
        /\ \A a, b : Before(r, a, b) => Before(q, a, b)
    BY <1>2, OnlyInFacts
  <2>2. ToSet(r) = ToSet(q)
    BY <2>1, ToSetFacts
  <2> HIDE DEF r
  <2>3. r = q
    BY <1>2, <2>1, <2>2, SameOrder
  <2> QED
    BY <2>3 DEF r
<1>3. OnlyIn(tier.lru, Hashes \ {}) = tier.lru /\ OnlyIn(tier.plru, Hashes \ {}) = tier.plru
  BY <1>1, <1>2 DEF TierOK
<1>4. Restrict(tier.snaps, Stored(tier) \ {}) = tier.snaps
  BY <1>1 DEF Restrict
<1> QED
  BY <1>1, <1>3, <1>4 DEF Without

-------------------------------------------------------------------------------
(* Both tiers.                                                               *)

Worlds == [device : Tiers, cpu : Tiers, preserved : SUBSET Hashes]

\* Each tier's queues are in order and no hash is in both tiers.
WorldOK(w) ==
  /\ w \in Worlds
  /\ TierOK(w.device, w.preserved)
  /\ TierOK(w.cpu, w.preserved)
  /\ Stored(w.device) \cap Stored(w.cpu) = {}

Anywhere(w) == Stored(w.device) \cup Stored(w.cpu)

\* What evictions, spills and drops may make of the cache v: snapshots are lost
\* or go from the device to the CPU, unchanged; a mark is lost with its snapshot;
\* of two CPU snapshots the preserved one stays if the ordinary one does.  The
\* hashes in apart are those whose CPU copy is taken out by itself.
Settled(v, w, apart) ==
  /\ Stored(w.device) \subseteq Stored(v.device)
  /\ \A g \in Stored(w.device) : w.device.snaps[g] = v.device.snaps[g]
  /\ \A g \in Stored(w.cpu) :
       \/ g \in Stored(v.cpu) /\ w.cpu.snaps[g] = v.cpu.snaps[g]
       \/ g \in Stored(v.device) /\ w.cpu.snaps[g] = v.device.snaps[g]
  /\ w.preserved \subseteq v.preserved
  /\ v.preserved \cap Anywhere(w) \subseteq w.preserved
  /\ w.preserved \ Anywhere(w) \subseteq (v.preserved \ Anywhere(v)) \cup apart
  /\ \A p \in v.preserved \cap Stored(v.cpu), o \in Stored(v.cpu) \ v.preserved :
       p \notin Anywhere(w) /\ p \notin apart => o \notin Stored(w.cpu)

LEMMA SettledSelf ==
  ASSUME NEW w
  PROVE  Settled(w, w, {})
BY DEF Settled, Anywhere

LEMMA SettledChain ==
  ASSUME NEW u, NEW v, NEW w, NEW X, NEW Y, WorldOK(u), Settled(u, v, X), Settled(v, w, Y)
  PROVE  Settled(u, w, X \cup Y)
<1>1. /\ Stored(v.device) \subseteq Stored(u.device)
      /\ Stored(w.device) \subseteq Stored(v.device)
      /\ \A g \in Stored(v.cpu) : g \in Stored(u.cpu) \/ g \in Stored(u.device)
      /\ \A g \in Stored(w.cpu) : g \in Stored(v.cpu) \/ g \in Stored(v.device)
      /\ Stored(u.device) \cap Stored(u.cpu) = {}
  BY DEF Settled, WorldOK
<1>2. ASSUME NEW g \in Stored(w.device) PROVE w.device.snaps[g] = u.device.snaps[g]
  BY <1>1 DEF Settled
<1>3. ASSUME NEW g \in Stored(w.cpu)
      PROVE  \/ g \in Stored(u.cpu) /\ w.cpu.snaps[g] = u.cpu.snaps[g]
             \/ g \in Stored(u.device) /\ w.cpu.snaps[g] = u.device.snaps[g]
  <2>1. CASE g \in Stored(v.cpu) /\ w.cpu.snaps[g] = v.cpu.snaps[g]
    BY <2>1 DEF Settled
  <2>2. CASE g \in Stored(v.device) /\ w.cpu.snaps[g] = v.device.snaps[g]
    BY <2>2 DEF Settled
  <2> QED
    BY <2>1, <2>2 DEF Settled
<1>4. Anywhere(v) \subseteq Anywhere(u) /\ Anywhere(w) \subseteq Anywhere(v)
  BY <1>1 DEF Anywhere
<1>5. /\ w.preserved \subseteq u.preserved
      /\ u.preserved \cap Anywhere(w) \subseteq w.preserved
      /\ w.preserved \ Anywhere(w) \subseteq (u.preserved \ Anywhere(u)) \cup (X \cup Y)
  BY <1>4 DEF Settled
<1>6. ASSUME NEW p \in u.preserved \cap Stored(u.cpu), NEW o \in Stored(u.cpu) \ u.preserved,
             p \notin Anywhere(w), p \notin X \cup Y, o \in Stored(w.cpu)
      PROVE  FALSE
  <2>1. o \in Stored(v.cpu)
    BY <1>1, <1>6
  <2>2. p \in Anywhere(v)
    BY <1>6, <2>1 DEF Settled
  <2>3. p \in Stored(v.cpu) /\ p \in v.preserved /\ o \notin v.preserved
    BY <1>1, <1>6, <2>2 DEF Settled, Anywhere
  <2> QED
    BY <1>6, <2>1, <2>3 DEF Settled
<1> QED
  BY <1>1, <1>2, <1>3, <1>5, <1>6 DEF Settled

LEMMA WorldType ==
  ASSUME NEW w \in Worlds
  PROVE  /\ w.device \in Tiers /\ w.cpu \in Tiers /\ w.preserved \in SUBSET Hashes
         /\ w = [device |-> w.device, cpu |-> w.cpu, preserved |-> w.preserved]
BY DEF Worlds

LEMMA WorldExcept ==
  ASSUME NEW w \in Worlds, NEW x, NEW y
  PROVE  /\ [w EXCEPT !.device = x]
              = [device |-> x, cpu |-> w.cpu, preserved |-> w.preserved]
         /\ [w EXCEPT !.cpu = x]
              = [device |-> w.device, cpu |-> x, preserved |-> w.preserved]
         /\ [w EXCEPT !.preserved = x]
              = [device |-> w.device, cpu |-> w.cpu, preserved |-> x]
         /\ [w EXCEPT !.device = x, !.preserved = y]
              = [device |-> x, cpu |-> w.cpu, preserved |-> y]
         /\ [w EXCEPT !.cpu = x, !.preserved = y]
              = [device |-> w.device, cpu |-> x, preserved |-> y]
<1>1. PICK d, c, m : w = [device |-> d, cpu |-> c, preserved |-> m]
  BY WorldType
<1>2. w.device = d /\ w.cpu = c /\ w.preserved = m
  BY <1>1
<1>3. [w EXCEPT !.device = x] = [device |-> x, cpu |-> c, preserved |-> m]
  BY <1>1
<1>4. [w EXCEPT !.cpu = x] = [device |-> d, cpu |-> x, preserved |-> m]
  BY <1>1
<1>5. [w EXCEPT !.preserved = x] = [device |-> d, cpu |-> c, preserved |-> x]
  BY <1>1
<1>6. [w EXCEPT !.device = x, !.preserved = y] = [device |-> x, cpu |-> c, preserved |-> y]
  <2> DEFINE v == [w EXCEPT !.device = x]
  <2>1. [w EXCEPT !.device = x, !.preserved = y] = [v EXCEPT !.preserved = y]
    BY <1>1
  <2> HIDE DEF v
  <2>2. v = [device |-> x, cpu |-> c, preserved |-> m]
    BY <1>3 DEF v
  <2> QED
    BY <2>1, <2>2
<1>7. [w EXCEPT !.cpu = x, !.preserved = y] = [device |-> d, cpu |-> x, preserved |-> y]
  <2> DEFINE v == [w EXCEPT !.cpu = x]
  <2>1. [w EXCEPT !.cpu = x, !.preserved = y] = [v EXCEPT !.preserved = y]
    BY <1>1
  <2> HIDE DEF v
  <2>2. v = [device |-> d, cpu |-> x, preserved |-> m]
    BY <1>4 DEF v
  <2> QED
    BY <2>1, <2>2
<1> QED
  BY <1>2, <1>3, <1>4, <1>5, <1>6, <1>7

\* gone is taken from the CPU tier, the preserved ones after the ordinary ones.
LEMMA DroppedFacts ==
  ASSUME NEW w, WorldOK(w), NEW gone \in SUBSET Stored(w.cpu),
         \A p \in gone \cap w.preserved : Stored(w.cpu) \ w.preserved \subseteq gone
  PROVE  LET v == [device |-> w.device, cpu |-> Without(w.cpu, gone),
                   preserved |-> w.preserved \ gone]
         IN /\ WorldOK(v) /\ Settled(w, v, {})
            /\ Stored(v.cpu) = Stored(w.cpu) \ gone
            /\ Size(v.cpu) \in Nat /\ Size(v.cpu) <= Size(w.cpu)
<1> DEFINE c == Without(w.cpu, gone)
           marks == w.preserved \ gone
           v == [device |-> w.device, cpu |-> c, preserved |-> marks]
<1>1. /\ w.device \in Tiers /\ w.preserved \in SUBSET Hashes
      /\ Stored(w.device) \cap Stored(w.cpu) = {}
      /\ TierOK(w.device, w.preserved) /\ TierOK(w.cpu, w.preserved)
  BY WorldType DEF WorldOK
<1>2. marks \cap (Stored(w.cpu) \ gone) = w.preserved \cap (Stored(w.cpu) \ gone)
  OBVIOUS
<1>3. /\ TierOK(c, marks) /\ Stored(c) = Stored(w.cpu) \ gone
      /\ \A g \in Stored(w.cpu) \ gone : c.snaps[g] = w.cpu.snaps[g]
  BY <1>1, <1>2, WithoutFacts
<1> HIDE DEF c
<1>4. TierOK(w.device, marks)
  BY <1>1 DEF TierOK
<1>5. v \in Worlds
  BY <1>1, <1>3 DEF Worlds, TierOK
<1>6. WorldOK(v)
  BY <1>1, <1>3, <1>4, <1>5 DEF WorldOK
<1>7. Settled(w, v, {})
  BY <1>1, <1>3 DEF Settled, Anywhere
<1>8. Size(v.cpu) \in Nat /\ Size(v.cpu) <= Size(w.cpu)
  <2>1. IsFiniteSet(Stored(w.cpu))
    BY <1>1, QueueFacts
  <2>2. IsFiniteSet(Stored(c)) /\ Cardinality(Stored(c)) <= Cardinality(Stored(w.cpu))
    BY <1>3, <2>1, FS_Subset
  <2> QED
    BY <2>2, FS_CardinalityType DEF Size
<1> QED
  BY <1>3, <1>6, <1>7, <1>8 DEF c

LEMMA ShrinkCpuFacts ==
  ASSUME NEW w, WorldOK(w), NEW n \in Nat
  PROVE  \E gone \in SUBSET Stored(w.cpu) :
           /\ ShrinkCpu(w, n) = [device |-> w.device, cpu |-> Without(w.cpu, gone),
                                 preserved |-> w.preserved \ gone]
           /\ Size(ShrinkCpu(w, n).cpu) <= n
           /\ Size(w.cpu) <= n => gone = {}
           /\ \A p \in gone \cap w.preserved : Stored(w.cpu) \ w.preserved \subseteq gone
<1> DEFINE gone == ToSet(Victims(w.cpu, n))
<1>1. /\ w = [device |-> w.device, cpu |-> w.cpu, preserved |-> w.preserved]
      /\ Stored(w.device) \cap Stored(w.cpu) = {}
      /\ TierOK(w.cpu, w.preserved)
  BY WorldType DEF WorldOK
<1>2. Normalized(w.cpu, w.preserved) = w.cpu
  BY <1>1, NormalizedIsSame
<1>3. /\ gone \subseteq Stored(w.cpu)
      /\ Cardinality(Stored(w.cpu) \ gone) <= n
      /\ Size(w.cpu) <= n => gone = {}
      /\ \A p \in gone \cap w.preserved : Stored(w.cpu) \ w.preserved \subseteq gone
  BY <1>1, VictimFacts
<1>4. [w EXCEPT !.cpu = Normalized(@, w.preserved)] = w
  BY <1>1, <1>2
<1>5. ShrinkCpu(w, n) = DropCpu(w, gone)
  BY <1>4 DEF ShrinkCpu
<1> HIDE DEF gone
<1>6. DropCpu(w, gone) = [device |-> w.device, cpu |-> Without(w.cpu, gone),
                          preserved |-> w.preserved \ (gone \ Stored(w.device))]
  <2> DEFINE x == Without(w.cpu, gone)
             y == w.preserved \ (gone \ Stored(w.device))
  <2>1. DropCpu(w, gone) = [w EXCEPT !.cpu = x, !.preserved = y]
    BY DEF DropCpu
  <2> HIDE DEF x, y
  <2>2. DropCpu(w, gone) = [device |-> w.device, cpu |-> x, preserved |-> y]
    BY <2>1, WorldExcept DEF WorldOK
  <2> QED
    BY <2>2 DEF x, y
<1>7. gone \ Stored(w.device) = gone
  BY <1>1, <1>3
<1>8. Stored(Without(w.cpu, gone)) = Stored(w.cpu) \ gone
  BY <1>1, WithoutFacts
<1>9. Size(ShrinkCpu(w, n).cpu) <= n
  BY <1>3, <1>5, <1>6, <1>8 DEF Size
<1> QED
  BY <1>3, <1>5, <1>6, <1>7, <1>9

LEMMA CpuTargetFacts ==
  ASSUME NEW limit \in Nat \ {0}
  PROVE  CpuTarget(limit) \in 0..(limit - 1)
<1> DEFINE x == limit * EvictPercent
           percent == (x + 99) \div 100
<1>1. x \in Nat /\ x <= limit * 100
  BY RatioAssumption
<1> HIDE DEF x
<1>2. percent \in Nat /\ percent <= limit
  BY <1>1
<1> QED
  BY <1>2 DEF CpuTarget, x

LEMMA MakeRoomForCpuFacts ==
  ASSUME NEW w, WorldOK(w), NEW limit \in Nat \ {0}
  PROVE  \E gone \in SUBSET Stored(w.cpu) :
           /\ MakeRoomForCpu(w, limit) = [device |-> w.device, cpu |-> Without(w.cpu, gone),
                                          preserved |-> w.preserved \ gone]
           /\ Size(Without(w.cpu, gone)) < limit
           /\ \A p \in gone \cap w.preserved : Stored(w.cpu) \ w.preserved \subseteq gone
<1> DEFINE n == IF Size(w.cpu) < limit THEN limit ELSE CpuTarget(limit)
<1>1. CpuTarget(limit) \in 0..(limit - 1)
  BY CpuTargetFacts
<1>2. n \in Nat /\ MakeRoomForCpu(w, limit) = ShrinkCpu(w, n)
  BY <1>1 DEF MakeRoomForCpu
<1>3. PICK gone \in SUBSET Stored(w.cpu) :
        /\ ShrinkCpu(w, n) = [device |-> w.device, cpu |-> Without(w.cpu, gone),
                              preserved |-> w.preserved \ gone]
        /\ Size(ShrinkCpu(w, n).cpu) <= n
        /\ Size(w.cpu) <= n => gone = {}
        /\ \A p \in gone \cap w.preserved : Stored(w.cpu) \ w.preserved \subseteq gone
  <2> HIDE DEF n
  <2> QED
    BY <1>2, ShrinkCpuFacts
<1>4. Size(w.cpu) \in Nat /\ TierOK(w.cpu, w.preserved)
  BY QueueFacts DEF WorldOK
<1>5. Size(Without(w.cpu, gone)) < limit
  <2>1. CASE Size(w.cpu) < limit
    <3>1. gone = {}
      BY <1>3, <1>4, <2>1
    <3>2. Without(w.cpu, gone) = w.cpu
      BY <1>4, <3>1, WithoutNothing
    <3> QED
      BY <2>1, <3>2
  <2>2. CASE ~(Size(w.cpu) < limit)
    <3>1. n = CpuTarget(limit)
      BY <2>2
    <3>2. WorldOK(w) /\ Size(Without(w.cpu, gone)) <= n
      BY <1>3
    <3>3. Size(Without(w.cpu, gone)) \in Nat
      BY <1>3, DroppedFacts
    <3> QED
      BY <1>1, <3>1, <3>2, <3>3
  <2> QED
    BY <2>1, <2>2
<1> QED
  BY <1>2, <1>3, <1>5

\* What an eviction from the device comes down to.
LEMMA EvictShape ==
  ASSUME NEW w, WorldOK(w), NEW h \in Stored(w.device), NEW limit \in Nat, NEW fails
  PROVE  \E gone \in SUBSET Stored(w.cpu) :
           LET D == Without(w.device, {h})
               C == Without(w.cpu, gone)
               M == w.preserved \ gone
               snap == w.device.snaps[h]
           IN /\ \A p \in gone \cap w.preserved : Stored(w.cpu) \ w.preserved \subseteq gone
              /\ \/ EvictDevice(w, h, limit, fails)
                      = [device |-> D, cpu |-> C, preserved |-> M \ {h}]
                 \/ /\ limit > 0 /\ Size(C) < limit
                    /\ EvictDevice(w, h, limit, fails)
                         = [device |-> D, cpu |-> Touched(With(C, h, snap), h, h \in M),
                            preserved |-> M]
<1> DEFINE D == Without(w.device, {h})
           snap == w.device.snaps[h]
           u == [device |-> D, cpu |-> w.cpu, preserved |-> w.preserved]
           v == EvictDevice(w, h, limit, fails)
           lost(x) == [x EXCEPT !.preserved = @ \ {h}]
<1>1. /\ w \in Worlds
      /\ TierOK(w.device, w.preserved) /\ TierOK(w.cpu, w.preserved)
      /\ Stored(w.device) \cap Stored(w.cpu) = {}
  BY DEF WorldOK
<1>2. TierOK(D, w.preserved) /\ Stored(D) = Stored(w.device) \ {h}
  BY <1>1, WithoutFacts
<1>3. WorldOK(u)
  BY <1>1, <1>2, WorldType DEF WorldOK, Worlds, TierOK
<1>4. v = Spilled(u, h, snap, limit, fails)
  BY <1>1, WorldExcept DEF EvictDevice
<1>5. ASSUME NEW x \in Worlds
      PROVE  lost(x) = [device |-> x.device, cpu |-> x.cpu, preserved |-> x.preserved \ {h}]
  BY WorldExcept
<1>6. CASE limit = 0
  <2>1. v = lost(u)
    BY <1>4, <1>6 DEF Spilled
  <2>2. u \in Worlds
    BY <1>3 DEF WorldOK
  <2>3. v = [device |-> D, cpu |-> w.cpu, preserved |-> w.preserved \ {h}]
    BY <1>5, <2>1, <2>2
  <2>4. Without(w.cpu, {}) = w.cpu
    BY <1>1, WithoutNothing
  <2>5. v = [device |-> D, cpu |-> Without(w.cpu, {}), preserved |-> (w.preserved \ {}) \ {h}]
    BY <2>3, <2>4
  <2> HIDE DEF v, D
  <2>6. {} \in SUBSET Stored(w.cpu)
    OBVIOUS
  <2> QED
    BY <2>5, <2>6 DEF v, D
<1>7. CASE limit # 0
  <2> DEFINE room == MakeRoomForCpu(u, limit)
  <2>1. PICK gone \in SUBSET Stored(w.cpu) :
          /\ room = [device |-> D, cpu |-> Without(w.cpu, gone),
                     preserved |-> w.preserved \ gone]
          /\ Size(Without(w.cpu, gone)) < limit
          /\ \A p \in gone \cap w.preserved : Stored(w.cpu) \ w.preserved \subseteq gone
    <3> HIDE DEF D
    <3>1. limit \in Nat \ {0}
      BY <1>7
    <3>2. PICK gone \in SUBSET Stored(u.cpu) :
            /\ MakeRoomForCpu(u, limit) = [device |-> u.device, cpu |-> Without(u.cpu, gone),
                                           preserved |-> u.preserved \ gone]
            /\ Size(Without(u.cpu, gone)) < limit
            /\ \A p \in gone \cap u.preserved : Stored(u.cpu) \ u.preserved \subseteq gone
      <4> HIDE DEF u
      <4> QED
        BY <1>3, <3>1, MakeRoomForCpuFacts
    <3> QED
      BY <3>2
  <2> DEFINE C == Without(w.cpu, gone)
             M == w.preserved \ gone
  <2>2. WorldOK(room) /\ room.cpu = C /\ room.preserved = M /\ room.device = D
    <3> HIDE DEF D, room
    <3>1. \A p \in gone \cap u.preserved : Stored(u.cpu) \ u.preserved \subseteq gone
      BY <2>1
    <3>2. gone \in SUBSET Stored(u.cpu)
      BY <2>1
    <3>3. WorldOK([device |-> u.device, cpu |-> Without(u.cpu, gone),
                   preserved |-> u.preserved \ gone])
      <4> HIDE DEF u
      <4> QED
        BY <1>3, <3>1, <3>2, DroppedFacts
    <3>4. u.device = D /\ u.cpu = w.cpu /\ u.preserved = w.preserved
      OBVIOUS
    <3> QED
      BY <2>1, <3>3, <3>4
  <2>3. h \notin Stored(u.cpu) /\ h \notin Stored(w.cpu) /\ limit > 0
    BY <1>1, <1>7
  <2>4. v = IF Size(room.cpu) < limit /\ h \notin fails
            THEN [room EXCEPT !.cpu = Touched(With(@, h, snap), h, h \in room.preserved)]
            ELSE lost(room)
    <3> HIDE DEF u, room, snap, v
    <3>1. CASE Size(MakeRoomForCpu(u, limit).cpu) < limit /\ h \notin fails
      <4>1. Spilled(u, h, snap, limit, fails)
              = [MakeRoomForCpu(u, limit) EXCEPT
                   !.cpu = Touched(With(@, h, snap), h,
                                   h \in MakeRoomForCpu(u, limit).preserved)]
        BY <1>7, <2>3, <3>1 DEF Spilled
      <4> QED
        BY <1>4, <3>1, <4>1 DEF room
    <3>2. CASE ~(Size(MakeRoomForCpu(u, limit).cpu) < limit /\ h \notin fails)
      <4>1. Spilled(u, h, snap, limit, fails)
              = [MakeRoomForCpu(u, limit) EXCEPT !.preserved = @ \ {h}]
        BY <1>7, <2>3, <3>2 DEF Spilled
      <4> QED
        BY <1>4, <3>2, <4>1 DEF room
    <3> QED
      BY <3>1, <3>2
  <2> HIDE DEF u, v, room, D, C, M, snap
  <2>5. lost(room) = [device |-> D, cpu |-> C, preserved |-> M \ {h}]
    BY <1>5, <2>2 DEF WorldOK
  <2>6. [room EXCEPT !.cpu = Touched(With(@, h, snap), h, h \in room.preserved)]
          = [device |-> D, cpu |-> Touched(With(C, h, snap), h, h \in M), preserved |-> M]
    <3> DEFINE x == Touched(With(C, h, snap), h, h \in M)
    <3>1. [room EXCEPT !.cpu = Touched(With(@, h, snap), h, h \in room.preserved)]
            = [room EXCEPT !.cpu = x]
      BY <2>2
    <3> HIDE DEF x
    <3>2. [room EXCEPT !.cpu = x] = [device |-> D, cpu |-> x, preserved |-> M]
      BY <2>2, WorldExcept DEF WorldOK
    <3> QED
      BY <3>1, <3>2 DEF x
  <2>7. \/ v = [device |-> D, cpu |-> C, preserved |-> M \ {h}]
        \/ /\ limit > 0 /\ Size(C) < limit
           /\ v = [device |-> D, cpu |-> Touched(With(C, h, snap), h, h \in M),
                   preserved |-> M]
    <3>1. Size(C) < limit
      BY <2>1 DEF C
    <3> QED
      BY <2>3, <2>4, <2>5, <2>6, <3>1
  <2> QED
    BY <1>7, <2>1, <2>7 DEF v, D, C, M, snap
<1> QED
  BY <1>6, <1>7

\* Spilling fills the CPU tier up to its limit, not beyond.
StaysWithin(w, v, limit) ==
  \A bound \in Nat : limit <= bound /\ Size(w.cpu) <= bound => Size(v.cpu) <= bound

\* One eviction from the device.
LEMMA EvictFacts ==
  ASSUME NEW w, WorldOK(w), NEW h \in Stored(w.device), NEW limit \in Nat, NEW fails
  PROVE  LET v == EvictDevice(w, h, limit, fails)
         IN /\ WorldOK(v) /\ Settled(w, v, {})
            /\ Stored(v.device) = Stored(w.device) \ {h}
            /\ v.device = Without(w.device, {h})
            /\ StaysWithin(w, v, limit)
<1> DEFINE v == EvictDevice(w, h, limit, fails)
           D == Without(w.device, {h})
           snap == w.device.snaps[h]
<1>1. /\ w.device \in Tiers /\ w.cpu \in Tiers /\ w.preserved \in SUBSET Hashes
      /\ TierOK(w.device, w.preserved) /\ TierOK(w.cpu, w.preserved)
      /\ Stored(w.device) \cap Stored(w.cpu) = {}
      /\ h \in Hashes /\ snap \in Snapshots
  <2>1. w.device \in Tiers /\ w.cpu \in Tiers /\ w.preserved \in SUBSET Hashes
    BY WorldType DEF WorldOK
  <2>2. Stored(w.device) \subseteq Hashes /\ w.device.snaps \in [Stored(w.device) -> Snapshots]
    BY <2>1, TierType
  <2> QED
    BY <2>1, <2>2 DEF WorldOK
<1>2. PICK gone \in SUBSET Stored(w.cpu) :
        LET C == Without(w.cpu, gone)
            M == w.preserved \ gone
        IN /\ \A p \in gone \cap w.preserved : Stored(w.cpu) \ w.preserved \subseteq gone
           /\ \/ v = [device |-> D, cpu |-> C, preserved |-> M \ {h}]
              \/ /\ limit > 0 /\ Size(C) < limit
                 /\ v = [device |-> D, cpu |-> Touched(With(C, h, snap), h, h \in M),
                         preserved |-> M]
  BY EvictShape
<1> DEFINE C == Without(w.cpu, gone)
           M == w.preserved \ gone
           T == Touched(With(C, h, snap), h, h \in M)
<1>3. /\ Stored(D) = Stored(w.device) \ {h}
      /\ \A g \in Stored(D) : D.snaps[g] = w.device.snaps[g]
      /\ TierOK(D, M) /\ TierOK(D, M \ {h})
  <2>1. /\ M \cap (Stored(w.device) \ {h}) = w.preserved \cap (Stored(w.device) \ {h})
        /\ (M \ {h}) \cap (Stored(w.device) \ {h}) = w.preserved \cap (Stored(w.device) \ {h})
    BY <1>1
  <2> HIDE DEF M, D
  <2>2. /\ TierOK(D, w.preserved) /\ Stored(D) = Stored(w.device) \ {h}
        /\ \A g \in Stored(w.device) \ {h} : D.snaps[g] = w.device.snaps[g]
    BY <1>1, WithoutFacts DEF D
  <2>3. TierOK(D, M)
    BY <1>1, <2>1, WithoutFacts DEF D
  <2>4. TierOK(D, M \ {h})
    BY <1>1, <2>1, WithoutFacts DEF D
  <2> QED
    BY <2>2, <2>3, <2>4
<1>4. /\ Stored(C) = Stored(w.cpu) \ gone
      /\ \A g \in Stored(C) : C.snaps[g] = w.cpu.snaps[g]
      /\ TierOK(C, M) /\ TierOK(C, M \ {h})
  <2>1. /\ M \cap (Stored(w.cpu) \ gone) = w.preserved \cap (Stored(w.cpu) \ gone)
        /\ (M \ {h}) \cap (Stored(w.cpu) \ gone) = w.preserved \cap (Stored(w.cpu) \ gone)
    BY <1>1
  <2> HIDE DEF M, C
  <2>2. /\ TierOK(C, w.preserved) /\ Stored(C) = Stored(w.cpu) \ gone
        /\ \A g \in Stored(w.cpu) \ gone : C.snaps[g] = w.cpu.snaps[g]
    BY <1>1, WithoutFacts DEF C
  <2>3. TierOK(C, M)
    BY <1>1, <2>1, WithoutFacts DEF C
  <2>4. TierOK(C, M \ {h})
    BY <1>1, <2>1, WithoutFacts DEF C
  <2> QED
    BY <2>2, <2>3, <2>4
<1>5. /\ TierOK(T, M) /\ Stored(T) = Stored(C) \cup {h} /\ T.snaps[h] = snap
      /\ \A g \in Stored(C) \ {h} : T.snaps[g] = C.snaps[g]
  <2> HIDE DEF C, M, snap
  <2> DEFINE keep == h \in M
  <2>1. keep \in BOOLEAN /\ (keep <=> h \in M) /\ T = Touched(With(C, h, snap), h, keep)
    OBVIOUS
  <2> HIDE DEF keep, T
  <2> QED
    BY <1>1, <1>4, <2>1, PutFacts
<1>6. /\ M \in SUBSET Hashes /\ M \ {h} \in SUBSET Hashes
      /\ D \in Tiers /\ C \in Tiers /\ T \in Tiers
  BY <1>1, <1>3, <1>4, <1>5 DEF TierOK
<1>7. /\ IsFiniteSet(Stored(C)) /\ Size(C) \in Nat /\ Size(C) <= Size(w.cpu)
      /\ Size(w.cpu) \in Nat /\ Size(T) \in Nat /\ Size(T) <= Size(C) + 1
  <2>1. IsFiniteSet(Stored(w.cpu)) /\ Size(w.cpu) \in Nat
    BY <1>1, QueueFacts
  <2>2. IsFiniteSet(Stored(C)) /\ Size(C) \in Nat
    <3> HIDE DEF C, M
    <3> QED
      BY <1>4, QueueFacts
  <2>3. Size(T) \in Nat
    <3> HIDE DEF T, M
    <3> QED
      BY <1>5, QueueFacts
  <2>4. Size(C) <= Size(w.cpu)
    BY <1>4, <2>1, FS_Subset DEF Size
  <2>5. Cardinality(Stored(C) \cup {h}) <= Cardinality(Stored(C)) + 1
    <3> HIDE DEF C
    <3> QED
      BY <2>2, FS_AddElement DEF Size
  <2> QED
    BY <1>5, <2>1, <2>2, <2>3, <2>4, <2>5 DEF Size
<1>8. h \notin Stored(w.cpu) /\ h \notin Stored(C)
  BY <1>1, <1>4
<1> DEFINE lostOne == [device |-> D, cpu |-> C, preserved |-> M \ {h}]
           spilt == [device |-> D, cpu |-> T, preserved |-> M]
<1>10. v = lostOne \/ (limit > 0 /\ Size(C) < limit /\ v = spilt)
  BY <1>2
<1>11. \A p \in gone \cap w.preserved : Stored(w.cpu) \ w.preserved \subseteq gone
  BY <1>2
<1>12. gone \subseteq Stored(w.cpu) /\ M = w.preserved \ gone
  OBVIOUS
<1> HIDE DEF v, D, C, T, M
<1>13. CASE v = lostOne
  <2>1. v.device = D /\ v.cpu = C /\ v.preserved = M \ {h}
    BY <1>13
  <2>2. WorldOK(v)
    <3>1. v \in Worlds
      BY <1>6, <1>13 DEF Worlds
    <3>2. Stored(D) \cap Stored(C) = {}
      BY <1>1, <1>3, <1>4
    <3> QED
      BY <1>3, <1>4, <2>1, <3>1, <3>2 DEF WorldOK
  <2>3. Settled(w, v, {})
    BY <1>1, <1>3, <1>4, <1>8, <1>11, <1>12, <2>1 DEF Settled, Anywhere
  <2>4. StaysWithin(w, v, limit)
    BY <1>7, <2>1 DEF StaysWithin
  <2> QED
    BY <1>3, <2>1, <2>2, <2>3, <2>4 DEF v, D
<1>14. CASE limit > 0 /\ Size(C) < limit /\ v = spilt
  <2>1. v.device = D /\ v.cpu = T /\ v.preserved = M
    BY <1>14
  <2>2. WorldOK(v)
    <3>1. v \in Worlds
      BY <1>6, <1>14 DEF Worlds
    <3>2. Stored(D) \cap Stored(T) = {}
      BY <1>1, <1>3, <1>4, <1>5
    <3> QED
      BY <1>3, <1>5, <2>1, <3>1, <3>2 DEF WorldOK
  <2>3. Settled(w, v, {})
    <3>1. \A g \in Stored(T) : \/ g \in Stored(w.cpu) /\ T.snaps[g] = w.cpu.snaps[g]
                               \/ g \in Stored(w.device) /\ T.snaps[g] = w.device.snaps[g]
      BY <1>4, <1>5, <1>8
    <3> QED
      BY <1>1, <1>3, <1>4, <1>5, <1>8, <1>11, <1>12, <2>1, <3>1 DEF Settled, Anywhere
  <2>4. StaysWithin(w, v, limit)
    BY <1>7, <1>14, <2>1 DEF StaysWithin
  <2> QED
    BY <1>3, <1>14, <2>1, <2>2, <2>3, <2>4 DEF v, D
<1> QED
  BY <1>10, <1>13, <1>14

\* The evictions from the device, one after the other.
Evictions(after, w, out, limit, fails) ==
  /\ after[0] = w
  /\ \A i \in 1..Len(out) : after[i] = EvictDevice(after[i - 1], out[i], limit, fails)

LEMMA ShrinkDeviceUnfolds ==
  ASSUME NEW w, WorldOK(w), NEW n \in Nat, NEW limit, NEW fails
  PROVE  \E after :
           /\ ShrinkDevice(w, n, limit, fails) = after[Len(Victims(w.device, n))]
           /\ Evictions(after, w, Victims(w.device, n), limit, fails)
<1> DEFINE out == Victims(w.device, n)
<1>1. /\ w \in Worlds /\ TierOK(w.device, w.preserved)
      /\ w = [device |-> w.device, cpu |-> w.cpu, preserved |-> w.preserved]
  BY WorldType DEF WorldOK
<1>2. [w EXCEPT !.device = Normalized(@, w.preserved)] = w
  <2>1. Normalized(w.device, w.preserved) = w.device
    BY <1>1, NormalizedIsSame
  <2> QED
    BY <1>1, <2>1
<1>3. Len(out) \in Nat
  <2>1. out \in Seq(Hashes)
    BY <1>1, VictimFacts
  <2> QED
    BY <2>1
<1> DEFINE Solves(f, m) ==
             f = [i \in 0..m |-> IF i = 0 THEN w
                                 ELSE EvictDevice(f[i - 1], out[i], limit, fails)]
           Bad == {m \in Nat : ~\E f : Solves(f, m)}
<1>4. ASSUME Bad # {} PROVE FALSE
  <2> HIDE DEF out
  <2>1. PICK m \in Bad : \A k \in Bad : m <= k
    BY <1>4, LeastNumber
  <2>2. m \in Nat
    BY <2>1
  <2>3. m # 0
    <3> DEFINE f == [i \in 0..0 |-> w]
    <3>1. Solves(f, 0)
      OBVIOUS
    <3> HIDE DEF f, Solves
    <3> QED
      BY <2>1, <3>1
  <2>4. PICK f : Solves(f, m - 1)
    <3> HIDE DEF Solves
    <3> QED
      BY <2>1, <2>2, <2>3
  <2> DEFINE g == [i \in 0..m |-> IF i = m THEN EvictDevice(f[m - 1], out[m], limit, fails)
                                  ELSE f[i]]
  <2>5. Solves(g, m)
    BY <2>2, <2>3, <2>4
  <2> HIDE DEF Solves, g
  <2> QED
    BY <2>1, <2>5
<1>5. \E f : Solves(f, Len(out))
  <2> HIDE DEF Solves, out
  <2> QED
    BY <1>3, <1>4
<1> DEFINE after == CHOOSE f : Solves(f, Len(out))
<1>6. Solves(after, Len(out))
  <2> HIDE DEF out
  <2> QED
    BY <1>5
<1>7. ShrinkDevice(w, n, limit, fails) = after[Len(out)]
  BY <1>2 DEF ShrinkDevice
<1> HIDE DEF after, out
<1>8. after[0] = w
  BY <1>3, <1>6
<1>9. ASSUME NEW i \in 1..Len(out)
      PROVE  after[i] = EvictDevice(after[i - 1], out[i], limit, fails)
  BY <1>3, <1>6
<1>10. Evictions(after, w, out, limit, fails)
  BY <1>8, <1>9 DEF Evictions
<1> QED
  BY <1>7, <1>10 DEF out

\* What holds after i of the evictions out that shrink the device tier of w.
Evicted(w, v, out, i, limit) ==
  /\ WorldOK(v) /\ Settled(w, v, {})
  /\ Stored(v.device) = Stored(w.device) \ {out[k] : k \in 1..i}
  /\ StaysWithin(w, v, limit)

LEMMA ShrinkDeviceLoop ==
  ASSUME NEW w, WorldOK(w), NEW n \in Nat, NEW limit \in Nat, NEW fails
  PROVE  \E after :
           /\ ShrinkDevice(w, n, limit, fails) = after[Len(Victims(w.device, n))]
           /\ Evictions(after, w, Victims(w.device, n), limit, fails)
           /\ \A i \in 0..Len(Victims(w.device, n)) :
                Evicted(w, after[i], Victims(w.device, n), i, limit)
<1> DEFINE out == Victims(w.device, n)
<1>0. PICK after : /\ ShrinkDevice(w, n, limit, fails) = after[Len(out)]
                   /\ Evictions(after, w, out, limit, fails)
  BY ShrinkDeviceUnfolds
<1>1. /\ after[0] = w
      /\ \A i \in 1..Len(out) : after[i] = EvictDevice(after[i - 1], out[i], limit, fails)
  BY <1>0 DEF Evictions
<1>2. /\ out \in Seq(Hashes) /\ ToSet(out) \subseteq Stored(w.device)
      /\ \A i, j \in 1..Len(out) : out[i] = out[j] => i = j
  BY VictimFacts DEF WorldOK
<1> HIDE DEF out
<1>3. Len(out) \in Nat /\ \A i \in 1..Len(out) : out[i] \in Stored(w.device)
  BY <1>2, ToSetFacts
<1>4. Evicted(w, w, out, 0, limit)
  <2>1. {out[k] : k \in 1..0} = {}
    OBVIOUS
  <2> QED
    BY <2>1, SettledSelf DEF Evicted, StaysWithin
<1>5. ASSUME NEW i \in 1..Len(out), Evicted(w, after[i - 1], out, i - 1, limit)
      PROVE  Evicted(w, after[i], out, i, limit)
  <2> DEFINE u == after[i - 1]
             v == after[i]
             h == out[i]
  <2>1. v = EvictDevice(u, h, limit, fails)
    BY <1>1
  <2>2. /\ WorldOK(u) /\ Settled(w, u, {})
        /\ Stored(u.device) = Stored(w.device) \ {out[k] : k \in 1..(i - 1)}
        /\ StaysWithin(w, u, limit)
    BY <1>5 DEF Evicted
  <2> HIDE DEF u, v
  <2>3. h \in Stored(u.device)
    BY <1>2, <1>3, <2>2
  <2> HIDE DEF h
  <2>4. /\ WorldOK(v) /\ Settled(u, v, {})
        /\ Stored(v.device) = Stored(u.device) \ {h}
        /\ StaysWithin(u, v, limit)
    <3>1. WorldOK(u)
      BY <2>2
    <3> DEFINE x == EvictDevice(u, h, limit, fails)
    <3>2. WorldOK(x) /\ Settled(u, x, {})
      BY <2>3, <3>1, EvictFacts
    <3>3. Stored(x.device) = Stored(u.device) \ {h}
      BY <2>3, <3>1, EvictFacts
    <3>4. StaysWithin(u, x, limit)
      BY <2>3, <3>1, EvictFacts
    <3> QED
      BY <2>1, <3>2, <3>3, <3>4
  <2>5. Settled(w, v, {})
    <3>1. Settled(w, v, {} \cup {})
      BY <2>2, <2>4, SettledChain
    <3>2. {} \cup {} = {}
      OBVIOUS
    <3> QED
      BY <3>1, <3>2
  <2>7. StaysWithin(w, v, limit)
    BY <2>2, <2>4 DEF StaysWithin
  <2>6. Stored(v.device) = Stored(w.device) \ {out[k] : k \in 1..i}
    <3>1. {out[k] : k \in 1..i} = {out[k] : k \in 1..(i - 1)} \cup {out[i]}
      <4>1. 1..i = (1..(i - 1)) \cup {i}
        BY <1>3
      <4> QED
        BY <4>1
    <3> QED
      BY <2>2, <2>4, <3>1 DEF h
  <2> QED
    BY <2>2, <2>4, <2>5, <2>6, <2>7 DEF Evicted, v
<1> DEFINE Bad == {i \in 0..Len(out) : ~Evicted(w, after[i], out, i, limit)}
<1>6. ASSUME Bad # {} PROVE FALSE
  <2>1. Bad \in SUBSET Nat
    BY <1>3
  <2>2. PICK i \in Bad : \A j \in Bad : i <= j
    BY <1>6, <2>1, LeastNumber
  <2>3. i # 0
    BY <1>1, <1>4, <2>2
  <2>4. i \in 1..Len(out) /\ i - 1 \in 0..Len(out) /\ i - 1 < i
    BY <1>3, <2>2, <2>3
  <2>5. i - 1 \notin Bad
    BY <2>1, <2>2, <2>4
  <2> QED
    BY <1>5, <2>2, <2>4, <2>5
<1> QED
  BY <1>0, <1>6 DEF out

LEMMA ShrinkDeviceFacts ==
  ASSUME NEW w, WorldOK(w), NEW n \in Nat, NEW limit \in Nat, NEW fails
  PROVE  LET v == ShrinkDevice(w, n, limit, fails)
         IN /\ WorldOK(v) /\ Settled(w, v, {})
            /\ Size(v.device) \in Nat /\ Size(v.device) <= n
            /\ \A p \in w.preserved :
                 p \in Stored(w.device) \ Stored(v.device) =>
                   Stored(v.device) \cap (Stored(w.device) \ w.preserved) = {}
            /\ StaysWithin(w, v, limit)
<1> DEFINE out == Victims(w.device, n)
           v == ShrinkDevice(w, n, limit, fails)
<1>1. PICK after : /\ v = after[Len(out)]
                   /\ \A i \in 0..Len(out) : Evicted(w, after[i], out, i, limit)
  BY ShrinkDeviceLoop
<1>2. TierOK(w.device, w.preserved)
  BY DEF WorldOK
<1>3. /\ out \in Seq(Hashes)
      /\ Cardinality(Stored(w.device) \ ToSet(out)) <= n
      /\ \A p \in ToSet(out) \cap w.preserved : Stored(w.device) \ w.preserved \subseteq ToSet(out)
  BY <1>2, VictimFacts
<1> HIDE DEF out, v
<1>4. Evicted(w, v, out, Len(out), limit)
  BY <1>1, <1>3
<1>5. Stored(v.device) = Stored(w.device) \ ToSet(out) /\ WorldOK(v)
  BY <1>3, <1>4, ToSetFacts DEF Evicted
<1>6. Size(v.device) \in Nat
  BY <1>5, QueueFacts DEF WorldOK
<1>7. Size(v.device) <= n
  BY <1>3, <1>5 DEF Size
<1>8. ASSUME NEW p \in w.preserved, p \in Stored(w.device) \ Stored(v.device)
      PROVE  Stored(v.device) \cap (Stored(w.device) \ w.preserved) = {}
  BY <1>3, <1>5, <1>8
<1> QED
  BY <1>4, <1>5, <1>6, <1>7, <1>8 DEF Evicted, v

\* The snapshot of h is put on the device, when no CPU copy of it is left.
LEMMA StoredOnDeviceFacts ==
  ASSUME NEW w, WorldOK(w), NEW h \in Hashes, h \notin Stored(w.cpu),
         NEW snap \in Snapshots, NEW preserve \in BOOLEAN
  PROVE  LET v == StoredOnDevice(w, h, snap, preserve)
         IN /\ WorldOK(v)
            /\ v.cpu = w.cpu
            /\ Stored(v.device) = Stored(w.device) \cup {h}
            /\ v.device.snaps[h] = snap
            /\ \A g \in Stored(w.device) \ {h} : v.device.snaps[g] = w.device.snaps[g]
            /\ w.preserved \subseteq v.preserved /\ v.preserved \subseteq w.preserved \cup {h}
            /\ Size(v.device) \in Nat
            /\ h \in Stored(w.device) => Size(v.device) = Size(w.device)
            /\ Size(v.device) <= Size(w.device) + 1
<1> DEFINE keep == preserve \/ h \in w.preserved
           T == Touched(With(w.device, h, snap), h, keep)
           M == IF keep THEN w.preserved \cup {h} ELSE w.preserved
           v == StoredOnDevice(w, h, snap, preserve)
<1>1. /\ w \in Worlds /\ w.device \in Tiers /\ w.cpu \in Tiers /\ w.preserved \in SUBSET Hashes
      /\ TierOK(w.device, w.preserved) /\ TierOK(w.cpu, w.preserved)
      /\ Stored(w.device) \cap Stored(w.cpu) = {}
  BY WorldType DEF WorldOK
<1>2. v = [w EXCEPT !.device = T, !.preserved = M]
  BY DEF StoredOnDevice
<1>3. keep \in BOOLEAN /\ (keep <=> h \in M)
  OBVIOUS
<1>4. M \in SUBSET Hashes /\ w.preserved \subseteq M /\ M \subseteq w.preserved \cup {h}
  BY <1>1
<1> HIDE DEF keep, M, v
<1>5. /\ TierOK(T, M) /\ Stored(T) = Stored(w.device) \cup {h} /\ T.snaps[h] = snap
      /\ \A g \in Stored(w.device) \ {h} : T.snaps[g] = w.device.snaps[g]
  <2>1. M \cap (Stored(w.device) \ {h}) = w.preserved \cap (Stored(w.device) \ {h})
    BY <1>4
  <2> HIDE DEF T
  <2> QED
    BY <1>1, <1>3, <2>1, PutFacts DEF T
<1> HIDE DEF T
<1>6. v = [device |-> T, cpu |-> w.cpu, preserved |-> M]
  BY <1>1, <1>2, WorldExcept
<1>7. WorldOK(v)
  <2>1. TierOK(w.cpu, M)
    BY <1>1, <1>4 DEF TierOK
  <2>2. v \in Worlds
    BY <1>1, <1>4, <1>5, <1>6 DEF Worlds, TierOK
  <2>3. v.device = T /\ v.cpu = w.cpu /\ v.preserved = M
    BY <1>6
  <2> QED
    BY <1>1, <1>5, <2>1, <2>2, <2>3 DEF WorldOK
<1>8. /\ Size(T) \in Nat /\ Size(T) <= Size(w.device) + 1
      /\ h \in Stored(w.device) => Size(T) = Size(w.device)
  <2>1. IsFiniteSet(Stored(w.device)) /\ Cardinality(Stored(w.device)) \in Nat
    BY <1>1, QueueFacts DEF Size
  <2>2. Cardinality(Stored(w.device) \cup {h})
          = IF h \in Stored(w.device) THEN Cardinality(Stored(w.device))
            ELSE Cardinality(Stored(w.device)) + 1
    BY <2>1, FS_AddElement
  <2> QED
    BY <1>5, <2>1, <2>2 DEF Size
<1> QED
  BY <1>4, <1>5, <1>6, <1>7, <1>8 DEF v

\* The CPU copy of h is taken out.
LEMMA CopyTakenOut ==
  ASSUME NEW w, WorldOK(w), NEW h
  PROVE  LET v == [w EXCEPT !.cpu = Without(@, {h})]
         IN /\ WorldOK(v) /\ Settled(w, v, {h})
            /\ v.device = w.device /\ v.preserved = w.preserved
            /\ Stored(v.cpu) = Stored(w.cpu) \ {h}
            /\ \A g \in Stored(w.cpu) \ {h} : v.cpu.snaps[g] = w.cpu.snaps[g]
            /\ Size(v.cpu) \in Nat /\ Size(w.cpu) \in Nat /\ Size(v.cpu) <= Size(w.cpu)
            /\ h \in Stored(w.cpu) => Size(v.cpu) = Size(w.cpu) - 1
<1> DEFINE C == Without(w.cpu, {h})
           v == [w EXCEPT !.cpu = Without(@, {h})]
<1>1. /\ w \in Worlds /\ w.device \in Tiers /\ w.cpu \in Tiers /\ w.preserved \in SUBSET Hashes
      /\ TierOK(w.device, w.preserved) /\ TierOK(w.cpu, w.preserved)
      /\ Stored(w.device) \cap Stored(w.cpu) = {}
  BY WorldType DEF WorldOK
<1>2. /\ TierOK(C, w.preserved) /\ Stored(C) = Stored(w.cpu) \ {h}
      /\ \A g \in Stored(w.cpu) \ {h} : C.snaps[g] = w.cpu.snaps[g]
  BY <1>1, WithoutFacts
<1>3. v = [w EXCEPT !.cpu = C]
  OBVIOUS
<1> HIDE DEF C, v
<1>4. v = [device |-> w.device, cpu |-> C, preserved |-> w.preserved]
  BY <1>1, <1>3, WorldExcept
<1>5. v.device = w.device /\ v.cpu = C /\ v.preserved = w.preserved
  BY <1>4
<1>6. v \in Worlds
  BY <1>1, <1>2, <1>4 DEF Worlds, TierOK
<1>7. WorldOK(v)
  BY <1>1, <1>2, <1>5, <1>6 DEF WorldOK
<1>8. Settled(w, v, {h})
  BY <1>1, <1>2, <1>5 DEF Settled, Anywhere
<1>9. /\ Size(C) \in Nat /\ Size(w.cpu) \in Nat /\ Size(C) <= Size(w.cpu)
      /\ h \in Stored(w.cpu) => Size(C) = Size(w.cpu) - 1
  <2>1. IsFiniteSet(Stored(w.cpu)) /\ Cardinality(Stored(w.cpu)) \in Nat
    BY <1>1, QueueFacts DEF Size
  <2>2. Cardinality(Stored(w.cpu) \ {h})
          = IF h \in Stored(w.cpu) THEN Cardinality(Stored(w.cpu)) - 1
            ELSE Cardinality(Stored(w.cpu))
    BY <2>1, FS_RemoveElement
  <2>3. Size(C) \in Nat
    BY <1>2, QueueFacts
  <2> QED
    BY <1>2, <2>1, <2>2, <2>3 DEF Size
<1> QED
  BY <1>2, <1>5, <1>7, <1>8, <1>9 DEF v

-------------------------------------------------------------------------------
(* Steps.                                                                    *)

CpuBound == CpuCapacityFor(cap) + (IF spills THEN 1 ELSE 0)

\* The inductive invariant.
PrefixInv ==
  /\ cap \in Capacities \cup {0}
  /\ spills \in Spilling
  /\ WorldOK(Now)
  /\ Size(device) <= cap
  /\ Size(cpu) <= CpuBound
  /\ MarksAreStored

\* An eviction from the device takes ordinary snapshots first.
DeviceOrderly(v, w) ==
  \A p \in v.preserved :
    p \in Stored(v.device) \ Stored(w.device) =>
      Stored(w.device) \cap (Stored(v.device) \ v.preserved) = {}

\* What the action properties say of a step from v to w: marks may be left behind
\* for the hashes in left; lost and back are the exceptions on the CPU.
Orderly(v, w, left, lost, back) ==
  /\ DeviceOrderly(v, w)
  /\ w.preserved \ Anywhere(w) \subseteq (v.preserved \ Anywhere(v)) \cup left
  /\ \A p \in v.preserved \cap Stored(v.cpu), o \in Stored(v.cpu) \ v.preserved :
       p \notin Anywhere(w) /\ o \in Stored(w.cpu) => p \in lost \/ o \in back

LEMMA InvFacts ==
  ASSUME PrefixInv
  PROVE  /\ cap \in Nat /\ spills \in BOOLEAN
         /\ CpuCapacityFor(cap) \in Nat /\ CpuBound \in Nat /\ CpuCapacityFor(cap) <= CpuBound
         /\ spills => CpuBound = CpuCapacityFor(cap) + 1
         /\ ~spills => CpuBound = 0 /\ CpuCapacityFor(cap) = 0 /\ Stored(cpu) = {}
         /\ Now.device = device /\ Now.cpu = cpu /\ Now.preserved = preserved
         /\ device \in Tiers /\ cpu \in Tiers /\ preserved \in SUBSET Hashes
         /\ Stored(device) \subseteq Hashes /\ Stored(cpu) \subseteq Hashes
         /\ Stored(device) \cap Stored(cpu) = {}
         /\ \A g \in Stored(device) : device.snaps[g] \in Snapshots
         /\ \A g \in Stored(cpu) : cpu.snaps[g] \in Snapshots
         /\ Size(device) \in Nat /\ Size(cpu) \in Nat
<1>1. cap \in Nat /\ spills \in BOOLEAN
  BY CapacitiesAssumption, SpillAssumption DEF PrefixInv
<1>2. CpuCapacityFor(cap) \in Nat /\ (~spills => CpuCapacityFor(cap) = 0)
  BY <1>1, RatioAssumption DEF CpuCapacityFor
<1>3. Now.device = device /\ Now.cpu = cpu /\ Now.preserved = preserved
  BY DEF Now
<1>4. /\ device \in Tiers /\ cpu \in Tiers /\ preserved \in SUBSET Hashes
      /\ TierOK(device, preserved) /\ TierOK(cpu, preserved)
      /\ Stored(device) \cap Stored(cpu) = {}
  <2>1. WorldOK(Now)
    BY DEF PrefixInv
  <2> QED
    BY <1>3, <2>1, WorldType DEF WorldOK
<1>5. /\ Stored(device) \subseteq Hashes /\ device.snaps \in [Stored(device) -> Snapshots]
      /\ Stored(cpu) \subseteq Hashes /\ cpu.snaps \in [Stored(cpu) -> Snapshots]
  BY <1>4, TierType
<1>6. /\ Size(device) \in Nat /\ Size(cpu) \in Nat
      /\ IsFiniteSet(Stored(cpu))
  BY <1>4, QueueFacts
<1>7. ASSUME ~spills PROVE CpuBound = 0 /\ Stored(cpu) = {}
  <2>1. CpuBound = 0
    BY <1>2, <1>7 DEF CpuBound
  <2>2. Size(cpu) = 0
    BY <1>6, <2>1 DEF PrefixInv
  <2> QED
    BY <1>6, <2>1, <2>2, FS_EmptySet DEF Size
<1>8. CpuBound \in Nat /\ CpuCapacityFor(cap) <= CpuBound
      /\ (spills => CpuBound = CpuCapacityFor(cap) + 1)
  BY <1>2 DEF CpuBound
<1> QED
  BY <1>1, <1>2, <1>3, <1>4, <1>5, <1>6, <1>7, <1>8

LEMMA MakeRoomFacts ==
  ASSUME PrefixInv, cap > 0, NEW w, WorldOK(w), NEW fails
  PROVE  LET v == MakeRoom(w, fails)
         IN /\ WorldOK(v) /\ Settled(w, v, {}) /\ DeviceOrderly(w, v)
            /\ Size(v.device) \in Nat /\ Size(v.device) < cap
            /\ StaysWithin(w, v, CpuCapacityFor(cap))
<1> DEFINE n == cap - 1
           limit == CpuCapacityFor(cap)
           v == ShrinkDevice(w, n, limit, fails)
<1>1. n \in Nat /\ limit \in Nat /\ cap \in Nat
  BY InvFacts
<1>2. v = MakeRoom(w, fails)
  BY DEF MakeRoom
<1> HIDE DEF n, limit
<1>3. /\ WorldOK(v) /\ Settled(w, v, {})
      /\ Size(v.device) \in Nat /\ Size(v.device) <= n
  BY <1>1, ShrinkDeviceFacts
<1>4. DeviceOrderly(w, v)
  BY <1>1, ShrinkDeviceFacts DEF DeviceOrderly
<1>5. StaysWithin(w, v, limit)
  BY <1>1, ShrinkDeviceFacts
<1> HIDE DEF v
<1>6. Size(v.device) < cap
  BY <1>1, <1>3 DEF n
<1> QED
  BY <1>2, <1>3, <1>4, <1>5, <1>6 DEF limit

LEMMA ReadyToCaptureFacts ==
  ASSUME PrefixInv, cap > 0, NEW h \in Hashes, NEW fails
  PROVE  LET v == ReadyToCapture(h, fails)
         IN /\ WorldOK(v) /\ Settled(Now, v, {h}) /\ DeviceOrderly(Now, v)
            /\ h \notin Stored(v.cpu)
            /\ h \in Stored(device) => v.device = device
            /\ h \notin Stored(device) => Size(v.device) < cap
            /\ Size(v.device) \in Nat /\ Size(v.device) <= cap
            /\ Size(v.cpu) \in Nat /\ Size(v.cpu) <= CpuBound
<1> DEFINE room == IF h \in Stored(device) THEN Now ELSE MakeRoom(Now, fails)
           v == [room EXCEPT !.cpu = Without(@, {h})]
<1>1. v = ReadyToCapture(h, fails)
  BY DEF ReadyToCapture
<1>2. WorldOK(Now)
  BY DEF PrefixInv
<1>3. /\ WorldOK(room) /\ Settled(Now, room, {}) /\ DeviceOrderly(Now, room)
      /\ h \in Stored(device) => room.device = device
      /\ h \notin Stored(device) => Size(room.device) < cap
      /\ Size(room.device) \in Nat /\ Size(room.device) <= cap
      /\ Size(room.cpu) <= CpuBound
  <2>1. CASE h \in Stored(device)
    <3>1. room = Now
      BY <2>1
    <3>2. DeviceOrderly(Now, Now)
      BY DEF DeviceOrderly
    <3>3. /\ Size(Now.device) \in Nat /\ Size(Now.device) <= cap
          /\ Size(Now.cpu) <= CpuBound /\ Now.device = device
      BY InvFacts DEF PrefixInv
    <3> HIDE DEF room
    <3> QED
      BY <1>2, <2>1, <3>1, <3>2, <3>3, SettledSelf
  <2>2. CASE h \notin Stored(device)
    <3>1. room = MakeRoom(Now, fails)
      BY <2>2
    <3> HIDE DEF room
    <3>2. /\ WorldOK(room) /\ Settled(Now, room, {}) /\ DeviceOrderly(Now, room)
          /\ Size(room.device) \in Nat /\ Size(room.device) < cap
          /\ StaysWithin(Now, room, CpuCapacityFor(cap))
      BY <1>2, <3>1, MakeRoomFacts
    <3>3. Size(room.cpu) <= CpuBound
      <4>1. /\ CpuBound \in Nat /\ CpuCapacityFor(cap) <= CpuBound
            /\ Size(Now.cpu) <= CpuBound
        BY InvFacts DEF PrefixInv
      <4> QED
        BY <3>2, <4>1 DEF StaysWithin
    <3>4. cap \in Nat
      BY InvFacts
    <3> QED
      BY <2>2, <3>2, <3>3, <3>4
  <2> QED
    BY <2>1, <2>2
<1> HIDE DEF room
<1>4. /\ WorldOK(v) /\ Settled(room, v, {h})
      /\ v.device = room.device
      /\ Stored(v.cpu) = Stored(room.cpu) \ {h}
      /\ Size(v.cpu) \in Nat /\ Size(room.cpu) \in Nat /\ Size(v.cpu) <= Size(room.cpu)
  BY <1>3, CopyTakenOut
<1> HIDE DEF v
<1>5. Settled(Now, v, {h})
  <2>1. Settled(Now, v, {} \cup {h})
    BY <1>2, <1>3, <1>4, SettledChain
  <2>2. {} \cup {h} = {h}
    OBVIOUS
  <2> QED
    BY <2>1, <2>2
<1>6. DeviceOrderly(Now, v)
  BY <1>3, <1>4 DEF DeviceOrderly
<1>7. Size(v.cpu) <= CpuBound
  <2>1. CpuBound \in Nat
    BY InvFacts
  <2> QED
    BY <1>3, <1>4, <2>1
<1>8. h \notin Stored(v.cpu)
  BY <1>4
<1> QED
  BY <1>1, <1>3, <1>4, <1>5, <1>6, <1>7, <1>8

LEMMA ReadyToPromoteFacts ==
  ASSUME PrefixInv, cap > 0, NEW h \in Stored(cpu), NEW fails
  PROVE  LET v == ReadyToPromote(h, fails)
         IN /\ WorldOK(v) /\ Settled(Now, v, {h}) /\ DeviceOrderly(Now, v)
            /\ h \notin Stored(v.cpu) /\ h \notin Stored(v.device) /\ h \notin Stored(device)
            /\ Size(v.device) \in Nat /\ Size(v.device) < cap
            /\ Size(v.cpu) \in Nat /\ Size(v.cpu) <= CpuCapacityFor(cap)
            /\ spills
<1> DEFINE out == [Now EXCEPT !.cpu = Without(@, {h})]
           v == MakeRoom(out, fails)
<1>1. v = ReadyToPromote(h, fails)
  BY DEF ReadyToPromote
<1>2. /\ WorldOK(Now) /\ Now.cpu = cpu /\ Now.device = device
      /\ Stored(device) \cap Stored(cpu) = {}
  BY InvFacts DEF PrefixInv
<1>3. /\ WorldOK(out) /\ Settled(Now, out, {h})
      /\ out.device = Now.device /\ out.preserved = Now.preserved
      /\ Stored(out.cpu) = Stored(Now.cpu) \ {h}
      /\ Size(out.cpu) \in Nat /\ Size(Now.cpu) \in Nat
      /\ h \in Stored(Now.cpu) => Size(out.cpu) = Size(Now.cpu) - 1
  BY <1>2, CopyTakenOut
<1> HIDE DEF out
<1>4. /\ WorldOK(v) /\ Settled(out, v, {}) /\ DeviceOrderly(out, v)
      /\ Size(v.device) \in Nat /\ Size(v.device) < cap
      /\ StaysWithin(out, v, CpuCapacityFor(cap))
  BY <1>3, MakeRoomFacts
<1> HIDE DEF v
<1>5. Settled(Now, v, {h})
  <2>1. Settled(Now, v, {h} \cup {})
    BY <1>2, <1>3, <1>4, SettledChain
  <2>2. {h} \cup {} = {h}
    OBVIOUS
  <2> QED
    BY <2>1, <2>2
<1>6. DeviceOrderly(Now, v)
  BY <1>3, <1>4 DEF DeviceOrderly
<1>7. h \notin Stored(v.cpu) /\ h \notin Stored(v.device) /\ h \notin Stored(device)
  BY <1>2, <1>3, <1>4 DEF Settled
<1>8. spills
  BY InvFacts
<1>9. Size(v.cpu) <= CpuCapacityFor(cap)
  <2>1. CpuCapacityFor(cap) \in Nat /\ Size(cpu) <= CpuCapacityFor(cap) + 1
    BY <1>8, InvFacts DEF PrefixInv
  <2>2. Size(out.cpu) <= CpuCapacityFor(cap)
    BY <1>2, <1>3, <2>1
  <2> QED
    BY <1>4, <2>1, <2>2 DEF StaysWithin
<1>10. Size(v.cpu) \in Nat
  BY <1>4, QueueFacts DEF WorldOK
<1> QED
  BY <1>1, <1>4, <1>5, <1>6, <1>7, <1>8, <1>9, <1>10

LEMMA BecomesWorld ==
  ASSUME NEW v \in Worlds, Becomes(v)
  PROVE  Now' = v /\ device' = v.device /\ cpu' = v.cpu /\ preserved' = v.preserved
BY WorldType DEF Becomes, Now

LEMMA StepKeepsInv ==
  ASSUME PrefixInv, UNCHANGED <<cap, spills>>, NEW v, Becomes(v), WorldOK(v),
         Size(v.device) <= cap, Size(v.cpu) <= CpuBound,
         ~spills => v.preserved \subseteq Anywhere(v)
  PROVE  PrefixInv' /\ Now' = v
<1>1. Now' = v /\ device' = v.device /\ cpu' = v.cpu /\ preserved' = v.preserved
  BY BecomesWorld DEF WorldOK
<1>2. CpuBound' = CpuBound
  BY DEF CpuBound, CpuCapacityFor
<1>3. MarksAreStored'
  BY <1>1 DEF MarksAreStored, StoredAnywhere, Anywhere
<1>4. Size(device)' <= cap' /\ Size(cpu)' <= CpuBound'
  <2>1. Size(device)' = Size(v.device) /\ Size(cpu)' = Size(v.cpu)
    BY <1>1 DEF Size, Stored
  <2> QED
    BY <1>2, <2>1
<1>5. WorldOK(Now)'
  <2>1. WorldOK(Now') = WorldOK(v)
    BY <1>1
  <2> QED
    BY <1>1, <2>1 DEF WorldOK, Worlds, Tiers, TierOK, Stored, Once, ToSet
<1> QED
  BY <1>1, <1>3, <1>4, <1>5 DEF PrefixInv

\* What the cache w yields for g, and that a step yields for the hashes outside
\* changed what was there before or nothing.
Found(w, g) == IF g \in Stored(w.device) THEN w.device.snaps[g]
               ELSE IF g \in Stored(w.cpu) THEN w.cpu.snaps[g]
               ELSE None
Keeps(v, w, changed) == \A g \in Hashes \ changed : Found(w, g) \in {Found(v, g), None}

LEMMA SettledKeeps ==
  ASSUME NEW v, NEW w, NEW X, WorldOK(v), Settled(v, w, X)
  PROVE  Keeps(v, w, {})
BY DEF Settled, WorldOK, Keeps, Found

LEMMA FoundType ==
  ASSUME NEW w, WorldOK(w), NEW g
  PROVE  Found(w, g) \in Snapshots \cup {None}
<1>1. w.device \in Tiers /\ w.cpu \in Tiers
  BY WorldType DEF WorldOK
<1>2. /\ w.device.snaps \in [Stored(w.device) -> Snapshots]
      /\ w.cpu.snaps \in [Stored(w.cpu) -> Snapshots]
  BY <1>1, TierType
<1> QED
  BY <1>2 DEF Found

LEMMA ResetStep ==
  ASSUME PrefixInv, cap' \in Capacities \cup {0}, spills' = spills,
         Becomes([device |-> EmptyTier, cpu |-> EmptyTier, preserved |-> {}])
  PROVE  PrefixInv' /\ Orderly(Now, Now', {}, {}, {}) /\ Keeps(Now, Now', {})
<1> DEFINE v == [device |-> EmptyTier, cpu |-> EmptyTier, preserved |-> {}]
<1>1. /\ TierOK(EmptyTier, {}) /\ Stored(EmptyTier) = {} /\ Size(EmptyTier) = 0
  BY EmptyTierOK
<1>2. v.device = EmptyTier /\ v.cpu = EmptyTier /\ v.preserved = {}
  OBVIOUS
<1>3. v \in Worlds
  BY <1>1 DEF Worlds, TierOK
<1>4. Becomes(v)
  OBVIOUS
<1> HIDE DEF v
<1>5. WorldOK(v)
  BY <1>1, <1>2, <1>3 DEF WorldOK
<1>6. Now' = v /\ device' = EmptyTier /\ cpu' = EmptyTier /\ preserved' = {}
  BY <1>2, <1>3, <1>4, BecomesWorld
<1>7. WorldOK(Now)'
  <2>1. WorldOK(Now') = WorldOK(v)
    BY <1>6
  <2> QED
    BY <1>5, <2>1 DEF WorldOK, Worlds, Tiers, TierOK, Stored, Once, ToSet
<1>8. Size(device)' = 0 /\ Size(cpu)' = 0
  BY <1>1, <1>6 DEF Size, Stored
<1>9. cap' \in Nat /\ spills' \in BOOLEAN /\ spills' \in Spilling
  BY CapacitiesAssumption, SpillAssumption DEF PrefixInv
<1>10. CpuBound' \in Nat
  <2>1. CpuCapacityFor(cap)' \in Nat
    <3>1. Multiplier \in Nat /\ cap' \in Nat
      BY <1>9, RatioAssumption
    <3>2. PICK c \in Nat : cap' = c
      BY <3>1
    <3>3. c * Multiplier \in Nat
      BY <3>1
    <3> QED
      BY <3>2, <3>3 DEF CpuCapacityFor
  <2> QED
    BY <2>1 DEF CpuBound
<1>11. MarksAreStored'
  BY <1>6 DEF MarksAreStored
<1>12. Orderly(Now, v, {}, {}, {})
  BY <1>1, <1>2 DEF Orderly, DeviceOrderly
<1>13. Keeps(Now, v, {})
  BY <1>1, <1>2 DEF Keeps, Found
<1> QED
  BY <1>6, <1>7, <1>8, <1>9, <1>10, <1>11, <1>12, <1>13 DEF PrefixInv

LEMMA SetPrefixCacheCapacityStep ==
  ASSUME PrefixInv, NEW capacity \in Capacities, NEW fails, SetPrefixCacheCapacity(capacity, fails)
  PROVE  PrefixInv' /\ Orderly(Now, Now', {}, {}, {}) /\ Keeps(Now, Now', {})
<1>1. cap' = capacity /\ spills' = spills
  BY DEF SetPrefixCacheCapacity
<1>2. CASE capacity = 0
  <2>1. Becomes([device |-> EmptyTier, cpu |-> EmptyTier, preserved |-> {}])
    BY <1>2 DEF SetPrefixCacheCapacity
  <2> QED
    BY <1>1, <2>1, ResetStep
<1>3. CASE capacity # 0
  <2> DEFINE limit == CpuCapacityFor(capacity)
             start == [Now EXCEPT !.cpu = IF limit = 0 THEN EmptyTier ELSE @]
             mid == ShrinkDevice(start, capacity, limit, fails)
             v == ShrinkCpu(mid, limit)
  <2>1. /\ capacity \in Nat /\ capacity > 0 /\ limit \in Nat
        /\ limit = 0 => ~spills
        /\ ~spills => limit = 0
    <3>1. capacity \in Nat /\ capacity > 0 /\ spills \in BOOLEAN
      BY <1>3, CapacitiesAssumption, InvFacts
    <3>2. Multiplier \in Nat /\ Multiplier > 0
      BY RatioAssumption
    <3>3. capacity * Multiplier \in Nat /\ capacity * Multiplier > 0
      BY <3>1, <3>2
    <3> QED
      BY <3>1, <3>3 DEF CpuCapacityFor
  <2>2. Becomes(v)
    BY <1>3 DEF SetPrefixCacheCapacity
  <2> HIDE DEF limit
  <2>3. WorldOK(start) /\ Settled(Now, start, {}) /\ DeviceOrderly(Now, start)
    <3>1. WorldOK(Now) /\ Now \in Worlds
      BY DEF PrefixInv, WorldOK
    <3>2. Settled(Now, Now, {}) /\ DeviceOrderly(Now, Now)
      BY SettledSelf DEF DeviceOrderly
    <3>3. CASE limit # 0
      <4>1. start = Now
        <5>1. Now = [device |-> device, cpu |-> cpu, preserved |-> preserved]
          BY DEF Now
        <5> QED
          BY <3>3, <5>1
      <4> QED
        BY <3>1, <3>2, <4>1
    <3>4. CASE limit = 0
      <4>1. start = [device |-> device, cpu |-> EmptyTier, preserved |-> preserved]
        BY <3>4 DEF Now
      <4> HIDE DEF start
      <4>2. Stored(cpu) = {} /\ Now.device = device /\ Now.cpu = cpu /\ Now.preserved = preserved
        BY <2>1, <3>4, InvFacts
      <4>3. start.device = device /\ start.cpu = EmptyTier /\ start.preserved = preserved
        BY <4>1
      <4>4. /\ TierOK(EmptyTier, preserved) /\ Stored(EmptyTier) = {}
        BY EmptyTierOK
      <4>5. start \in Worlds
        BY <4>1, <4>4, InvFacts DEF Worlds, TierOK
      <4>6. WorldOK(start)
        BY <3>1, <4>2, <4>3, <4>4, <4>5 DEF WorldOK
      <4>7. Settled(Now, start, {})
        BY <4>2, <4>3, <4>4 DEF Settled, Anywhere
      <4>8. DeviceOrderly(Now, start)
        BY <4>2, <4>3 DEF DeviceOrderly
      <4> QED
        BY <4>6, <4>7, <4>8
    <3> QED
      BY <3>3, <3>4
  <2>4. start.device = Now.device /\ start.preserved = Now.preserved
    BY DEF Now
  <2> HIDE DEF start
  <2>5. /\ WorldOK(mid) /\ Settled(start, mid, {})
        /\ Size(mid.device) \in Nat /\ Size(mid.device) <= capacity
    BY <2>1, <2>3, ShrinkDeviceFacts
  <2>6. DeviceOrderly(start, mid)
    BY <2>1, <2>3, ShrinkDeviceFacts DEF DeviceOrderly
  <2> HIDE DEF mid
  <2>7. PICK gone \in SUBSET Stored(mid.cpu) :
           /\ v = [device |-> mid.device, cpu |-> Without(mid.cpu, gone),
                   preserved |-> mid.preserved \ gone]
           /\ Size(v.cpu) <= limit
           /\ Size(mid.cpu) <= limit => gone = {}
           /\ \A p \in gone \cap mid.preserved : Stored(mid.cpu) \ mid.preserved \subseteq gone
    BY <2>1, <2>5, ShrinkCpuFacts
  <2> HIDE DEF v
  <2>8. WorldOK(v) /\ Settled(mid, v, {}) /\ v.device = mid.device /\ Size(v.cpu) \in Nat
    BY <2>5, <2>7, DroppedFacts
  <2>9. Settled(Now, v, {})
    <3>1. WorldOK(Now)
      BY DEF PrefixInv
    <3>2. Settled(Now, mid, {} \cup {})
      BY <2>3, <2>5, <3>1, SettledChain
    <3>3. Settled(Now, v, ({} \cup {}) \cup {})
      BY <2>8, <3>1, <3>2, SettledChain
    <3>4. ({} \cup {}) \cup {} = {}
      OBVIOUS
    <3> QED
      BY <3>3, <3>4
  <2>10. Orderly(Now, v, {}, {}, {})
    BY <2>4, <2>6, <2>8, <2>9 DEF Orderly, DeviceOrderly, Settled
  <2>16. Keeps(Now, v, {})
    BY <2>9, SettledKeeps DEF PrefixInv
  <2>11. Now' = v /\ device' = v.device /\ cpu' = v.cpu /\ preserved' = v.preserved
    BY <2>2, <2>8, BecomesWorld DEF WorldOK
  <2>12. WorldOK(Now)'
    <3>1. WorldOK(Now') = WorldOK(v)
      BY <2>11
    <3> QED
      BY <2>8, <2>11, <3>1 DEF WorldOK, Worlds, Tiers, TierOK, Stored, Once, ToSet
  <2>13. Size(device)' <= cap' /\ Size(cpu)' <= CpuBound'
    <3>1. Size(device)' = Size(v.device) /\ Size(cpu)' = Size(v.cpu)
      BY <2>11 DEF Size, Stored
    <3>2. CpuCapacityFor(cap)' = limit
      BY <1>1 DEF CpuCapacityFor, limit
    <3>3. CpuBound' = limit + (IF spills THEN 1 ELSE 0)
      BY <1>1, <3>2 DEF CpuBound
    <3> QED
      BY <1>1, <2>1, <2>5, <2>7, <2>8, <3>1, <3>3
  <2>14. MarksAreStored'
    <3> SUFFICES ASSUME ~spills PROVE v.preserved \subseteq Anywhere(v)
      BY <1>1, <2>11 DEF MarksAreStored, StoredAnywhere, Anywhere
    <3>1. Now.preserved \subseteq Anywhere(Now)
      BY InvFacts DEF PrefixInv, MarksAreStored, StoredAnywhere, Anywhere
    <3> QED
      BY <2>9, <3>1 DEF Settled
  <2>15. cap' \in Capacities /\ spills' \in Spilling
    BY <1>1 DEF PrefixInv
  <2> QED
    BY <2>10, <2>11, <2>12, <2>13, <2>14, <2>15, <2>16 DEF PrefixInv
<1> QED
  BY <1>2, <1>3

LEMMA RemovePrefixStateStep ==
  ASSUME PrefixInv, NEW h \in Hashes, RemovePrefixState(h)
  PROVE  /\ PrefixInv'
         /\ Now'.preserved \ Anywhere(Now') \subseteq Now.preserved \ Anywhere(Now)
         /\ preserved' = preserved \ {h}
         /\ Stored(device)' = Stored(device) \ {h}
         /\ Stored(cpu)' = Stored(cpu) \ {h}
         /\ Keeps(Now, Now', {})
<1> DEFINE D == Without(device, {h})
           C == Without(cpu, {h})
           M == preserved \ {h}
           v == [device |-> D, cpu |-> C, preserved |-> M]
<1>1. Becomes(v) /\ UNCHANGED <<cap, spills>>
  BY DEF RemovePrefixState
<1>2. /\ TierOK(device, preserved) /\ TierOK(cpu, preserved)
      /\ Stored(device) \cap Stored(cpu) = {}
  BY InvFacts DEF PrefixInv, WorldOK
<1>3. /\ M \cap (Stored(device) \ {h}) = preserved \cap (Stored(device) \ {h})
      /\ M \cap (Stored(cpu) \ {h}) = preserved \cap (Stored(cpu) \ {h})
  OBVIOUS
<1> HIDE DEF M
<1>4. /\ TierOK(D, M) /\ Stored(D) = Stored(device) \ {h}
      /\ \A g \in Stored(device) \ {h} : D.snaps[g] = device.snaps[g]
  BY <1>2, <1>3, WithoutFacts
<1>5. /\ TierOK(C, M) /\ Stored(C) = Stored(cpu) \ {h}
      /\ \A g \in Stored(cpu) \ {h} : C.snaps[g] = cpu.snaps[g]
  BY <1>2, <1>3, WithoutFacts
<1> HIDE DEF D, C
<1>6. v.device = D /\ v.cpu = C /\ v.preserved = M
  OBVIOUS
<1>7. v \in Worlds
  <2>1. M \in SUBSET Hashes
    BY InvFacts DEF M
  <2> QED
    BY <1>4, <1>5, <2>1 DEF Worlds, TierOK
<1> HIDE DEF v
<1>8. WorldOK(v)
  BY <1>2, <1>4, <1>5, <1>6, <1>7 DEF WorldOK
<1>9. Size(v.device) <= cap /\ Size(v.cpu) <= CpuBound
  <2>1. IsFiniteSet(Stored(device)) /\ IsFiniteSet(Stored(cpu))
    BY <1>2, QueueFacts
  <2>2. /\ Cardinality(Stored(D)) <= Cardinality(Stored(device))
        /\ Cardinality(Stored(C)) <= Cardinality(Stored(cpu))
    BY <1>4, <1>5, <2>1, FS_Subset
  <2>3. Size(D) \in Nat /\ Size(C) \in Nat
    BY <1>4, <1>5, QueueFacts
  <2>4. /\ Size(device) \in Nat /\ Size(cpu) \in Nat /\ cap \in Nat /\ CpuBound \in Nat
        /\ Size(device) <= cap /\ Size(cpu) <= CpuBound
    BY InvFacts DEF PrefixInv
  <2> QED
    BY <1>6, <2>2, <2>3, <2>4 DEF Size
<1>10. v.preserved \ Anywhere(v) \subseteq Now.preserved \ Anywhere(Now)
  BY <1>4, <1>5, <1>6, InvFacts DEF Anywhere, M
<1>11. ~spills => v.preserved \subseteq Anywhere(v)
  <2>1. ~spills => Now.preserved \subseteq Anywhere(Now)
    BY InvFacts DEF PrefixInv, MarksAreStored, StoredAnywhere, Anywhere
  <2> QED
    BY <1>10, <2>1
<1>12. PrefixInv' /\ Now' = v
  BY <1>1, <1>8, <1>9, <1>11, StepKeepsInv
<1>13. device' = D /\ cpu' = C /\ preserved' = M
  BY <1>1, <1>6, <1>7, BecomesWorld
<1>14. Stored(device)' = Stored(D) /\ Stored(cpu)' = Stored(C)
  BY <1>13 DEF Stored
<1>15. Keeps(Now, v, {})
  <2>1. \A g \in Hashes : Found(v, g) = IF g = h THEN None ELSE Found(Now, g)
    BY <1>4, <1>5, <1>6, InvFacts DEF Found
  <2> QED
    BY <2>1 DEF Keeps
<1> QED
  BY <1>4, <1>5, <1>10, <1>12, <1>13, <1>14, <1>15 DEF M

LEMMA CaptureFailsStep ==
  ASSUME PrefixInv, NEW h \in Hashes, NEW fails, CaptureFails(h, fails)
  PROVE  /\ PrefixInv'
         /\ Orderly(Now, Now', {h}, {h}, {})
         /\ Keeps(Now, Now', {})
<1> DEFINE v == ReadyToCapture(h, fails)
<1>1. cap > 0 /\ Becomes(v) /\ UNCHANGED <<cap, spills>>
  BY DEF CaptureFails
<1> HIDE DEF v
<1>2. /\ WorldOK(v) /\ Settled(Now, v, {h}) /\ DeviceOrderly(Now, v)
      /\ h \in Stored(device) => v.device = device
      /\ Size(v.device) <= cap
      /\ Size(v.cpu) <= CpuBound
  BY <1>1, ReadyToCaptureFacts DEF v
<1>3. Orderly(Now, v, {h}, {h}, {})
  BY <1>2 DEF Orderly, Settled
<1>4. ASSUME ~spills PROVE v.preserved \subseteq Anywhere(v)
  <2>1. /\ preserved \subseteq Stored(device) \cup Stored(cpu) /\ Stored(cpu) = {}
        /\ Now.preserved = preserved /\ Now.device = device /\ Now.cpu = cpu
    BY <1>4, InvFacts DEF PrefixInv, MarksAreStored, StoredAnywhere
  <2>2. h \in v.preserved => h \in Anywhere(v)
    BY <1>2, <2>1 DEF Settled, Anywhere
  <2>3. v.preserved \ Anywhere(v) \subseteq {h}
    BY <1>2, <2>1 DEF Settled, Anywhere
  <2> QED
    BY <2>2, <2>3
<1>5. PrefixInv' /\ Now' = v
  BY <1>1, <1>2, <1>4, StepKeepsInv
<1>6. Keeps(Now, v, {})
  BY <1>2, SettledKeeps DEF PrefixInv
<1> QED
  BY <1>3, <1>5, <1>6

\* A step that puts the snapshot of h on the device of r, once r is made of Now.
LEMMA StoreStep ==
  ASSUME PrefixInv, UNCHANGED <<cap, spills>>, NEW h \in Hashes, NEW snap \in Snapshots,
         NEW preserve \in BOOLEAN, NEW r, WorldOK(r), Settled(Now, r, {h}),
         DeviceOrderly(Now, r), h \notin Stored(r.cpu),
         h \in Stored(device) => r.device = device,
         h \notin Stored(device) => Size(r.device) < cap,
         Size(r.device) \in Nat, Size(r.device) <= cap, Size(r.cpu) <= CpuBound,
         Becomes(StoredOnDevice(r, h, snap, preserve))
  PROVE  /\ PrefixInv'
         /\ Orderly(Now, Now', {}, {}, {})
         /\ Keeps(Now, Now', {h}) /\ Found(Now', h) = snap
<1> DEFINE v == StoredOnDevice(r, h, snap, preserve)
<1>1. /\ WorldOK(v)
      /\ v.cpu = r.cpu
      /\ Stored(v.device) = Stored(r.device) \cup {h}
      /\ v.device.snaps[h] = snap
      /\ \A g \in Stored(r.device) \ {h} : v.device.snaps[g] = r.device.snaps[g]
      /\ r.preserved \subseteq v.preserved /\ v.preserved \subseteq r.preserved \cup {h}
      /\ Size(v.device) \in Nat
      /\ h \in Stored(r.device) => Size(v.device) = Size(r.device)
      /\ Size(v.device) <= Size(r.device) + 1
  BY StoredOnDeviceFacts
<1> HIDE DEF v
<1>2. cap \in Nat /\ Now.device = device /\ Now.preserved = preserved /\ Now.cpu = cpu
  BY InvFacts
<1>3. Size(v.device) <= cap
  <2>1. CASE h \in Stored(device)
    BY <1>1, <1>2, <2>1
  <2>2. CASE h \notin Stored(device)
    BY <1>1, <1>2, <2>2
  <2> QED
    BY <2>1, <2>2
<1>4. DeviceOrderly(Now, v)
  <2> SUFFICES ASSUME NEW p \in preserved, p \in Stored(device) \ Stored(v.device)
               PROVE  Stored(v.device) \cap (Stored(device) \ preserved) = {}
    BY <1>2 DEF DeviceOrderly
  <2>1. p \in Stored(device) \ Stored(r.device)
    BY <1>1
  <2>2. Stored(r.device) \cap (Stored(device) \ preserved) = {}
    BY <1>2, <2>1 DEF DeviceOrderly
  <2>3. h \notin Stored(device)
    BY <2>1
  <2> QED
    BY <1>1, <2>2, <2>3
<1>5. Orderly(Now, v, {}, {}, {})
  <2>1. v.preserved \ Anywhere(v) \subseteq Now.preserved \ Anywhere(Now)
    BY <1>1 DEF Settled, Anywhere
  <2>2. ASSUME NEW p \in Now.preserved \cap Stored(Now.cpu),
               NEW o \in Stored(Now.cpu) \ Now.preserved,
               p \notin Anywhere(v), o \in Stored(v.cpu)
        PROVE  FALSE
    <3>1. p # h /\ p \notin Anywhere(r) /\ o \in Stored(r.cpu)
      BY <1>1, <2>2 DEF Anywhere
    <3> QED
      BY <3>1 DEF Settled
  <2> QED
    BY <1>4, <2>1, <2>2 DEF Orderly
<1>6. ~spills => v.preserved \subseteq Anywhere(v)
  <2>1. ~spills => Now.preserved \subseteq Anywhere(Now)
    BY <1>2 DEF PrefixInv, MarksAreStored, StoredAnywhere, Anywhere
  <2> QED
    BY <1>5, <2>1 DEF Orderly
<1>7. Becomes(v) /\ Size(v.cpu) <= CpuBound
  BY <1>1 DEF v
<1>8. PrefixInv' /\ Now' = v
  BY <1>1, <1>3, <1>6, <1>7, StepKeepsInv
<1>9. Keeps(Now, r, {})
  BY SettledKeeps DEF PrefixInv
<1>10. Found(v, h) = snap /\ \A g \in Hashes \ {h} : Found(v, g) = Found(r, g)
  BY <1>1 DEF Found
<1>11. Keeps(Now, v, {h})
  BY <1>9, <1>10 DEF Keeps
<1> QED
  BY <1>5, <1>8, <1>10, <1>11

LEMMA CaptureStep ==
  ASSUME PrefixInv, NEW h \in Hashes, NEW snap \in Snapshots, NEW preserve \in BOOLEAN,
         NEW fails, CapturePrefixState(h, snap, preserve, fails)
  PROVE  /\ PrefixInv' /\ Orderly(Now, Now', {}, {}, {})
         /\ Keeps(Now, Now', {h}) /\ Found(Now', h) = snap
<1> DEFINE r == ReadyToCapture(h, fails)
<1>1. /\ cap > 0 /\ UNCHANGED <<cap, spills>>
      /\ Becomes(StoredOnDevice(r, h, snap, preserve))
  BY DEF CapturePrefixState
<1>2. /\ WorldOK(r) /\ Settled(Now, r, {h}) /\ DeviceOrderly(Now, r)
      /\ h \notin Stored(r.cpu)
      /\ h \in Stored(device) => r.device = device
      /\ h \notin Stored(device) => Size(r.device) < cap
      /\ Size(r.device) \in Nat /\ Size(r.device) <= cap
      /\ Size(r.cpu) \in Nat /\ Size(r.cpu) <= CpuBound
  BY <1>1, ReadyToCaptureFacts
<1> HIDE DEF r
<1>3. /\ PrefixInv' /\ Orderly(Now, Now', {}, {}, {})
      /\ Keeps(Now, Now', {h}) /\ Found(Now', h) = snap
  BY <1>1, <1>2, StoreStep
<1> QED
  BY <1>3

LEMMA RestoreFromDeviceStep ==
  ASSUME PrefixInv, NEW h \in Hashes, RestoreFromDevice(h)
  PROVE  /\ PrefixInv' /\ Orderly(Now, Now', {}, {}, {}) /\ Keeps(Now, Now', {})
         /\ Found(Now', h) = Found(Now, h)
<1> DEFINE snap == device.snaps[h]
<1>1. /\ cap > 0 /\ h \in Stored(device) /\ UNCHANGED <<cap, spills>>
      /\ Becomes(StoredOnDevice(Now, h, snap, FALSE))
  BY DEF RestoreFromDevice
<1>2. snap \in Snapshots /\ Now.device = device /\ Now.cpu = cpu
  BY <1>1, InvFacts
<1>3. WorldOK(Now) /\ DeviceOrderly(Now, Now) /\ h \notin Stored(Now.cpu)
  BY <1>1, <1>2, InvFacts DEF PrefixInv, DeviceOrderly
<1>4. Settled(Now, Now, {h})
  BY DEF Settled, Anywhere
<1>5. Size(Now.device) \in Nat /\ Size(Now.device) <= cap /\ Size(Now.cpu) <= CpuBound
  BY <1>2, InvFacts DEF PrefixInv
<1> HIDE DEF snap
<1>6. /\ PrefixInv' /\ Orderly(Now, Now', {}, {}, {})
      /\ Keeps(Now, Now', {h}) /\ Found(Now', h) = snap
  BY <1>1, <1>2, <1>3, <1>4, <1>5, StoreStep
<1>9. Found(Now, h) = snap
  BY <1>1, <1>2 DEF Found, snap
<1> QED
  BY <1>6, <1>9 DEF Keeps

LEMMA RestoreFromCpuStep ==
  ASSUME PrefixInv, NEW h \in Hashes, NEW fails, RestoreFromCpu(h, fails)
  PROVE  /\ PrefixInv' /\ Orderly(Now, Now', {}, {}, {}) /\ Keeps(Now, Now', {})
         /\ Found(Now', h) = Found(Now, h)
<1> DEFINE snap == cpu.snaps[h]
           r == ReadyToPromote(h, fails)
<1>1. /\ cap > 0 /\ h \in Stored(cpu) /\ h \notin Stored(device) /\ UNCHANGED <<cap, spills>>
      /\ Becomes(StoredOnDevice(r, h, snap, FALSE))
  BY DEF RestoreFromCpu
<1>2. snap \in Snapshots /\ Now.device = device /\ Now.cpu = cpu
  BY <1>1, InvFacts
<1>3. /\ WorldOK(r) /\ Settled(Now, r, {h}) /\ DeviceOrderly(Now, r)
      /\ h \notin Stored(r.cpu)
      /\ Size(r.device) \in Nat /\ Size(r.device) < cap
      /\ Size(r.cpu) \in Nat /\ Size(r.cpu) <= CpuCapacityFor(cap)
  BY <1>1, ReadyToPromoteFacts
<1>4. Size(r.device) <= cap /\ Size(r.cpu) <= CpuBound
  BY <1>3, InvFacts
<1> HIDE DEF snap, r
<1>6. /\ PrefixInv' /\ Orderly(Now, Now', {}, {}, {})
      /\ Keeps(Now, Now', {h}) /\ Found(Now', h) = snap
  BY <1>1, <1>2, <1>3, <1>4, StoreStep
<1>9. Found(Now, h) = snap
  BY <1>1, <1>2 DEF Found, snap
<1> QED
  BY <1>6, <1>9 DEF Keeps

LEMMA RestoreFromCpuFailsStep ==
  ASSUME PrefixInv, NEW h \in Hashes, NEW fails, RestoreFromCpuFails(h, fails)
  PROVE  PrefixInv' /\ Orderly(Now, Now', {}, {}, {h}) /\ Keeps(Now, Now', {})
<1> DEFINE snap == cpu.snaps[h]
           r == ReadyToPromote(h, fails)
           keep == h \in r.preserved
           C == Touched(With(r.cpu, h, snap), h, keep)
           v == [device |-> r.device, cpu |-> C, preserved |-> r.preserved]
<1>1. /\ cap > 0 /\ h \in Stored(cpu) /\ h \notin Stored(device) /\ UNCHANGED <<cap, spills>>
      /\ Becomes([r EXCEPT !.cpu = Touched(With(@, h, snap), h, keep)])
  BY DEF RestoreFromCpuFails
<1>2. snap \in Snapshots /\ Now.device = device /\ Now.cpu = cpu /\ cap \in Nat
  BY <1>1, InvFacts
<1>3. /\ WorldOK(r) /\ Settled(Now, r, {h}) /\ DeviceOrderly(Now, r)
      /\ h \notin Stored(r.cpu) /\ h \notin Stored(r.device)
      /\ Size(r.device) \in Nat /\ Size(r.device) < cap
      /\ Size(r.cpu) \in Nat /\ Size(r.cpu) <= CpuCapacityFor(cap)
      /\ spills
  BY <1>1, ReadyToPromoteFacts
<1>4. /\ r \in Worlds /\ TierOK(r.device, r.preserved) /\ TierOK(r.cpu, r.preserved)
      /\ Stored(r.device) \cap Stored(r.cpu) = {}
      /\ r.device \in Tiers /\ r.cpu \in Tiers /\ r.preserved \in SUBSET Hashes
  BY <1>3, WorldType DEF WorldOK
<1>5. /\ keep \in BOOLEAN /\ (keep <=> h \in r.preserved)
      /\ r.preserved \cap (Stored(r.cpu) \ {h}) = r.preserved \cap (Stored(r.cpu) \ {h})
  OBVIOUS
<1> HIDE DEF snap, r, keep
<1>6. /\ TierOK(C, r.preserved)
      /\ Stored(C) = Stored(r.cpu) \cup {h}
      /\ C.snaps[h] = snap
      /\ \A g \in Stored(r.cpu) \ {h} : C.snaps[g] = r.cpu.snaps[g]
  BY <1>2, <1>4, <1>5, PutFacts
<1>7. [r EXCEPT !.cpu = Touched(With(@, h, snap), h, keep)] = v
  <2>1. [r EXCEPT !.cpu = Touched(With(@, h, snap), h, keep)] = [r EXCEPT !.cpu = C]
    OBVIOUS
  <2> HIDE DEF C
  <2>2. [r EXCEPT !.cpu = C] = v
    BY <1>4, WorldExcept
  <2> QED
    BY <2>1, <2>2
<1> HIDE DEF C
<1>8. v.device = r.device /\ v.cpu = C /\ v.preserved = r.preserved /\ v \in Worlds
  BY <1>4, <1>6 DEF Worlds, TierOK
<1>9. Becomes(v)
  BY <1>1, <1>7
<1> HIDE DEF v
<1>10. WorldOK(v)
  BY <1>3, <1>4, <1>6, <1>8 DEF WorldOK
<1>11. Size(v.device) <= cap /\ Size(v.cpu) <= CpuBound
  <2>1. IsFiniteSet(Stored(r.cpu))
    BY <1>4, QueueFacts
  <2>2. Cardinality(Stored(C)) = Cardinality(Stored(r.cpu)) + 1
    BY <1>3, <1>6, <2>1, FS_AddElement
  <2>3. CpuBound = CpuCapacityFor(cap) + 1 /\ CpuCapacityFor(cap) \in Nat
    BY <1>3, InvFacts
  <2> QED
    BY <1>2, <1>3, <1>8, <2>2, <2>3 DEF Size
<1>12. PrefixInv' /\ Now' = v
  BY <1>1, <1>3, <1>9, <1>10, <1>11, StepKeepsInv
<1>13. Anywhere(v) = Anywhere(r) \cup {h}
  BY <1>6, <1>8 DEF Anywhere
<1>14. Orderly(Now, v, {}, {}, {h})
  <2>1. DeviceOrderly(Now, v)
    BY <1>3, <1>8 DEF DeviceOrderly
  <2>2. v.preserved \ Anywhere(v) \subseteq Now.preserved \ Anywhere(Now)
    BY <1>3, <1>8, <1>13 DEF Settled
  <2>3. ASSUME NEW p \in Now.preserved \cap Stored(Now.cpu),
               NEW o \in Stored(Now.cpu) \ Now.preserved,
               p \notin Anywhere(v), o \in Stored(v.cpu)
        PROVE  o = h
    BY <1>3, <1>6, <1>8, <1>13, <2>3 DEF Settled
  <2> QED
    BY <2>1, <2>2, <2>3 DEF Orderly
<1>15. Keeps(Now, v, {})
  <2>1. Keeps(Now, r, {})
    BY <1>3, SettledKeeps DEF PrefixInv
  <2>2. \A g \in Hashes \ {h} : Found(v, g) = Found(r, g)
    BY <1>6, <1>8 DEF Found
  <2>3. Found(v, h) = snap /\ Found(Now, h) = snap
    BY <1>1, <1>2, <1>3, <1>6, <1>8 DEF Found, snap
  <2> QED
    BY <2>1, <2>2, <2>3 DEF Keeps
<1> QED
  BY <1>12, <1>14, <1>15

-------------------------------------------------------------------------------
(* The steps of the specification.                                           *)

LEMMA MaintainStep ==
  ASSUME PrefixInv, Maintain
  PROVE  /\ PrefixInv' /\ Keeps(Now, Now', {})
         /\ \/ Orderly(Now, Now', {}, {}, {})
            \/ \E h \in Hashes : RemovePrefixState(h)
            \/ \E h \in Hashes, fails \in SUBSET Stored(device) :
                 CaptureFails(h, fails) /\ Orderly(Now, Now', {h}, {h}, {})
<1>1. CASE ResetPrefixes
  <2>1. /\ cap' \in Capacities \cup {0} /\ spills' = spills
        /\ Becomes([device |-> EmptyTier, cpu |-> EmptyTier, preserved |-> {}])
    BY <1>1 DEF ResetPrefixes, PrefixInv
  <2> QED
    BY <2>1, ResetStep
<1>2. ASSUME NEW h \in Hashes, RemovePrefixState(h)
      PROVE  PrefixInv' /\ Keeps(Now, Now', {})
  BY <1>2, RemovePrefixStateStep
<1>3. ASSUME NEW fails \in SUBSET Stored(device), NEW capacity \in Capacities,
             SetPrefixCacheCapacity(capacity, fails)
      PROVE  PrefixInv' /\ Keeps(Now, Now', {}) /\ Orderly(Now, Now', {}, {}, {})
  BY <1>3, SetPrefixCacheCapacityStep
<1>4. ASSUME NEW fails \in SUBSET Stored(device), NEW h \in Hashes, CaptureFails(h, fails)
      PROVE  PrefixInv' /\ Keeps(Now, Now', {}) /\ Orderly(Now, Now', {h}, {h}, {})
  BY <1>4, CaptureFailsStep
<1> QED
  BY <1>1, <1>2, <1>3, <1>4 DEF Maintain

LEMMA UseStep ==
  ASSUME PrefixInv, NEW h \in Hashes, Use(h)
  PROVE  PrefixInv' /\ Orderly(Now, Now', {}, {}, {})
BY RestoreFromDeviceStep, RestoreFromCpuStep, CaptureStep DEF Use

LEMMA NextStep ==
  ASSUME PrefixInv, PrefixNext
  PROVE  /\ PrefixInv'
         /\ \/ Orderly(Now, Now', {}, {}, {})
            \/ \E h \in Hashes : RemovePrefixState(h)
            \/ \E h \in Hashes, fails \in SUBSET Stored(device) :
                 CaptureFails(h, fails) /\ Orderly(Now, Now', {h}, {h}, {})
            \/ \E h \in Hashes, fails \in SUBSET Stored(device) :
                 RestoreFromCpuFails(h, fails) /\ Orderly(Now, Now', {}, {}, {h})
<1>1. CASE Maintain
  BY <1>1, MaintainStep
<1>2. ASSUME NEW h \in Hashes, Use(h)
      PROVE  PrefixInv' /\ Orderly(Now, Now', {}, {}, {})
  BY <1>2, UseStep
<1>3. ASSUME NEW h \in Hashes, NEW fails \in SUBSET Stored(device),
             RestoreFromCpuFails(h, fails)
      PROVE  PrefixInv' /\ Orderly(Now, Now', {}, {}, {h})
  BY <1>3, RestoreFromCpuFailsStep
<1> QED
  BY <1>1, <1>2, <1>3 DEF PrefixNext

LEMMA PrefixInitInv ==
  ASSUME PrefixInit
  PROVE  PrefixInv
<1>1. /\ device = EmptyTier /\ cpu = EmptyTier /\ preserved = {} /\ cap = 0
      /\ spills \in Spilling
  BY DEF PrefixInit
<1>2. TierOK(EmptyTier, {}) /\ Stored(EmptyTier) = {} /\ Size(EmptyTier) = 0
  BY EmptyTierOK
<1>3. Now \in Worlds
  BY <1>1, <1>2 DEF Now, Worlds, TierOK
<1>4. WorldOK(Now)
  <2>1. Now.device = EmptyTier /\ Now.cpu = EmptyTier /\ Now.preserved = {}
    BY <1>1 DEF Now
  <2> QED
    BY <1>2, <1>3, <2>1 DEF WorldOK
<1>5. CpuBound \in Nat
  <2>1. Multiplier \in Nat /\ 0 * Multiplier = 0
    BY RatioAssumption
  <2> QED
    BY <1>1, <2>1 DEF CpuBound, CpuCapacityFor
<1>6. MarksAreStored
  BY <1>1 DEF MarksAreStored
<1> QED
  BY <1>1, <1>2, <1>4, <1>5, <1>6 DEF PrefixInv

LEMMA StutterInv ==
  ASSUME PrefixInv, UNCHANGED prefixVars
  PROVE  PrefixInv'
<1>1. /\ cap' = cap /\ device' = device /\ cpu' = cpu /\ preserved' = preserved
      /\ spills' = spills
  BY DEF prefixVars
<1>2. Now' = Now /\ CpuBound' = CpuBound
  BY <1>1 DEF Now, CpuBound, CpuCapacityFor
<1>3. WorldOK(Now)'
  <2>1. WorldOK(Now') = WorldOK(Now)
    BY <1>2
  <2> QED
    BY <2>1 DEF PrefixInv, WorldOK, Worlds, Tiers, TierOK, Stored, Once, ToSet
<1>4. Size(device)' = Size(device) /\ Size(cpu)' = Size(cpu)
  BY <1>1 DEF Size, Stored
<1>5. MarksAreStored'
  BY <1>1 DEF PrefixInv, MarksAreStored, StoredAnywhere, Stored
<1> QED
  BY <1>1, <1>2, <1>3, <1>4, <1>5 DEF PrefixInv

LEMMA InvIsInvariant == PrefixSpec => []PrefixInv
<1>1. PrefixInit => PrefixInv
  BY PrefixInitInv
<1>2. PrefixInv /\ [PrefixNext]_prefixVars => PrefixInv'
  BY NextStep, StutterInv
<1> QED
  BY <1>1, <1>2, PTL DEF PrefixSpec

\* The queues, maps and marks of the cache have their types.
THEOREM Typed == PrefixSpec => []PrefixTypeOK
<1>1. PrefixInv => PrefixTypeOK
  BY InvFacts DEF PrefixInv, PrefixTypeOK
<1> QED
  BY <1>1, InvIsInvariant, PTL

\* The two queues of each tier list its snapshots exactly once, each in the queue
\* of its class, after any of the operations that edit maps, marks and queues apart.
THEOREM QueuesAlwaysListTiers == PrefixSpec => []QueuesListTiers
<1>1. ASSUME NEW tier, TierOK(tier, preserved)
      PROVE  QueueListsTier(tier)
  BY <1>1, QueueFacts DEF QueueListsTier, TierOK
<1>2. ASSUME PrefixInv PROVE QueuesListTiers
  <2>1. TierOK(device, preserved) /\ TierOK(cpu, preserved)
    BY <1>2, InvFacts DEF PrefixInv, WorldOK
  <2> QED
    BY <1>1, <2>1 DEF QueuesListTiers
<1> QED
  BY <1>2, InvIsInvariant, PTL

\* A hash never has a snapshot in both tiers.
THEOREM TiersStayDisjoint == PrefixSpec => []TiersDisjoint
<1>1. PrefixInv => TiersDisjoint
  BY InvFacts DEF TiersDisjoint
<1> QED
  BY <1>1, InvIsInvariant, PTL

\* The device tier never holds more than the capacity in force.
THEOREM DeviceStaysWithinCapacity == PrefixSpec => []DeviceWithinCapacity
<1>1. PrefixInv => DeviceWithinCapacity
  BY DEF PrefixInv, DeviceWithinCapacity
<1> QED
  BY <1>1, InvIsInvariant, PTL

\* The CPU tier exceeds its capacity by at most the snapshot put back by a failed
\* promotion, however many promotions fail one after the other.
THEOREM CpuStaysWithinCapacityPlusOne == PrefixSpec => []CpuWithinCapacityPlusOne
<1>1. PrefixInv => CpuWithinCapacityPlusOne
  BY DEF PrefixInv, CpuWithinCapacityPlusOne, CpuBound
<1> QED
  BY <1>1, InvIsInvariant, PTL

\* Making room always makes room: no capture or promotion is refused for want of it.
THEOREM RoomIsAlwaysMade == PrefixSpec => []MakeRoomSucceeds
<1>1. ASSUME PrefixInv PROVE MakeRoomSucceeds
  <2> SUFFICES ASSUME cap > 0, NEW fails \in SUBSET Stored(device)
               PROVE  HasRoom(MakeRoom(Now, fails))
    BY DEF MakeRoomSucceeds
  <2> QED
    BY <1>1, MakeRoomFacts DEF HasRoom, PrefixInv
<1> QED
  BY <1>1, InvIsInvariant, PTL

\* A build that cannot spill never keeps the mark of a snapshot it has lost.
THEOREM MarksStayWithSnapshots == PrefixSpec => []MarksAreStored
<1>1. PrefixInv => MarksAreStored
  BY DEF PrefixInv
<1> QED
  BY <1>1, InvIsInvariant, PTL

LEMMA NowFields ==
  /\ Now.device = device /\ Now.cpu = cpu /\ Now.preserved = preserved
  /\ Now'.device = device' /\ Now'.cpu = cpu' /\ Now'.preserved = preserved'
  /\ Anywhere(Now) = StoredAnywhere /\ Anywhere(Now') = StoredAnywhere'
  /\ Stored(device)' = Stored(device') /\ Stored(cpu)' = Stored(cpu')
BY DEF Now, Anywhere, StoredAnywhere, Stored

\* Evictions of every operation spare the preserved snapshots of the device tier
\* while an ordinary one is left there.
THEOREM PreservedAreEvictedLast == PrefixSpec => PreservedLeaveDeviceLast
<1>1. ASSUME PrefixInv, PrefixNext
      PROVE  \/ \E h \in Hashes : RemovePrefixState(h)
             \/ (\E h \in preserved : h \in Stored(device) \ Stored(device)')
                  => Stored(device)' \cap (Stored(device) \ preserved) = {}
  <2>1. \/ \E h \in Hashes : RemovePrefixState(h)
        \/ DeviceOrderly(Now, Now')
    BY <1>1, NextStep DEF Orderly
  <2> QED
    BY <2>1, NowFields DEF DeviceOrderly
<1> QED
  BY <1>1, InvIsInvariant, PTL DEF PrefixSpec, PreservedLeaveDeviceLast

\* Only a failed capture leaves a mark without a snapshot behind.
THEOREM OnlyFailedCapturesLeaveMarks == PrefixSpec => MarksOutliveOnlyFailedCaptures
<1>1. ASSUME PrefixInv, PrefixNext
      PROVE  \A h \in preserved' \ StoredAnywhere' :
               \/ h \in preserved \ StoredAnywhere
               \/ \E fails \in SUBSET Stored(device) : CaptureFails(h, fails)
  <2> SUFFICES ASSUME NEW g \in preserved', g \notin StoredAnywhere',
                      g \notin preserved \ StoredAnywhere
               PROVE  \E fails \in SUBSET Stored(device) : CaptureFails(g, fails)
    OBVIOUS
  <2>1. ASSUME NEW left, NEW lost, NEW back, Orderly(Now, Now', left, lost, back)
        PROVE  g \in left
    BY <2>1, NowFields DEF Orderly
  <2>2. ASSUME NEW h \in Hashes, RemovePrefixState(h) PROVE FALSE
    BY <1>1, <2>2, RemovePrefixStateStep, NowFields
  <2>3. ~Orderly(Now, Now', {}, {}, {})
    BY <2>1
  <2>4. ASSUME NEW h \in Hashes PROVE ~Orderly(Now, Now', {}, {}, {h})
    BY <2>1
  <2>5. PICK h \in Hashes, fails \in SUBSET Stored(device) :
           CaptureFails(h, fails) /\ Orderly(Now, Now', {h}, {h}, {})
    BY <1>1, <2>2, <2>3, <2>4, NextStep
  <2>6. g = h
    BY <2>1, <2>5
  <2> QED
    BY <2>5, <2>6
<1> QED
  BY <1>1, InvIsInvariant, PTL DEF PrefixSpec, MarksOutliveOnlyFailedCaptures

\* Of the CPU snapshots the preserved ones are lost last, but for a failed
\* recapture and for what a failed promotion puts back.
THEOREM PreservedAreDroppedLast == PrefixSpec => PreservedLeaveCpuLast
<1>1. ASSUME PrefixInv, PrefixNext
      PROVE  \A p \in preserved \cap Stored(cpu), o \in Stored(cpu) \ preserved :
               p \notin StoredAnywhere' /\ o \in Stored(cpu)' =>
                 \/ RemovePrefixState(p)
                 \/ \E fails \in SUBSET Stored(device) :
                      CaptureFails(p, fails) \/ RestoreFromCpuFails(o, fails)
  <2> SUFFICES ASSUME NEW p \in preserved \cap Stored(cpu),
                      NEW o \in Stored(cpu) \ preserved,
                      p \notin StoredAnywhere', o \in Stored(cpu)'
               PROVE  \/ RemovePrefixState(p)
                      \/ \E fails \in SUBSET Stored(device) :
                           CaptureFails(p, fails) \/ RestoreFromCpuFails(o, fails)
    OBVIOUS
  <2>1. ASSUME NEW left, NEW lost, NEW back, Orderly(Now, Now', left, lost, back)
        PROVE  p \in lost \/ o \in back
    BY <2>1, NowFields DEF Orderly
  <2>2. ASSUME NEW h \in Hashes, RemovePrefixState(h)
        PROVE  RemovePrefixState(p)
    <3>1. Stored(cpu)' = Stored(cpu) \ {h}
      BY <1>1, <2>2, RemovePrefixStateStep
    <3>2. p = h
      BY <3>1 DEF StoredAnywhere
    <3> QED
      BY <2>2, <3>2
  <2>3. ~Orderly(Now, Now', {}, {}, {})
    BY <2>1
  <2>4. ASSUME NEW h \in Hashes, NEW fails \in SUBSET Stored(device),
               CaptureFails(h, fails), Orderly(Now, Now', {h}, {h}, {})
        PROVE  CaptureFails(p, fails)
    <3>1. p = h
      BY <2>1, <2>4
    <3> QED
      BY <2>4, <3>1
  <2>5. ASSUME NEW h \in Hashes, NEW fails \in SUBSET Stored(device),
               RestoreFromCpuFails(h, fails), Orderly(Now, Now', {}, {}, {h})
        PROVE  RestoreFromCpuFails(o, fails)
    <3>1. o = h
      BY <2>1, <2>5
    <3> QED
      BY <2>5, <3>1
  <2> QED
    BY <1>1, <2>2, <2>3, <2>4, <2>5, NextStep
<1> QED
  BY <1>1, InvIsInvariant, PTL DEF PrefixSpec, PreservedLeaveCpuLast

-------------------------------------------------------------------------------
(* The refinement of SnapshotStore.                                          *)

StoreOf(w) == [h \in Hashes |-> Found(w, h)]

LEMMA MappedStore ==
  /\ [h \in Hashes |-> IF h \in Stored(device) THEN device.snaps[h]
                       ELSE IF h \in Stored(cpu) THEN cpu.snaps[h]
                       ELSE None] = StoreOf(Now)
  /\ [h \in Hashes |-> IF h \in Stored(device) THEN device.snaps[h]
                       ELSE IF h \in Stored(cpu) THEN cpu.snaps[h]
                       ELSE None]' = StoreOf(Now')
BY NowFields DEF StoreOf, Found, Stored

\* A step that keeps what it does not change loses, at worst.
LEMMA LosesOutside ==
  ASSUME PrefixInv', NEW changed, Keeps(Now, Now', changed)
  PROVE  Store!OnlyLosesOutside(changed)
<1>1. /\ StoreOf(Now) = [h \in Hashes |-> Found(Now, h)]
      /\ StoreOf(Now') = [h \in Hashes |-> Found(Now', h)]
  BY DEF StoreOf
<1>2. WorldOK(Now')
  <2>1. WorldOK(Now)'
    BY DEF PrefixInv
  <2> QED
    BY <2>1 DEF WorldOK, Worlds, Tiers, TierOK, Stored, Once, ToSet
<1>3. StoreOf(Now') \in [Hashes -> Snapshots \cup {None}]
  BY <1>1, <1>2, FoundType
<1>4. \A h \in Hashes \ changed : StoreOf(Now')[h] \in {StoreOf(Now)[h], None}
  BY <1>1 DEF Keeps
<1> QED
  BY <1>3, <1>4, MappedStore DEF Store!OnlyLosesOutside

LEMMA HInvIsInvariant == HSpec => []PrefixInv
<1>1. HInit => PrefixInv
  BY PrefixInitInv DEF HInit
<1>2. PrefixInv /\ [HNext]_historyVars => PrefixInv'
  <2> SUFFICES ASSUME PrefixInv, [HNext]_historyVars PROVE PrefixInv'
    OBVIOUS
  <2>1. CASE UNCHANGED historyVars
    BY <2>1, StutterInv DEF historyVars, prefixVars
  <2>2. CASE HMaintain
    BY <2>2, MaintainStep DEF HMaintain
  <2>3. ASSUME NEW h \in Hashes, NEW snap \in Snapshots, HCapture(h, snap) PROVE PrefixInv'
    BY <2>3, CaptureStep DEF HCapture
  <2>4. ASSUME NEW h \in Hashes, HRestore(h) PROVE PrefixInv'
    BY <2>4, RestoreFromDeviceStep, RestoreFromCpuStep DEF HRestore
  <2>5. ASSUME NEW h \in Hashes, HFailedUse(h) PROVE PrefixInv'
    BY <2>5, RestoreFromCpuFailsStep DEF HFailedUse
  <2> QED
    BY <2>1, <2>2, <2>3, <2>4, <2>5 DEF HNext
<1> QED
  BY <1>1, <1>2, PTL DEF HSpec

\* Whatever moves between the tiers, fails or is evicted, a hash yields the
\* snapshot of its last reported capture or nothing.
THEOREM RefinesSnapshotStore == HSpec => ImplementsSnapshotStore
<1>1. HInit => Store!Init
  BY DEF HInit, PrefixInit, Store!Init, Stored, EmptyTier
<1>2. ASSUME PrefixInv, PrefixInv', [HNext]_historyVars
      PROVE  [Store!Next]_<<[h \in Hashes |-> IF h \in Stored(device) THEN device.snaps[h]
                                              ELSE IF h \in Stored(cpu) THEN cpu.snaps[h]
                                              ELSE None], captured>>
  <2>1. CASE UNCHANGED historyVars
    BY <2>1 DEF historyVars, Stored
  <2>2. CASE HMaintain
    <3>1. Keeps(Now, Now', {}) /\ captured' = None
      BY <1>2, <2>2, MaintainStep DEF HMaintain
    <3> QED
      BY <1>2, <3>1, LosesOutside DEF Store!Next, Store!Lose
  <2>3. ASSUME NEW h \in Hashes, NEW snap \in Snapshots, HCapture(h, snap)
        PROVE  Store!Next
    <3>1. PICK preserve \in BOOLEAN, fails \in SUBSET Stored(device) :
             CapturePrefixState(h, snap, preserve, fails)
      BY <2>3 DEF HCapture
    <3>2. Keeps(Now, Now', {h}) /\ Found(Now', h) = snap
      BY <1>2, <3>1, CaptureStep
    <3>3. captured' = <<h, snap>>
      BY <2>3 DEF HCapture
    <3>4. StoreOf(Now')[h] = snap
      BY <3>2 DEF StoreOf
    <3>5. Store!Capture(h, snap)
      BY <1>2, <3>2, <3>3, <3>4, LosesOutside, MappedStore DEF Store!Capture
    <3> QED
      BY <3>5 DEF Store!Next
  <2>4. ASSUME NEW h \in Hashes, HRestore(h)
        PROVE  Store!Next
    <3>1. Keeps(Now, Now', {}) /\ captured' = None
      BY <1>2, <2>4, RestoreFromDeviceStep, RestoreFromCpuStep DEF HRestore
    <3> QED
      BY <1>2, <3>1, LosesOutside DEF Store!Next, Store!Lose
  <2>5. ASSUME NEW h \in Hashes, HFailedUse(h)
        PROVE  Store!Next
    <3>1. Keeps(Now, Now', {}) /\ captured' = None
      BY <1>2, <2>5, RestoreFromCpuFailsStep DEF HFailedUse
    <3> QED
      BY <1>2, <3>1, LosesOutside DEF Store!Next, Store!Lose
  <2> QED
    BY <1>2, <2>1, <2>2, <2>3, <2>4, <2>5 DEF HNext
<1> QED
  BY <1>1, <1>2, HInvIsInvariant, PTL DEF HSpec, ImplementsSnapshotStore, Store!Spec

-------------------------------------------------------------------------------
(* The order of use.  An order u of the hashes, the last used at its end, is *)
(* followed by the queues and, within a class, puts the snapshots of the CPU *)
(* tier before those of the device.  The hashes in back are exceptions.      *)

Follows(tier, u, back) ==
  \A a, b : /\ a \notin back /\ b \notin back
            /\ Before(tier.lru, a, b) \/ Before(tier.plru, a, b)
            => Before(u, a, b)

NewestOnDevice(w, u, back) ==
  \A a \in Stored(w.cpu) \ back, b \in Stored(w.device) :
    (a \in w.preserved <=> b \in w.preserved) => Before(u, a, b)

InOrder(w, u, back) ==
  /\ Follows(w.device, u, {})
  /\ Follows(w.cpu, u, back)
  /\ NewestOnDevice(w, u, back)

LEMMA WithoutFollows ==
  ASSUME NEW tier, NEW marks, TierOK(tier, marks), NEW gone, NEW u, NEW back,
         Follows(tier, u, back)
  PROVE  Follows(Without(tier, gone), u, back)
<1> DEFINE q == OnlyIn(tier.lru, Hashes \ gone)
           r == OnlyIn(tier.plru, Hashes \ gone)
           t == Without(tier, gone)
<1>1. tier.lru \in Seq(Hashes) /\ tier.plru \in Seq(Hashes)
  BY TierType DEF TierOK
<1>2. /\ \A a, b : Before(q, a, b) => Before(tier.lru, a, b)
      /\ \A a, b : Before(r, a, b) => Before(tier.plru, a, b)
  BY <1>1, OnlyInFacts
<1>3. t.lru = q /\ t.plru = r
  BY DEF Without
<1> HIDE DEF q, r, t
<1>4. Follows(t, u, back)
  BY <1>2, <1>3 DEF Follows
<1> QED
  BY <1>4 DEF t

\* What the queues of a tier are once the snapshot of h is put into it.
LEMMA PutOrder ==
  ASSUME NEW tier, NEW marks, TierOK(tier, marks), NEW h \in Hashes, NEW snap,
         NEW keep \in BOOLEAN, NEW a, NEW b
  PROVE  LET t == Touched(With(tier, h, snap), h, keep)
         IN Before(t.lru, a, b) \/ Before(t.plru, a, b) =>
              \/ /\ a # h /\ b # h
                 /\ Before(tier.lru, a, b) \/ Before(tier.plru, a, b)
              \/ /\ b = h /\ a \in Stored(tier) \ {h}
                 /\ a \in marks <=> keep
<1> DEFINE t == Touched(With(tier, h, snap), h, keep)
           q == OnlyIn(tier.lru, Hashes \ {h})
           r == OnlyIn(tier.plru, Hashes \ {h})
<1>1. /\ tier.lru \in Seq(Hashes) /\ tier.plru \in Seq(Hashes) /\ tier \in Tiers
      /\ ToSet(tier.lru) = Stored(tier) \ marks /\ ToSet(tier.plru) = Stored(tier) \cap marks
  BY TierType DEF TierOK
<1>2. /\ q \in Seq(Hashes) /\ ToSet(q) = ToSet(tier.lru) \cap (Hashes \ {h})
      /\ r \in Seq(Hashes) /\ ToSet(r) = ToSet(tier.plru) \cap (Hashes \ {h})
  BY <1>1, OnlyInFacts
<1>3. /\ Before(q, a, b) => a # h /\ b # h /\ Before(tier.lru, a, b)
      /\ Before(r, a, b) => a # h /\ b # h /\ Before(tier.plru, a, b)
  BY <1>1, OnlyInFacts
<1>4. t = PutTier(tier, h, snap, keep)
  BY <1>1, PutShape
<1>5. /\ t.lru = IF keep THEN q ELSE Append(q, h)
      /\ t.plru = IF keep THEN Append(r, h) ELSE r
  BY <1>4 DEF PutTier
<1> HIDE DEF t, q, r
<1>6. /\ Before(Append(q, h), a, b) => Before(q, a, b) \/ (a \in ToSet(q) /\ b = h)
      /\ Before(Append(r, h), a, b) => Before(r, a, b) \/ (a \in ToSet(r) /\ b = h)
  BY <1>2, AppendFacts
<1>7. CASE keep
  <2>1. t.lru = q /\ t.plru = Append(r, h)
    BY <1>5, <1>7
  <2> QED
    BY <1>1, <1>2, <1>3, <1>6, <1>7, <2>1 DEF t
<1>8. CASE ~keep
  <2>1. t.lru = Append(q, h) /\ t.plru = r
    BY <1>5, <1>8
  <2> QED
    BY <1>1, <1>2, <1>3, <1>6, <1>8, <2>1 DEF t
<1> QED
  BY <1>7, <1>8

\* Taking snapshots out of the tiers disturbs no order.
LEMMA StillInOrder ==
  ASSUME NEW w, NEW v, WorldOK(w), NEW out, NEW gone,
         v.device = Without(w.device, out), v.cpu = Without(w.cpu, gone),
         \A g \in Anywhere(v) : g \in v.preserved <=> g \in w.preserved,
         NEW u, NEW back, InOrder(w, u, back)
  PROVE  InOrder(v, u, back)
<1>1. TierOK(w.device, w.preserved) /\ TierOK(w.cpu, w.preserved)
  BY DEF WorldOK
<1>2. Follows(v.device, u, {})
  BY <1>1, WithoutFollows DEF InOrder
<1>3. Follows(v.cpu, u, back)
  BY <1>1, WithoutFollows DEF InOrder
<1>4. Stored(v.device) = Stored(w.device) \ out /\ Stored(v.cpu) = Stored(w.cpu) \ gone
  <2>1. Stored(Without(w.device, out)) = Stored(w.device) \ out
    BY <1>1, WithoutFacts
  <2>2. Stored(Without(w.cpu, gone)) = Stored(w.cpu) \ gone
    BY <1>1, WithoutFacts
  <2> QED
    BY <2>1, <2>2
<1>5. NewestOnDevice(v, u, back)
  BY <1>4 DEF InOrder, NewestOnDevice, Anywhere
<1> QED
  BY <1>2, <1>3, <1>5 DEF InOrder

\* h is the oldest of its class on the device.
OldestOnDevice(w, u, h) ==
  \A b \in Stored(w.device) \ {h} : (b \in w.preserved <=> h \in w.preserved) => Before(u, h, b)

\* The oldest of a class goes from the end of the device to the front of the CPU.
LEMMA EvictInOrder ==
  ASSUME NEW w, WorldOK(w), NEW h \in Stored(w.device), NEW limit \in Nat, NEW fails,
         NEW u, NEW back, InOrder(w, u, back), OldestOnDevice(w, u, h)
  PROVE  InOrder(EvictDevice(w, h, limit, fails), u, back)
<1> DEFINE v == EvictDevice(w, h, limit, fails)
           D == Without(w.device, {h})
           snap == w.device.snaps[h]
<1>1. PICK gone \in SUBSET Stored(w.cpu) :
        LET C == Without(w.cpu, gone)
            M == w.preserved \ gone
        IN /\ \A p \in gone \cap w.preserved : Stored(w.cpu) \ w.preserved \subseteq gone
           /\ \/ v = [device |-> D, cpu |-> C, preserved |-> M \ {h}]
              \/ /\ limit > 0 /\ Size(C) < limit
                 /\ v = [device |-> D, cpu |-> Touched(With(C, h, snap), h, h \in M),
                         preserved |-> M]
  BY EvictShape
<1> DEFINE C == Without(w.cpu, gone)
           M == w.preserved \ gone
           T == Touched(With(C, h, snap), h, h \in M)
<1>2. /\ TierOK(w.device, w.preserved) /\ TierOK(w.cpu, w.preserved)
      /\ Stored(w.device) \cap Stored(w.cpu) = {}
      /\ h \in Hashes
  <2>1. Stored(w.device) \subseteq Hashes
    BY WorldType, TierType DEF WorldOK
  <2> QED
    BY <2>1 DEF WorldOK
<1>3. Stored(D) = Stored(w.device) \ {h} /\ Stored(C) = Stored(w.cpu) \ gone
  <2>1. Stored(D) = Stored(w.device) \ {h}
    BY <1>2, WithoutFacts
  <2>2. Stored(C) = Stored(w.cpu) \ gone
    BY <1>2, WithoutFacts
  <2> QED
    BY <2>1, <2>2
<1>4. TierOK(C, M)
  <2>1. M \cap (Stored(w.cpu) \ gone) = w.preserved \cap (Stored(w.cpu) \ gone)
    OBVIOUS
  <2> HIDE DEF M
  <2> QED
    BY <1>2, <2>1, WithoutFacts
<1>5. (h \in M) = (h \in w.preserved) /\ (h \in M) \in BOOLEAN
  BY <1>2
<1>6. ASSUME NEW x, x.device = D, x.cpu = C, x.preserved \in {M, M \ {h}}
      PROVE  InOrder(x, u, back)
  <2>1. \A g \in Anywhere(x) : g \in x.preserved <=> g \in w.preserved
    BY <1>2, <1>3, <1>6 DEF Anywhere
  <2> QED
    BY <1>6, <2>1, StillInOrder
<1>7. CASE v = [device |-> D, cpu |-> C, preserved |-> M \ {h}]
  BY <1>6, <1>7
<1>8. CASE v = [device |-> D, cpu |-> T, preserved |-> M]
  <2> DEFINE x == [device |-> D, cpu |-> C, preserved |-> M]
  <2>1. InOrder(x, u, back)
    BY <1>6
  <2>2. x.device = D /\ x.cpu = C /\ x.preserved = M
    OBVIOUS
  <2>3. v.device = D /\ v.cpu = T /\ v.preserved = M
    BY <1>8
  <2> HIDE DEF x, v
  <2>4. Stored(T) = Stored(C) \cup {h}
    <3>1. snap \in Snapshots
      <4>1. w.device.snaps \in [Stored(w.device) -> Snapshots]
        BY <1>2, TierType DEF TierOK
      <4> QED
        BY <4>1
    <3>2. M \cap (Stored(C) \ {h}) = M \cap (Stored(C) \ {h})
      OBVIOUS
    <3> DEFINE keep == h \in M
               X == Touched(With(C, h, snap), h, keep)
    <3>3. keep \in BOOLEAN /\ (keep <=> h \in M) /\ X = T
      OBVIOUS
    <3> HIDE DEF C, M, snap, T, keep
    <3>4. Stored(X) = Stored(C) \cup {h}
      BY <1>2, <1>4, <3>1, <3>2, <3>3, PutFacts
    <3> HIDE DEF X
    <3> QED
      BY <3>3, <3>4
  <2>5. Follows(T, u, back)
    <3> SUFFICES ASSUME NEW a, NEW b, a \notin back, b \notin back,
                        Before(T.lru, a, b) \/ Before(T.plru, a, b)
                 PROVE  Before(u, a, b)
      BY DEF Follows
    <3>0. Before(T.lru, a, b) \/ Before(T.plru, a, b)
      OBVIOUS
    <3>1. \/ /\ a # h /\ b # h
             /\ Before(C.lru, a, b) \/ Before(C.plru, a, b)
          \/ /\ b = h /\ a \in Stored(C) \ {h}
             /\ a \in M <=> h \in M
      <4> DEFINE keep == h \in M
                 X == Touched(With(C, h, snap), h, keep)
      <4>1. keep \in BOOLEAN /\ (keep <=> h \in M) /\ X = T
        OBVIOUS
      <4> HIDE DEF C, M, snap, T, keep
      <4>2. Before(X.lru, a, b) \/ Before(X.plru, a, b) =>
              \/ /\ a # h /\ b # h
                 /\ Before(C.lru, a, b) \/ Before(C.plru, a, b)
              \/ /\ b = h /\ a \in Stored(C) \ {h}
                 /\ a \in M <=> keep
        BY <1>2, <1>4, <4>1, PutOrder
      <4> HIDE DEF X
      <4> QED
        BY <3>0, <4>1, <4>2
    <3>2. CASE Before(C.lru, a, b) \/ Before(C.plru, a, b)
      BY <2>1, <2>2, <3>2 DEF InOrder, Follows
    <3>3. CASE b = h /\ a \in Stored(C) \ {h} /\ (a \in M <=> h \in M)
      BY <1>2, <1>3, <3>3 DEF InOrder, NewestOnDevice
    <3> QED
      BY <3>1, <3>2, <3>3
  <2>6. NewestOnDevice(v, u, back)
    <3> SUFFICES ASSUME NEW a \in Stored(v.cpu) \ back, NEW b \in Stored(v.device),
                        a \in v.preserved <=> b \in v.preserved
                 PROVE  Before(u, a, b)
      BY DEF NewestOnDevice
    <3>1. CASE a \in Stored(C)
      BY <2>1, <2>2, <2>3, <3>1 DEF InOrder, NewestOnDevice
    <3>2. CASE a = h
      BY <1>2, <1>3, <2>3, <3>2 DEF OldestOnDevice
    <3> QED
      BY <2>3, <2>4, <3>1, <3>2
  <2>7. Follows(v.device, u, {})
    BY <2>1, <2>2, <2>3 DEF InOrder
  <2> QED
    BY <2>3, <2>5, <2>6, <2>7 DEF InOrder, v
<1> QED
  BY <1>1, <1>7, <1>8

\* Each eviction takes the oldest of its class, so all of them keep the order.
LEMMA ShrinkDeviceInOrder ==
  ASSUME NEW w, WorldOK(w), NEW n \in Nat, NEW limit \in Nat, NEW fails,
         NEW u, NEW back, InOrder(w, u, back)
  PROVE  InOrder(ShrinkDevice(w, n, limit, fails), u, back)
<1> DEFINE out == Victims(w.device, n)
<1>1. PICK after : /\ ShrinkDevice(w, n, limit, fails) = after[Len(out)]
                   /\ Evictions(after, w, out, limit, fails)
                   /\ \A i \in 0..Len(out) : Evicted(w, after[i], out, i, limit)
  BY ShrinkDeviceLoop
<1>2. TierOK(w.device, w.preserved)
  BY DEF WorldOK
<1>3. /\ out \in Seq(Hashes) /\ ToSet(out) \subseteq Stored(w.device)
      /\ \A i, j \in 1..Len(out) : out[i] = out[j] => i = j
      /\ \A i \in 1..Len(out) : \A b \in Stored(w.device) :
           (\A k \in 1..i : out[k] # b) =>
             /\ out[i] \notin w.preserved /\ b \notin w.preserved
                  => Before(w.device.lru, out[i], b)
             /\ out[i] \in w.preserved /\ b \in w.preserved
                  => Before(w.device.plru, out[i], b)
  BY <1>2, VictimFacts
<1> HIDE DEF out
<1>4. Len(out) \in Nat /\ \A i \in 1..Len(out) : out[i] \in Stored(w.device)
  BY <1>3, ToSetFacts
<1>5. /\ after[0] = w
      /\ \A i \in 1..Len(out) : after[i] = EvictDevice(after[i - 1], out[i], limit, fails)
  BY <1>1 DEF Evictions
<1>6. ASSUME NEW i \in 1..Len(out), InOrder(after[i - 1], u, back)
      PROVE  InOrder(after[i], u, back)
  <2> DEFINE v == after[i - 1]
             h == out[i]
  <2>1. Evicted(w, v, out, i - 1, limit)
    BY <1>1, <1>4
  <2>2. after[i] = EvictDevice(v, h, limit, fails) /\ InOrder(v, u, back)
    BY <1>5, <1>6
  <2> HIDE DEF v
  <2>3. /\ WorldOK(v) /\ Settled(w, v, {})
        /\ Stored(v.device) = Stored(w.device) \ {out[k] : k \in 1..(i - 1)}
    BY <2>1 DEF Evicted
  <2>4. h \in Stored(v.device)
    BY <1>3, <1>4, <2>3
  <2>5. \A g \in Stored(v.device) : g \in v.preserved <=> g \in w.preserved
    BY <2>3 DEF Settled, Anywhere
  <2>6. OldestOnDevice(v, u, h)
    <3> SUFFICES ASSUME NEW b \in Stored(v.device) \ {h},
                        b \in v.preserved <=> h \in v.preserved
                 PROVE  Before(u, h, b)
      BY DEF OldestOnDevice
    <3>1. b \in Stored(w.device) /\ (b \in w.preserved <=> h \in w.preserved)
      BY <2>3, <2>4, <2>5
    <3>2. \A k \in 1..i : out[k] # b
      <4> SUFFICES ASSUME NEW k \in 1..i, k # i PROVE out[k] # b
        OBVIOUS
      <4>1. k \in 1..(i - 1)
        BY <1>4
      <4> QED
        BY <2>3, <4>1
    <3>3. Before(w.device.lru, h, b) \/ Before(w.device.plru, h, b)
      BY <1>3, <3>1, <3>2
    <3>4. Follows(w.device, u, {})
      BY DEF InOrder
    <3> QED
      BY <3>3, <3>4 DEF Follows
  <2> HIDE DEF h
  <2>7. InOrder(EvictDevice(v, h, limit, fails), u, back)
    BY <2>2, <2>3, <2>4, <2>6, EvictInOrder
  <2> QED
    BY <2>2, <2>7
<1> DEFINE Bad == {i \in 0..Len(out) : ~InOrder(after[i], u, back)}
<1>7. ASSUME Bad # {} PROVE FALSE
  <2>1. Bad \in SUBSET Nat
    BY <1>4
  <2>2. PICK i \in Bad : \A j \in Bad : i <= j
    BY <1>7, <2>1, LeastNumber
  <2>3. i # 0
    BY <1>5, <2>2
  <2>4. i \in 1..Len(out) /\ i - 1 \in 0..Len(out) /\ i - 1 < i
    BY <1>4, <2>2, <2>3
  <2>5. i - 1 \notin Bad
    BY <2>1, <2>2, <2>4
  <2> QED
    BY <1>6, <2>2, <2>4, <2>5
<1> QED
  BY <1>1, <1>4, <1>7

\* The use of h: it goes to the end of the order.
LastUsed(u, h) == Append(OnlyIn(u, Hashes \ {h}), h)

LEMMA LastUsedFacts ==
  ASSUME NEW u \in Seq(Hashes), NEW h \in Hashes, Once(u)
  PROVE  /\ LastUsed(u, h) \in Seq(Hashes) /\ Once(LastUsed(u, h))
         /\ ToSet(LastUsed(u, h)) = ToSet(u) \cup {h}
         /\ \A a, b : a # h /\ b # h /\ Before(u, a, b) => Before(LastUsed(u, h), a, b)
         /\ \A a \in ToSet(u) \ {h} : Before(LastUsed(u, h), a, h)
<1> DEFINE q == OnlyIn(u, Hashes \ {h})
<1>1. /\ q \in Seq(Hashes) /\ Once(q) /\ ToSet(q) = ToSet(u) \cap (Hashes \ {h})
      /\ \A a, b : Before(q, a, b) <=> a \in Hashes \ {h} /\ b \in Hashes \ {h} /\ Before(u, a, b)
  BY OnlyInFacts
<1>2. ToSet(u) \subseteq Hashes
  BY ToSetFacts
<1>3. \A a, b : Before(u, a, b) => a \in Hashes /\ b \in Hashes
  BY DEF Before
<1> HIDE DEF q
<1>4. /\ Append(q, h) \in Seq(Hashes)
      /\ ToSet(Append(q, h)) = ToSet(q) \cup {h}
      /\ Once(q) /\ h \notin ToSet(q) => Once(Append(q, h))
      /\ \A a, b : Before(Append(q, h), a, b) <=>
                     Before(q, a, b) \/ (a \in ToSet(q) /\ b = h)
  BY <1>1, AppendFacts
<1>5. LastUsed(u, h) = Append(q, h)
  BY DEF LastUsed, q
<1> QED
  BY <1>1, <1>2, <1>3, <1>4, <1>5

\* What is used goes to the end of its queue on the device.
LEMMA StoreInOrder ==
  ASSUME NEW w, WorldOK(w), NEW h \in Hashes, h \notin Stored(w.cpu),
         NEW snap \in Snapshots, NEW preserve \in BOOLEAN,
         NEW u \in Seq(Hashes), Once(u), Anywhere(w) \subseteq ToSet(u),
         NEW back, InOrder(w, u, back)
  PROVE  InOrder(StoredOnDevice(w, h, snap, preserve), LastUsed(u, h), back)
<1> DEFINE keep == preserve \/ h \in w.preserved
           T == Touched(With(w.device, h, snap), h, keep)
           M == IF keep THEN w.preserved \cup {h} ELSE w.preserved
           v == StoredOnDevice(w, h, snap, preserve)
           l == LastUsed(u, h)
<1>1. /\ w \in Worlds
      /\ TierOK(w.device, w.preserved) /\ TierOK(w.cpu, w.preserved)
  BY DEF WorldOK
<1>2. v = [w EXCEPT !.device = T, !.preserved = M]
  BY DEF StoredOnDevice
<1>3. keep \in BOOLEAN /\ \A g : g # h => (g \in M <=> g \in w.preserved)
  OBVIOUS
<1>4. Stored(v.device) = Stored(w.device) \cup {h} /\ v.cpu = w.cpu
  <2>1. Stored(v.device) = Stored(w.device) \cup {h}
    BY StoredOnDeviceFacts
  <2>2. v.cpu = w.cpu
    BY StoredOnDeviceFacts
  <2> QED
    BY <2>1, <2>2
<1>5. /\ \A a, b : a # h /\ b # h /\ Before(u, a, b) => Before(l, a, b)
      /\ \A a \in ToSet(u) \ {h} : Before(l, a, h)
  BY LastUsedFacts
<1> HIDE DEF keep, M, v, l
<1>6. ASSUME NEW a, NEW b, Before(T.lru, a, b) \/ Before(T.plru, a, b)
      PROVE  \/ /\ a # h /\ b # h
                /\ Before(w.device.lru, a, b) \/ Before(w.device.plru, a, b)
             \/ b = h /\ a \in Stored(w.device) \ {h}
  <2>1. Before(T.lru, a, b) \/ Before(T.plru, a, b) =>
           \/ /\ a # h /\ b # h
              /\ Before(w.device.lru, a, b) \/ Before(w.device.plru, a, b)
           \/ /\ b = h /\ a \in Stored(w.device) \ {h}
              /\ a \in w.preserved <=> keep
    <3> DEFINE d == w.device
               m == w.preserved
               X == Touched(With(d, h, snap), h, keep)
    <3>1. TierOK(d, m) /\ keep \in BOOLEAN /\ X = T
      BY <1>1, <1>3
    <3> HIDE DEF d, m, T
    <3>2. Before(X.lru, a, b) \/ Before(X.plru, a, b) =>
             \/ /\ a # h /\ b # h
                /\ Before(d.lru, a, b) \/ Before(d.plru, a, b)
             \/ /\ b = h /\ a \in Stored(d) \ {h}
                /\ a \in m <=> keep
      BY <3>1, PutOrder
    <3> HIDE DEF X
    <3> QED
      BY <3>1, <3>2 DEF d, m
  <2> HIDE DEF T
  <2> QED
    BY <1>6, <2>1
<1> HIDE DEF T
<1>7. v.device = T /\ v.preserved = M
  <2>1. v = [device |-> T, cpu |-> w.cpu, preserved |-> M]
    BY <1>1, <1>2, WorldExcept
  <2> QED
    BY <2>1
<1>8. Follows(v.device, l, {})
  <2> SUFFICES ASSUME NEW a, NEW b, Before(T.lru, a, b) \/ Before(T.plru, a, b)
               PROVE  Before(l, a, b)
    BY <1>7 DEF Follows
  <2>1. CASE b = h /\ a \in Stored(w.device) \ {h}
    BY <1>5, <2>1 DEF Anywhere
  <2>2. CASE /\ a # h /\ b # h
             /\ Before(w.device.lru, a, b) \/ Before(w.device.plru, a, b)
    BY <1>5, <2>2 DEF InOrder, Follows
  <2> QED
    BY <1>6, <2>1, <2>2
<1>9. Follows(v.cpu, l, back)
  <2> SUFFICES ASSUME NEW a, NEW b, a \notin back, b \notin back,
                      Before(w.cpu.lru, a, b) \/ Before(w.cpu.plru, a, b)
               PROVE  Before(l, a, b)
    BY <1>4 DEF Follows
  <2>1. Before(u, a, b)
    BY DEF InOrder, Follows
  <2>2. a \in Stored(w.cpu) /\ b \in Stored(w.cpu)
    <3>1. /\ \A x, y : Before(w.cpu.lru, x, y) => x \in ToSet(w.cpu.lru) /\ y \in ToSet(w.cpu.lru)
          /\ \A x, y : Before(w.cpu.plru, x, y) => x \in ToSet(w.cpu.plru) /\ y \in ToSet(w.cpu.plru)
      BY <1>1, TierType, BeforeListed DEF TierOK
    <3> QED
      BY <1>1, <3>1 DEF TierOK
  <2> QED
    BY <1>5, <2>1, <2>2
<1>10. NewestOnDevice(v, l, back)
  <2> SUFFICES ASSUME NEW a \in Stored(w.cpu) \ back, NEW b \in Stored(v.device),
                      a \in M <=> b \in M
               PROVE  Before(l, a, b)
    BY <1>4, <1>7 DEF NewestOnDevice
  <2>1. CASE b = h
    BY <1>5, <2>1 DEF Anywhere
  <2>2. CASE b # h
    <3>1. b \in Stored(w.device) /\ (a \in w.preserved <=> b \in w.preserved)
      BY <1>3, <1>4, <2>2
    <3>2. Before(u, a, b)
      BY <3>1 DEF InOrder, NewestOnDevice
    <3> QED
      BY <1>5, <2>2, <3>2
  <2> QED
    BY <2>1, <2>2
<1>11. InOrder(v, l, back)
  BY <1>8, <1>9, <1>10 DEF InOrder
<1> QED
  BY <1>11 DEF v, l

LEMMA TakenOutInOrder ==
  ASSUME NEW w, WorldOK(w), NEW h, NEW u, NEW back, InOrder(w, u, back)
  PROVE  InOrder([w EXCEPT !.cpu = Without(@, {h})], u, back)
<1> DEFINE v == [w EXCEPT !.cpu = Without(@, {h})]
<1>1. w \in Worlds /\ TierOK(w.device, w.preserved)
  BY DEF WorldOK
<1>2. v = [device |-> w.device, cpu |-> Without(w.cpu, {h}), preserved |-> w.preserved]
  <2>1. v = [w EXCEPT !.cpu = Without(w.cpu, {h})]
    OBVIOUS
  <2> HIDE DEF v
  <2> QED
    BY <1>1, <2>1, WorldExcept
<1>3. v.device = w.device /\ v.cpu = Without(w.cpu, {h}) /\ v.preserved = w.preserved
  BY <1>2
<1> HIDE DEF v
<1>4. w.device = Without(w.device, {})
  BY <1>1, WithoutNothing
<1>5. InOrder(v, u, back)
  BY <1>3, <1>4, StillInOrder
<1> QED
  BY <1>5 DEF v

LEMMA MakeRoomInOrder ==
  ASSUME PrefixInv, cap > 0, NEW w, WorldOK(w), NEW fails, NEW u, NEW back, InOrder(w, u, back)
  PROVE  InOrder(MakeRoom(w, fails), u, back)
<1> DEFINE n == cap - 1
           limit == CpuCapacityFor(cap)
<1>1. n \in Nat /\ limit \in Nat
  BY InvFacts
<1> HIDE DEF n, limit
<1>2. InOrder(ShrinkDevice(w, n, limit, fails), u, back)
  BY <1>1, ShrinkDeviceInOrder
<1> QED
  BY <1>2 DEF MakeRoom, n, limit

LEMMA ReadyToCaptureInOrder ==
  ASSUME PrefixInv, cap > 0, NEW h, NEW fails, NEW u, NEW back, InOrder(Now, u, back)
  PROVE  InOrder(ReadyToCapture(h, fails), u, back)
<1> DEFINE room == IF h \in Stored(device) THEN Now ELSE MakeRoom(Now, fails)
<1>1. WorldOK(Now)
  BY DEF PrefixInv
<1>2. WorldOK(room) /\ InOrder(room, u, back)
  <2>1. CASE h \in Stored(device)
    BY <1>1, <2>1
  <2>2. CASE h \notin Stored(device)
    <3>1. WorldOK(MakeRoom(Now, fails))
      BY <1>1, MakeRoomFacts
    <3>2. InOrder(MakeRoom(Now, fails), u, back)
      BY <1>1, MakeRoomInOrder
    <3> QED
      BY <2>2, <3>1, <3>2
  <2> QED
    BY <2>1, <2>2
<1> HIDE DEF room
<1>3. InOrder([room EXCEPT !.cpu = Without(@, {h})], u, back)
  BY <1>2, TakenOutInOrder
<1> QED
  BY <1>3 DEF ReadyToCapture, room

LEMMA ReadyToPromoteInOrder ==
  ASSUME PrefixInv, cap > 0, NEW h, NEW fails, NEW u, NEW back, InOrder(Now, u, back)
  PROVE  InOrder(ReadyToPromote(h, fails), u, back)
<1> DEFINE out == [Now EXCEPT !.cpu = Without(@, {h})]
<1>1. WorldOK(Now)
  BY DEF PrefixInv
<1>2. WorldOK(out)
  BY <1>1, CopyTakenOut
<1>3. InOrder(out, u, back)
  BY <1>1, TakenOutInOrder
<1> HIDE DEF out
<1>4. InOrder(MakeRoom(out, fails), u, back)
  BY <1>2, <1>3, MakeRoomInOrder
<1> QED
  BY <1>4 DEF ReadyToPromote, out

LEMMA EmptyFollows ==
  ASSUME NEW u, NEW back
  PROVE  Follows(EmptyTier, u, back) /\ Stored(EmptyTier) = {}
<1>1. EmptyTier.lru = <<>> /\ EmptyTier.plru = <<>> /\ EmptyTier.snaps = <<>>
  BY DEF EmptyTier
<1>2. \A a, b : ~Before(<<>>, a, b)
  BY DEF Before
<1> QED
  BY <1>1, <1>2, EmptyTierOK DEF Follows

LEMMA ShrinkCpuInOrder ==
  ASSUME NEW w, WorldOK(w), NEW n \in Nat, NEW u, NEW back, InOrder(w, u, back)
  PROVE  InOrder(ShrinkCpu(w, n), u, back)
<1> DEFINE v == ShrinkCpu(w, n)
<1>1. PICK gone \in SUBSET Stored(w.cpu) :
           v = [device |-> w.device, cpu |-> Without(w.cpu, gone),
                preserved |-> w.preserved \ gone]
  BY ShrinkCpuFacts
<1>2. /\ TierOK(w.device, w.preserved) /\ TierOK(w.cpu, w.preserved)
      /\ Stored(w.device) \cap Stored(w.cpu) = {}
  BY DEF WorldOK
<1> HIDE DEF v
<1>3. /\ v.device = w.device /\ v.cpu = Without(w.cpu, gone)
      /\ v.preserved = w.preserved \ gone
  BY <1>1
<1>4. Stored(Without(w.cpu, gone)) = Stored(w.cpu) \ gone
  BY <1>2, WithoutFacts
<1>5. w.device = Without(w.device, {})
  BY <1>2, WithoutNothing
<1>6. \A g \in Anywhere(v) : g \in v.preserved <=> g \in w.preserved
  BY <1>2, <1>3, <1>4 DEF Anywhere
<1>7. InOrder(v, u, back)
  BY <1>3, <1>5, <1>6, StillInOrder
<1> QED
  BY <1>7 DEF v

\* The operations, with an order of use u and exceptions back.
LEMMA ResetInOrder ==
  ASSUME Becomes([device |-> EmptyTier, cpu |-> EmptyTier, preserved |-> {}]), NEW u, NEW back
  PROVE  InOrder(Now', u, back)
<1>1. device' = EmptyTier /\ cpu' = EmptyTier
  BY DEF Becomes
<1>2. Now'.device = EmptyTier /\ Now'.cpu = EmptyTier
  BY <1>1, NowFields
<1> DEFINE v == Now'
<1> HIDE DEF v
<1>3. InOrder(v, u, back)
  BY <1>2, EmptyFollows DEF InOrder, NewestOnDevice, v
<1> QED
  BY <1>3 DEF v

LEMMA SetPrefixCacheCapacityInOrder ==
  ASSUME PrefixInv, NEW capacity \in Capacities, NEW fails,
         SetPrefixCacheCapacity(capacity, fails), NEW u, NEW back, InOrder(Now, u, back)
  PROVE  InOrder(Now', u, back)
<1>1. CASE capacity = 0
  <2>1. Becomes([device |-> EmptyTier, cpu |-> EmptyTier, preserved |-> {}])
    BY <1>1 DEF SetPrefixCacheCapacity
  <2> QED
    BY <2>1, ResetInOrder
<1>2. CASE capacity # 0
  <2> DEFINE limit == CpuCapacityFor(capacity)
             start == [Now EXCEPT !.cpu = IF limit = 0 THEN EmptyTier ELSE @]
             mid == ShrinkDevice(start, capacity, limit, fails)
             v == ShrinkCpu(mid, limit)
  <2>1. capacity \in Nat /\ limit \in Nat
    <3>1. capacity \in Nat /\ Multiplier \in Nat /\ spills \in BOOLEAN
      BY CapacitiesAssumption, RatioAssumption, InvFacts
    <3>2. capacity * Multiplier \in Nat
      BY <3>1
    <3> QED
      BY <3>1, <3>2 DEF CpuCapacityFor
  <2>2. Becomes(v)
    BY <1>2 DEF SetPrefixCacheCapacity
  <2>3. WorldOK(Now)
    BY DEF PrefixInv
  <2> HIDE DEF limit
  <2>4. WorldOK(start) /\ InOrder(start, u, back)
    <3>1. CASE limit # 0
      <4>1. start = Now
        <5>1. Now = [device |-> device, cpu |-> cpu, preserved |-> preserved]
          BY DEF Now
        <5> QED
          BY <3>1, <5>1
      <4> QED
        BY <2>3, <4>1
    <3>2. CASE limit = 0
      <4>1. start = [device |-> device, cpu |-> EmptyTier, preserved |-> preserved]
        BY <3>2 DEF Now
      <4> HIDE DEF start
      <4>2. start.device = device /\ start.cpu = EmptyTier /\ start.preserved = preserved
        BY <4>1
      <4>3. TierOK(EmptyTier, preserved) /\ Stored(EmptyTier) = {}
        BY EmptyTierOK
      <4>4. start \in Worlds
        BY <4>1, <4>3, InvFacts DEF Worlds, TierOK
      <4>5. TierOK(device, preserved)
        BY <2>3, NowFields DEF WorldOK
      <4>6. WorldOK(start)
        BY <4>2, <4>3, <4>4, <4>5 DEF WorldOK
      <4>7. Follows(device, u, {})
        BY NowFields DEF InOrder
      <4>8. InOrder(start, u, back)
        BY <4>2, <4>7, EmptyFollows DEF InOrder, NewestOnDevice
      <4> QED
        BY <4>6, <4>8
    <3> QED
      BY <3>1, <3>2
  <2> HIDE DEF start
  <2>5. WorldOK(mid)
    BY <2>1, <2>4, ShrinkDeviceFacts
  <2>6. InOrder(mid, u, back)
    BY <2>1, <2>4, ShrinkDeviceInOrder
  <2> HIDE DEF mid
  <2>7. InOrder(v, u, back)
    BY <2>1, <2>5, <2>6, ShrinkCpuInOrder
  <2>8. v \in Worlds
    <3>1. PICK gone \in SUBSET Stored(mid.cpu) :
             /\ v = [device |-> mid.device, cpu |-> Without(mid.cpu, gone),
                     preserved |-> mid.preserved \ gone]
             /\ \A p \in gone \cap mid.preserved : Stored(mid.cpu) \ mid.preserved \subseteq gone
      BY <2>1, <2>5, ShrinkCpuFacts
    <3> HIDE DEF v
    <3>2. WorldOK(v)
      BY <2>5, <3>1, DroppedFacts
    <3> QED
      BY <3>2 DEF WorldOK
  <2> HIDE DEF v
  <2>9. Now' = v
    BY <2>2, <2>8, BecomesWorld
  <2> QED
    BY <2>7, <2>9
<1> QED
  BY <1>1, <1>2

LEMMA RemovePrefixStateInOrder ==
  ASSUME PrefixInv, NEW h \in Hashes, RemovePrefixState(h), NEW u, NEW back, InOrder(Now, u, back)
  PROVE  InOrder(Now', u, back)
<1>1. /\ device' = Without(device, {h}) /\ cpu' = Without(cpu, {h})
      /\ preserved' = preserved \ {h}
  BY DEF RemovePrefixState, Becomes
<1> DEFINE v == Now'
<1>2. /\ v.device = Without(Now.device, {h}) /\ v.cpu = Without(Now.cpu, {h})
      /\ v.preserved = Now.preserved \ {h}
  BY <1>1, NowFields
<1> HIDE DEF v
<1>3. WorldOK(Now) /\ TierOK(Now.device, Now.preserved) /\ TierOK(Now.cpu, Now.preserved)
  BY DEF PrefixInv, WorldOK
<1>4. h \notin Anywhere(v)
  <2> DEFINE d == Now.device
             c == Now.cpu
             marks == Now.preserved
  <2>1. TierOK(d, marks) /\ TierOK(c, marks)
    BY <1>3
  <2>2. v.device = Without(d, {h}) /\ v.cpu = Without(c, {h})
    BY <1>2
  <2> HIDE DEF d, c, marks
  <2>3. Stored(Without(d, {h})) = Stored(d) \ {h}
    BY <2>1, WithoutFacts
  <2>4. Stored(Without(c, {h})) = Stored(c) \ {h}
    BY <2>1, WithoutFacts
  <2> QED
    BY <2>2, <2>3, <2>4 DEF Anywhere
<1>5. \A g \in Anywhere(v) : g \in v.preserved <=> g \in Now.preserved
  BY <1>2, <1>4
<1>6. InOrder(v, u, back)
  BY <1>2, <1>3, <1>5, StillInOrder
<1> QED
  BY <1>6 DEF v

LEMMA CaptureFailsInOrder ==
  ASSUME PrefixInv, NEW h \in Hashes, NEW fails, CaptureFails(h, fails),
         NEW u, NEW back, InOrder(Now, u, back)
  PROVE  InOrder(Now', u, back)
<1> DEFINE v == ReadyToCapture(h, fails)
<1>1. cap > 0 /\ Becomes(v)
  BY DEF CaptureFails
<1>2. WorldOK(v)
  BY <1>1, ReadyToCaptureFacts
<1>3. InOrder(v, u, back)
  BY <1>1, ReadyToCaptureInOrder
<1> HIDE DEF v
<1>4. Now' = v
  BY <1>1, <1>2, BecomesWorld DEF WorldOK
<1> QED
  BY <1>3, <1>4

LEMMA MaintainInOrder ==
  ASSUME PrefixInv, Maintain, NEW u, NEW back, InOrder(Now, u, back)
  PROVE  InOrder(Now', u, back)
BY ResetInOrder, RemovePrefixStateInOrder, SetPrefixCacheCapacityInOrder, CaptureFailsInOrder
   DEF Maintain, ResetPrefixes

LEMMA UseInOrder ==
  ASSUME PrefixInv, NEW h \in Hashes, Use(h), NEW u \in Seq(Hashes), Once(u),
         Anywhere(Now) \subseteq ToSet(u), NEW back, InOrder(Now, u, back)
  PROVE  InOrder(Now', LastUsed(u, h), back)
<1> DEFINE l == LastUsed(u, h)
<1>1. ASSUME NEW r, NEW X, WorldOK(r), Settled(Now, r, X), h \notin Stored(r.cpu),
             InOrder(r, u, back), NEW snap \in Snapshots, NEW preserve \in BOOLEAN,
             Becomes(StoredOnDevice(r, h, snap, preserve))
      PROVE  InOrder(Now', l, back)
  <2> DEFINE v == StoredOnDevice(r, h, snap, preserve)
  <2>1. Anywhere(r) \subseteq ToSet(u)
    BY <1>1 DEF Settled, Anywhere
  <2> HIDE DEF l
  <2>2. InOrder(v, LastUsed(u, h), back)
    BY <1>1, <2>1, StoreInOrder
  <2>3. WorldOK(v)
    BY <1>1, StoredOnDeviceFacts
  <2>4. Becomes(v)
    BY <1>1
  <2> HIDE DEF v
  <2>5. Now' = v
    BY <2>3, <2>4, BecomesWorld DEF WorldOK
  <2> QED
    BY <2>2, <2>5 DEF l
<1>2. ASSUME RestoreFromDevice(h)
      PROVE  InOrder(Now', l, back)
  <2> DEFINE snap == device.snaps[h]
  <2>1. h \in Stored(device) /\ Becomes(StoredOnDevice(Now, h, snap, FALSE))
    BY <1>2 DEF RestoreFromDevice
  <2>2. snap \in Snapshots /\ h \notin Stored(Now.cpu)
    BY <2>1, InvFacts
  <2>3. WorldOK(Now) /\ Settled(Now, Now, {})
    BY SettledSelf DEF PrefixInv
  <2> HIDE DEF snap, l
  <2> QED
    BY <1>1, <2>1, <2>2, <2>3
<1>3. ASSUME NEW fails \in SUBSET Stored(device), NEW snap \in Snapshots,
             NEW preserve \in BOOLEAN, CapturePrefixState(h, snap, preserve, fails)
      PROVE  InOrder(Now', l, back)
  <2> DEFINE r == ReadyToCapture(h, fails)
  <2>1. cap > 0 /\ Becomes(StoredOnDevice(r, h, snap, preserve))
    BY <1>3 DEF CapturePrefixState
  <2>2. WorldOK(r) /\ Settled(Now, r, {h}) /\ h \notin Stored(r.cpu)
    BY <2>1, ReadyToCaptureFacts
  <2>3. InOrder(r, u, back)
    BY <2>1, ReadyToCaptureInOrder
  <2> HIDE DEF r, l
  <2> QED
    BY <1>1, <2>1, <2>2, <2>3
<1>4. ASSUME NEW fails \in SUBSET Stored(device), RestoreFromCpu(h, fails)
      PROVE  InOrder(Now', l, back)
  <2> DEFINE r == ReadyToPromote(h, fails)
             snap == cpu.snaps[h]
  <2>1. cap > 0 /\ h \in Stored(cpu) /\ Becomes(StoredOnDevice(r, h, snap, FALSE))
    BY <1>4 DEF RestoreFromCpu
  <2>2. WorldOK(r) /\ Settled(Now, r, {h}) /\ h \notin Stored(r.cpu)
    BY <2>1, ReadyToPromoteFacts
  <2>3. InOrder(r, u, back)
    BY <2>1, ReadyToPromoteInOrder
  <2>4. snap \in Snapshots
    BY <2>1, InvFacts
  <2> HIDE DEF r, snap, l
  <2> QED
    BY <1>1, <2>1, <2>2, <2>3, <2>4
<1> HIDE DEF l
<1>5. InOrder(Now', l, back)
  BY <1>2, <1>3, <1>4 DEF Use
<1> QED
  BY <1>5 DEF l

\* What a failed promotion puts back is out of order, nothing else.
LEMMA PutBackInOrder ==
  ASSUME PrefixInv, NEW h \in Hashes, NEW fails, RestoreFromCpuFails(h, fails),
         NEW u, NEW back, InOrder(Now, u, back)
  PROVE  InOrder(Now', u, back \cup {h})
<1> DEFINE snap == cpu.snaps[h]
           r == ReadyToPromote(h, fails)
           keep == h \in r.preserved
           C == Touched(With(r.cpu, h, snap), h, keep)
           v == [device |-> r.device, cpu |-> C, preserved |-> r.preserved]
<1>1. /\ cap > 0 /\ h \in Stored(cpu) /\ h \notin Stored(device)
      /\ Becomes([r EXCEPT !.cpu = Touched(With(@, h, snap), h, keep)])
  BY DEF RestoreFromCpuFails
<1>2. WorldOK(r) /\ InOrder(r, u, back)
  <2>1. WorldOK(r)
    BY <1>1, ReadyToPromoteFacts
  <2>2. InOrder(r, u, back)
    BY <1>1, ReadyToPromoteInOrder
  <2> QED
    BY <2>1, <2>2
<1>3. r \in Worlds /\ TierOK(r.cpu, r.preserved) /\ snap \in Snapshots
  BY <1>1, <1>2, InvFacts DEF WorldOK
<1>4. keep \in BOOLEAN /\ (keep <=> h \in r.preserved)
  OBVIOUS
<1> HIDE DEF snap, r, keep
<1> DEFINE tier == r.cpu
           marks == r.preserved
           X == Touched(With(tier, h, snap), h, keep)
<1>5. TierOK(tier, marks) /\ X = C /\ (keep <=> h \in marks)
  BY <1>3, <1>4
<1>6. marks \cap (Stored(tier) \ {h}) = marks \cap (Stored(tier) \ {h})
  OBVIOUS
<1> HIDE DEF tier, marks, C
<1>7. Stored(X) = Stored(tier) \cup {h}
  BY <1>3, <1>4, <1>5, <1>6, PutFacts
<1>8. ASSUME NEW a, NEW b, b # h, Before(X.lru, a, b) \/ Before(X.plru, a, b)
      PROVE  Before(tier.lru, a, b) \/ Before(tier.plru, a, b)
  <2>1. Before(X.lru, a, b) \/ Before(X.plru, a, b) =>
           \/ /\ a # h /\ b # h
              /\ Before(tier.lru, a, b) \/ Before(tier.plru, a, b)
           \/ /\ b = h /\ a \in Stored(tier) \ {h}
              /\ a \in marks <=> keep
    BY <1>4, <1>5, PutOrder
  <2> HIDE DEF X
  <2> QED
    BY <1>8, <2>1
<1> HIDE DEF X
<1>9. [r EXCEPT !.cpu = Touched(With(@, h, snap), h, keep)] = v
  <2>1. [r EXCEPT !.cpu = Touched(With(@, h, snap), h, keep)] = [r EXCEPT !.cpu = C]
    BY DEF C
  <2>2. [r EXCEPT !.cpu = C] = v
    BY <1>3, WorldExcept
  <2> QED
    BY <2>1, <2>2
<1>10. v.device = r.device /\ v.cpu = C /\ v.preserved = r.preserved
  OBVIOUS
<1>11. Becomes(v)
  BY <1>1, <1>9
<1> HIDE DEF v
<1>12. Now' = v
  <2>1. device' = r.device /\ cpu' = C /\ preserved' = r.preserved
    BY <1>10, <1>11 DEF Becomes
  <2> QED
    BY <2>1 DEF Now, v
<1>13. Follows(v.cpu, u, back \cup {h})
  <2>1. Follows(tier, u, back)
    BY <1>2 DEF InOrder, tier
  <2> QED
    BY <1>5, <1>8, <1>10, <2>1 DEF Follows
<1>14. NewestOnDevice(v, u, back \cup {h})
  BY <1>2, <1>5, <1>7, <1>10 DEF InOrder, NewestOnDevice, tier
<1>15. Follows(v.device, u, {})
  BY <1>2, <1>10 DEF InOrder
<1>16. InOrder(v, u, back \cup {h})
  BY <1>13, <1>14, <1>15 DEF InOrder
<1> QED
  BY <1>12, <1>16

\* A step brings back nothing but what it changes.
LEMMA NothingComesBack ==
  ASSUME NEW v, NEW w, NEW changed, WorldOK(w), Keeps(v, w, changed)
  PROVE  Anywhere(w) \subseteq Anywhere(v) \cup changed
<1>1. w.device \in Tiers /\ w.cpu \in Tiers
  BY WorldType DEF WorldOK
<1>2. /\ w.device.snaps \in [Stored(w.device) -> Snapshots]
      /\ w.cpu.snaps \in [Stored(w.cpu) -> Snapshots]
      /\ Stored(w.device) \subseteq Hashes /\ Stored(w.cpu) \subseteq Hashes
  BY <1>1, TierType
<1>3. \A g \in Anywhere(w) : Found(w, g) # None
  BY <1>2, NoneAssumption DEF Anywhere, Found
<1> QED
  BY <1>2, <1>3 DEF Keeps, Anywhere, Found

\* The order of use, without the hashes that are no longer stored.
HistoryOK ==
  /\ used \in Seq(Hashes) /\ Once(used) /\ ToSet(used) = StoredAnywhere
  /\ InOrder(Now, used, putBack)

LEMMA HistoryKept ==
  ASSUME PrefixInv', NEW u \in Seq(Hashes), Once(u), StoredAnywhere' \subseteq ToSet(u), NEW back,
         InOrder(Now', u, back), used' = StillStored(u), putBack' = back \cap Stored(cpu)'
  PROVE  HistoryOK'
<1>0. PICK A : A = StoredAnywhere'
  OBVIOUS
<1> DEFINE x == OnlyIn(u, A)
<1>1. /\ x \in Seq(Hashes) /\ Once(x) /\ ToSet(x) = A
      /\ \A a, b : a \in A /\ b \in A /\ Before(u, a, b) => Before(x, a, b)
  <2>1. A \subseteq ToSet(u)
    BY <1>0
  <2>2. x \in Seq(Hashes) /\ ToSet(x) = ToSet(u) \cap A
    BY OnlyInFacts
  <2>3. Once(x)
    BY OnlyInFacts
  <2>4. \A a, b : a \in A /\ b \in A /\ Before(u, a, b) => Before(x, a, b)
    BY OnlyInFacts
  <2> QED
    BY <2>1, <2>2, <2>3, <2>4
<1>2. used' = x
  BY <1>0 DEF StillStored
<1> HIDE DEF x
<1>3. /\ Stored(device') \subseteq A /\ Stored(cpu') \subseteq A
      /\ putBack' = back \cap Stored(cpu')
  BY <1>0 DEF StoredAnywhere, Stored
<1>4. WorldOK(Now')
  <2>1. WorldOK(Now)'
    BY DEF PrefixInv
  <2> QED
    BY <2>1 DEF WorldOK, Worlds, Tiers, TierOK, Stored, Once, ToSet
<1>5. /\ \A a, b : Before(device'.lru, a, b) \/ Before(device'.plru, a, b)
                     => a \in Stored(device') /\ b \in Stored(device')
      /\ \A a, b : Before(cpu'.lru, a, b) \/ Before(cpu'.plru, a, b)
                     => a \in Stored(cpu') /\ b \in Stored(cpu')
  <2>1. ASSUME NEW tier, NEW marks, TierOK(tier, marks), NEW a, NEW b,
               Before(tier.lru, a, b) \/ Before(tier.plru, a, b)
        PROVE  a \in Stored(tier) /\ b \in Stored(tier)
    BY <2>1, TierType, BeforeListed DEF TierOK
  <2>2. /\ TierOK(device', preserved') /\ TierOK(cpu', preserved')
    BY <1>4, NowFields DEF WorldOK
  <2> QED
    BY <2>1, <2>2
<1>6. /\ Follows(device', u, {}) /\ Follows(cpu', u, back)
      /\ NewestOnDevice(Now', u, back)
  BY NowFields DEF InOrder
<1>7. Follows(device', x, {})
  BY <1>1, <1>3, <1>5, <1>6 DEF Follows
<1>8. Follows(cpu', x, putBack')
  BY <1>1, <1>3, <1>5, <1>6 DEF Follows
<1>9. NewestOnDevice(Now', x, putBack')
  BY <1>1, <1>3, <1>6, NowFields DEF NewestOnDevice
<1>10. InOrder(Now', x, putBack')
  BY <1>7, <1>8, <1>9, NowFields DEF InOrder
<1>11. InOrder(Now, used, putBack)'
  <2>1. InOrder(Now', used', putBack')
    BY <1>2, <1>10
  <2> QED
    BY <2>1 DEF InOrder, Follows, NewestOnDevice, Before, Stored
<1>12. used' \in Seq(Hashes) /\ Once(used') /\ ToSet(used') = StoredAnywhere'
  BY <1>0, <1>1, <1>2
<1> QED
  BY <1>11, <1>12 DEF HistoryOK, Once, ToSet

LEMMA HistoryStep ==
  ASSUME PrefixInv, PrefixInv', HistoryOK, HNext
  PROVE  HistoryOK'
<1>1. /\ used \in Seq(Hashes) /\ Once(used) /\ ToSet(used) = StoredAnywhere
      /\ InOrder(Now, used, putBack)
      /\ Anywhere(Now) = StoredAnywhere /\ Anywhere(Now') = StoredAnywhere'
  BY NowFields DEF HistoryOK
<1>2. WorldOK(Now')
  <2>1. WorldOK(Now)'
    BY DEF PrefixInv
  <2> QED
    BY <2>1 DEF WorldOK, Worlds, Tiers, TierOK, Stored, Once, ToSet
<1>3. ASSUME NEW changed, Keeps(Now, Now', changed)
      PROVE  StoredAnywhere' \subseteq ToSet(used) \cup changed
  BY <1>1, <1>2, <1>3, NothingComesBack
<1>4. CASE HMaintain
  <2>1. /\ Keeps(Now, Now', {}) /\ InOrder(Now', used, putBack)
        /\ used' = StillStored(used) /\ putBack' = putBack \cap Stored(cpu)'
    BY <1>1, <1>4, MaintainStep, MaintainInOrder DEF HMaintain
  <2> QED
    BY <1>1, <1>3, <2>1, HistoryKept
<1>5. ASSUME NEW h \in Hashes, Use(h), MarkUsed(h), NEW changed \in SUBSET {h},
             Keeps(Now, Now', changed)
      PROVE  HistoryOK'
  <2> DEFINE u == LastUsed(used, h)
  <2>1. u \in Seq(Hashes) /\ Once(u) /\ ToSet(u) = ToSet(used) \cup {h}
    BY <1>1, LastUsedFacts
  <2>2. InOrder(Now', u, putBack)
    BY <1>1, <1>5, UseInOrder
  <2>3. used' = StillStored(u) /\ putBack' = putBack \cap Stored(cpu)'
    BY <1>5 DEF MarkUsed, LastUsed
  <2>4. StoredAnywhere' \subseteq ToSet(u)
    BY <1>3, <1>5, <2>1
  <2> HIDE DEF u
  <2> QED
    BY <2>1, <2>2, <2>3, <2>4, HistoryKept
<1>6. ASSUME NEW h \in Hashes, NEW snap \in Snapshots, HCapture(h, snap)
      PROVE  HistoryOK'
  <2>1. PICK preserve \in BOOLEAN, fails \in SUBSET Stored(device) :
           CapturePrefixState(h, snap, preserve, fails)
    BY <1>6 DEF HCapture
  <2>2. Keeps(Now, Now', {h})
    BY <2>1, CaptureStep
  <2>3. Use(h) /\ MarkUsed(h)
    BY <1>6, <2>1 DEF HCapture, Use
  <2> QED
    BY <1>5, <2>2, <2>3
<1>7. ASSUME NEW h \in Hashes, HRestore(h)
      PROVE  HistoryOK'
  <2>1. Keeps(Now, Now', {})
    BY <1>7, RestoreFromDeviceStep, RestoreFromCpuStep DEF HRestore
  <2>2. Use(h) /\ MarkUsed(h)
    BY <1>7 DEF HRestore, Use
  <2> QED
    BY <1>5, <2>1, <2>2
<1>8. ASSUME NEW h \in Hashes, HFailedUse(h)
      PROVE  HistoryOK'
  <2>1. PICK fails \in SUBSET Stored(device) : RestoreFromCpuFails(h, fails)
    BY <1>8 DEF HFailedUse
  <2>2. Keeps(Now, Now', {}) /\ InOrder(Now', used, putBack \cup {h})
    BY <1>1, <2>1, RestoreFromCpuFailsStep, PutBackInOrder
  <2>3. used' = StillStored(used) /\ putBack' = (putBack \cup {h}) \cap Stored(cpu)'
    BY <1>8 DEF HFailedUse
  <2> DEFINE back == putBack \cup {h}
  <2>4. InOrder(Now', used, back) /\ putBack' = back \cap Stored(cpu)'
    BY <2>2, <2>3
  <2> HIDE DEF back
  <2> QED
    BY <1>1, <1>3, <2>2, <2>3, <2>4, HistoryKept
<1> QED
  BY <1>4, <1>6, <1>7, <1>8 DEF HNext

LEMMA HistoryIsInvariant == HSpec => [](PrefixInv /\ HistoryOK)
<1>1. HInit => HistoryOK
  <2> SUFFICES ASSUME HInit PROVE HistoryOK
    OBVIOUS
  <2>1. used = <<>> /\ device = EmptyTier /\ cpu = EmptyTier
    BY DEF HInit, PrefixInit
  <2>2. Stored(EmptyTier) = {} /\ Follows(EmptyTier, used, {}) /\ Follows(EmptyTier, used, putBack)
    BY EmptyFollows
  <2>3. InOrder(Now, used, putBack)
    BY <2>1, <2>2, NowFields DEF InOrder, NewestOnDevice
  <2>4. used \in Seq(Hashes) /\ Once(used) /\ ToSet(used) = {}
    BY <2>1 DEF Once, ToSet
  <2> QED
    BY <2>1, <2>2, <2>3, <2>4 DEF HistoryOK, StoredAnywhere
<1>2. ASSUME PrefixInv, PrefixInv', HistoryOK, [HNext]_historyVars
      PROVE  HistoryOK'
  <2>1. CASE HNext
    BY <1>2, <2>1, HistoryStep
  <2>2. CASE UNCHANGED historyVars
    <3>1. /\ used' = used /\ putBack' = putBack /\ device' = device /\ cpu' = cpu
          /\ preserved' = preserved
      BY <2>2 DEF historyVars
    <3> QED
      BY <1>2, <3>1 DEF HistoryOK, StoredAnywhere, Stored, InOrder, Follows, NewestOnDevice,
                        Before, Now, Once, ToSet
  <2> QED
    BY <1>2, <2>1, <2>2
<1> QED
  BY <1>1, <1>2, HInvIsInvariant, PTL DEF HSpec

\* A queue that follows the order of use is the order of use of what it lists.
LEMMA FollowingIsOrder ==
  ASSUME HistoryOK, NEW q \in Seq(Hashes), Once(q), ToSet(q) \subseteq ToSet(used),
         \A a, b : Before(q, a, b) => Before(used, a, b)
  PROVE  InOrderOfUse(q)
<1> DEFINE r == OnlyIn(used, ToSet(q))
<1>1. used \in Seq(Hashes) /\ Once(used)
  BY DEF HistoryOK
<1>2. /\ r \in Seq(Hashes) /\ Once(r) /\ ToSet(r) = ToSet(used) \cap ToSet(q)
      /\ \A a, b : a \in ToSet(q) /\ b \in ToSet(q) /\ Before(used, a, b) => Before(r, a, b)
  BY <1>1, OnlyInFacts
<1>3. \A a, b : Before(q, a, b) => a \in ToSet(q) /\ b \in ToSet(q)
  BY BeforeListed
<1> HIDE DEF r
<1>4. ToSet(r) = ToSet(q)
  BY <1>2
<1>5. \A a, b \in Hashes : Before(q, a, b) => Before(r, a, b)
  BY <1>2, <1>3
<1>6. q = r
  BY <1>2, <1>4, <1>5, SameOrder
<1> QED
  BY <1>6 DEF InOrderOfUse, r

\* All four queues are in order of last use, but for what a failed promotion has
\* put back: each tier evicts the least recently used snapshot of a class.
THEOREM QueuesFollowUse == HSpec => []QueuesInOrderOfUse
<1>1. ASSUME PrefixInv, HistoryOK PROVE QueuesInOrderOfUse
  <2>1. TierOK(device, preserved) /\ TierOK(cpu, preserved)
    BY <1>1, NowFields DEF PrefixInv, WorldOK
  <2>2. Follows(device, used, {}) /\ Follows(cpu, used, putBack)
    BY <1>1, NowFields DEF HistoryOK, InOrder
  <2>3. Stored(device) \subseteq ToSet(used) /\ Stored(cpu) \subseteq ToSet(used)
    BY <1>1 DEF HistoryOK, StoredAnywhere
  <2>4. /\ device.lru \in Seq(Hashes) /\ device.plru \in Seq(Hashes)
        /\ cpu.lru \in Seq(Hashes) /\ cpu.plru \in Seq(Hashes)
    BY <2>1, TierType DEF TierOK
  <2>5. InOrderOfUse(device.lru) /\ InOrderOfUse(device.plru)
    <3>1. /\ ToSet(device.lru) \subseteq ToSet(used) /\ Once(device.lru)
          /\ ToSet(device.plru) \subseteq ToSet(used) /\ Once(device.plru)
      BY <2>1, <2>3 DEF TierOK
    <3>2. /\ \A a, b : Before(device.lru, a, b) => Before(used, a, b)
          /\ \A a, b : Before(device.plru, a, b) => Before(used, a, b)
      BY <2>2 DEF Follows
    <3> QED
      BY <1>1, <2>4, <3>1, <3>2, FollowingIsOrder
  <2>6. ASSUME NEW q \in Seq(Hashes), Once(q), ToSet(q) \subseteq Stored(cpu),
               \A a, b : Before(q, a, b) => Before(cpu.lru, a, b) \/ Before(cpu.plru, a, b)
        PROVE  InOrderOfUse(NotPutBack(q))
    <3> DEFINE x == OnlyIn(q, Hashes \ putBack)
    <3>1. /\ x \in Seq(Hashes) /\ Once(x) /\ ToSet(x) \subseteq ToSet(q)
          /\ \A a, b : Before(x, a, b) => /\ a \notin putBack /\ b \notin putBack
                                          /\ Before(q, a, b)
      BY <2>6, OnlyInFacts
    <3> HIDE DEF x
    <3>2. \A a, b : Before(x, a, b) => Before(used, a, b)
      BY <2>2, <2>6, <3>1 DEF Follows
    <3>3. ToSet(x) \subseteq ToSet(used)
      BY <2>3, <2>6, <3>1
    <3>4. InOrderOfUse(x)
      BY <1>1, <3>1, <3>2, <3>3, FollowingIsOrder
    <3> QED
      BY <3>4 DEF x, NotPutBack
  <2>7. InOrderOfUse(NotPutBack(cpu.lru)) /\ InOrderOfUse(NotPutBack(cpu.plru))
    BY <2>1, <2>4, <2>6 DEF TierOK
  <2> QED
    BY <2>5, <2>7 DEF QueuesInOrderOfUse
<1> QED
  BY <1>1, HistoryIsInvariant, PTL

\* Within a class no snapshot on the device was used before one on the CPU.
THEOREM NewestStayOnDevice == HSpec => []DeviceHoldsTheNewest
<1>1. ASSUME PrefixInv, HistoryOK PROVE DeviceHoldsTheNewest
  <2> SUFFICES ASSUME NEW i \in DOMAIN used, NEW j \in DOMAIN used,
                      used[i] \in Stored(device), used[j] \in Stored(cpu) \ putBack,
                      used[i] \in preserved <=> used[j] \in preserved
               PROVE  j < i
    BY DEF DeviceHoldsTheNewest
  <2>1. Before(used, used[j], used[i])
    BY <1>1, NowFields DEF HistoryOK, InOrder, NewestOnDevice
  <2>2. PICK k, m \in 1..Len(used) : k < m /\ used[k] = used[j] /\ used[m] = used[i]
    BY <2>1 DEF Before
  <2>3. used \in Seq(Hashes) /\ Once(used)
    BY <1>1 DEF HistoryOK
  <2>4. k = j /\ m = i
    BY <2>2, <2>3 DEF Once
  <2> QED
    BY <2>2, <2>4
<1> QED
  BY <1>1, HistoryIsInvariant, PTL
===============================================================================
