---------------------------- MODULE ExpertLruProofs ----------------------------
(***************************************************************************)
(* Proofs about ExpertLru, for every number of experts, slots, threads and *)
(* routed ids, as long as the tick has not wrapped.                        *)
(***************************************************************************)
EXTENDS ExpertLru, NumberFacts, SequenceTheorems

-------------------------------------------------------------------------------
(* The victim search finds a slot that was used longest ago.                 *)

Divides(a, b) == \E k \in Nat : b = a * k
PowerOfTwo(t) == \A d \in Nat : Divides(d, t) /\ d >= 2 => Divides(2, d)

LEMMA ModOfSum ==
  ASSUME NEW w \in Nat \ {0}, NEW q \in Nat, NEW r \in 0..(w - 1)
  PROVE  (w * q + r) % w = r /\ (w * q + r) \div w = q
<1> DEFINE a == w * q + r
<1>1. a \in Nat /\ a = w * q + r
  OBVIOUS
<1> HIDE DEF a
<1>2. a % w = r /\ a \div w = q
  BY <1>1, DivUnique
<1> QED
  BY <1>1, <1>2

LEMMA DividesMod ==
  ASSUME NEW a \in Nat \ {0}, NEW b \in Nat
  PROVE  Divides(a, b) <=> b % a = 0
<1>1. ASSUME NEW k \in Nat, b = a * k PROVE b % a = 0
  <2>1. (a * k + 0) % a = 0
    BY ModOfSum
  <2> QED
    BY <1>1, <2>1
<1>2. ASSUME b % a = 0 PROVE Divides(a, b)
  <2>1. b = a * (b \div a) + 0 /\ b \div a \in Nat
    BY <1>2, ModFacts
  <2> QED
    BY <2>1 DEF Divides
<1> QED
  BY <1>1, <1>2 DEF Divides

\* The divisors of a power of two are a chain of doublings.
LEMMA DivisorsDouble ==
  ASSUME NEW t \in Nat \ {0}, PowerOfTwo(t), NEW a \in Nat, NEW b \in Nat,
         Divides(a, t), Divides(b, t), a < b
  PROVE  Divides(2 * a, b)
<1> DEFINE Bad == {n \in Nat : /\ n # 0 /\ PowerOfTwo(n)
                               /\ \E c, d \in Nat : /\ Divides(c, n) /\ Divides(d, n)
                                                    /\ c < d /\ ~Divides(2 * c, d)}
<1> SUFFICES ASSUME Bad # {} PROVE FALSE
  OBVIOUS
<1>1. PICK n \in Bad : \A m \in Bad : n <= m
  BY LeastNumber
<1>2. PICK c, d \in Nat : Divides(c, n) /\ Divides(d, n) /\ c < d /\ ~Divides(2 * c, d)
  BY <1>1
<1>3. c # 0
  BY <1>1, <1>2 DEF Divides
<1>4. PICK e \in Nat : d = 2 * e
  <2>1. PowerOfTwo(n) /\ d >= 2
    BY <1>1, <1>2, <1>3
  <2>2. Divides(2, d)
    BY <1>2, <2>1 DEF PowerOfTwo
  <2> QED
    BY <2>2 DEF Divides
<1>5. PICK j \in Nat : n = d * j
  BY <1>2 DEF Divides
<1>6. c # 1
  BY <1>2, <1>4 DEF Divides
<1>7. PICK h \in Nat : c = 2 * h
  <2>1. PowerOfTwo(n) /\ c >= 2
    BY <1>1, <1>3, <1>6
  <2>2. Divides(2, c)
    BY <1>2, <2>1 DEF PowerOfTwo
  <2> QED
    BY <2>2 DEF Divides
<1>8. PICK k \in Nat : n = c * k
  BY <1>2 DEF Divides
<1> DEFINE m == e * j
<1>9. m \in Nat /\ n = 2 * m /\ m = h * k
  BY <1>4, <1>5, <1>7, <1>8
<1> HIDE DEF m
<1>10. Divides(e, m) /\ Divides(h, m)
  BY <1>9 DEF Divides, m
<1>11. h < e /\ ~Divides(2 * h, e)
  <2>1. ASSUME NEW i \in Nat, e = (2 * h) * i PROVE FALSE
    <3>1. d = (2 * c) * i
      BY <2>1, <1>4, <1>7
    <3> QED
      BY <3>1, <1>2 DEF Divides
  <2> QED
    BY <2>1, <1>2, <1>4, <1>7 DEF Divides
<1>12. PowerOfTwo(m)
  <2> SUFFICES ASSUME NEW i \in Nat, Divides(i, m), i >= 2 PROVE Divides(2, i)
    BY DEF PowerOfTwo
  <2>1. PICK l \in Nat : m = i * l
    BY DEF Divides
  <2>2. n = i * (2 * l)
    BY <2>1, <1>9
  <2>3. Divides(i, n)
    BY <2>2 DEF Divides
  <2> QED
    BY <1>1, <2>3 DEF PowerOfTwo
<1>13. m # 0 /\ m < n
  BY <1>1, <1>9
<1>14. m \in Bad
  BY <1>9, <1>10, <1>11, <1>12, <1>13
<1> QED
  BY <1>1, <1>9, <1>13, <1>14

\* A remainder modulo 2p is one modulo p and the next bit.
LEMMA NextBit ==
  ASSUME NEW p \in Nat \ {0}, NEW x \in Nat
  PROVE  x % (2 * p) = p * ((x \div p) % 2) + (x % p)
<1> DEFINE q == x \div p
           b == q % 2
           h == q \div 2
           r == x % p
<1>1. q \in Nat /\ r \in 0..(p - 1) /\ x = p * q + r
  BY ModFacts
<1> HIDE DEF q, r
<1>2. b \in 0..1 /\ h \in Nat /\ q = 2 * h + b
  BY <1>1
<1> HIDE DEF b, h
<1>3. p * b \in Nat /\ p * b <= p
  BY <1>2
<1>4. x = (2 * p) * h + (p * b + r)
  <2>1. p * (2 * h + b) = (2 * p) * h + p * b
    BY <1>2
  <2> QED
    BY <1>1, <1>2, <2>1
<1>5. p * b + r \in 0..(2 * p - 1) /\ 2 * p \in Nat \ {0}
  BY <1>1, <1>3
<1>6. x % (2 * p) = p * b + r
  BY <1>2, <1>4, <1>5, ModOfSum
<1> QED
  BY <1>6 DEF b, q, r

\* The remainder modulo a multiple of 2p keeps the lower part and the bit at p.
LEMMA RemainderBits ==
  ASSUME NEW p \in Nat \ {0}, NEW k \in Nat \ {0}, NEW w \in Nat \ {0},
         w = (2 * p) * k, NEW x \in Nat
  PROVE  x % p = (x % w) % p /\ (x \div p) % 2 = ((x % w) \div p) % 2
<1>2. PICK q \in Nat, r \in 0..(w - 1) : x = w * q + r /\ r = x % w
  BY ModFacts
<1>3. PICK n \in Nat, low \in 0..(p - 1) : r = p * n + low /\ low = r % p /\ n = r \div p
  BY ModFacts
<1>4. PICK m \in Nat : m = 2 * (k * q) /\ w * q = p * m
  <2>1. k * q \in Nat
    OBVIOUS
  <2>2. w * q = p * (2 * (k * q))
    OBVIOUS
  <2> QED
    BY <2>1, <2>2
<1>5. x = p * (m + n) + low
  <2>1. p * (m + n) = p * m + p * n
    OBVIOUS
  <2>2. w * q + r = p * m + (p * n + low)
    BY <1>3, <1>4
  <2>3. p * m \in Nat /\ p * n \in Nat
    OBVIOUS
  <2>4. p * m + (p * n + low) = (p * m + p * n) + low
    BY <2>3
  <2> QED
    BY <1>2, <2>1, <2>2, <2>4
<1>6. x % p = low /\ x \div p = m + n
  BY <1>5, ModOfSum
<1>7. (m + n) % 2 = n % 2
  BY <1>4
<1> QED
  BY <1>2, <1>3, <1>6, <1>7

\* Among any threads one is left of all the others.
LEMMA LeftmostExists ==
  ASSUME NEW C \in SUBSET (0..(Threads - 1)), C # {}
  PROVE  \E x \in C : \A y \in C : y = x \/ LeftOf(x, y)
<1> DEFINE Found(d, x) ==
             \A y \in C : \/ x % d = y % d
                          \/ \E s \in Strides : /\ s < d /\ x % s = y % s
                                                /\ (x \div s) % 2 < (y \div s) % 2
           Bad == {d \in Nat \ {0} : Divides(d, Threads) /\ \A x \in C : ~Found(d, x)}
<1>0. Threads \in Nat \ {0} /\ PowerOfTwo(Threads)
  <2>1. Threads \in Nat \ {0}
    BY ThreadsAssumption
  <2> SUFFICES ASSUME NEW d \in Nat, Divides(d, Threads), d >= 2 PROVE Divides(2, d)
    BY <2>1 DEF PowerOfTwo
  <2>2. d <= Threads
    <3>1. PICK k \in Nat : Threads = d * k
      BY DEF Divides
    <3>2. k # 0
      BY <2>1, <3>1
    <3> QED
      BY <3>1, <3>2
  <2>3. Threads % d = 0
    BY <2>1, DividesMod
  <2> QED
    BY <2>2, <2>3, ThreadsAssumption, DividesMod
<1>1. ASSUME Bad # {} PROVE FALSE
  <2>1. PICK d \in Bad : \A e \in Bad : d <= e
    BY <1>1, LeastNumber
  <2>2. Divides(d, Threads) /\ d \in Nat \ {0} /\ \A x \in C : ~Found(d, x)
    BY <2>1
  <2>3. d # 1
    <3>1. ASSUME d = 1 PROVE \A x \in C : Found(d, x)
      <4>1. \A x, y \in C : x % d = 0 /\ y % d = 0
        BY <1>0, <3>1
      <4> QED
        BY <4>1
    <3> HIDE DEF Found
    <3> QED
      BY <2>2, <3>1
  <2>4. PICK p \in Nat : d = 2 * p
    <3>1. Divides(2, d)
      BY <1>0, <2>2, <2>3 DEF PowerOfTwo
    <3> QED
      BY <3>1 DEF Divides
  <2>5. p \in Nat \ {0} /\ p < d /\ p \in Strides
    <3>1. PICK k \in Nat : Threads = (2 * p) * k
      BY <2>2, <2>4 DEF Divides
    <3>2. Threads = p * (2 * k) /\ p # 0 /\ k # 0
      BY <1>0, <2>2, <2>4, <3>1
    <3>3. p < Threads
      BY <2>4, <3>1, <3>2
    <3>4. Threads % p = 0
      BY <1>0, <3>2, DividesMod DEF Divides
    <3> QED
      BY <1>0, <2>4, <3>2, <3>3, <3>4 DEF Strides
  <2>6. Divides(p, Threads)
    BY <1>0, <2>5, DividesMod DEF Strides
  <2>7. PICK x \in C : Found(p, x)
    BY <2>1, <2>5, <2>6
  <2> DEFINE Same == {z \in C : z % p = x % p}
             Zero == {z \in Same : (z \div p) % 2 = 0}
  <2>8. PICK best \in Same : Zero # {} => best \in Zero
    BY <2>7
  <2>9. ASSUME NEW y \in C
        PROVE  \/ best % d = y % d
               \/ \E s \in Strides : /\ s < d /\ best % s = y % s
                                     /\ (best \div s) % 2 < (y \div s) % 2
    <3>1. best \in Nat /\ y \in Nat /\ x \in Nat
      BY <1>0
    <3>2. CASE y \in Same
      <4>1. best % p = y % p
        BY <3>2
      <4>2. CASE (best \div p) % 2 = (y \div p) % 2
        <5>1. /\ best % d = p * ((best \div p) % 2) + (best % p)
              /\ y % d = p * ((y \div p) % 2) + (y % p)
          BY <2>4, <2>5, <3>1, NextBit
        <5> QED
          BY <4>1, <4>2, <5>1
      <4>3. CASE (best \div p) % 2 # (y \div p) % 2
        <5>1. (best \div p) % 2 \in 0..1 /\ (y \div p) % 2 \in 0..1
          <6>1. best \div p \in Nat /\ y \div p \in Nat
            BY <2>5, <3>1, ModFacts
          <6> QED
            BY <6>1
        <5>2. (best \div p) % 2 = 0
          <6>1. CASE Zero # {}
            BY <2>8, <6>1
          <6>2. CASE Zero = {}
            <7>1. (best \div p) % 2 # 0 /\ (y \div p) % 2 # 0
              BY <3>2, <6>2
            <7> QED
              BY <4>3, <5>1, <7>1
          <6> QED
            BY <6>1, <6>2
        <5>3. (best \div p) % 2 < (y \div p) % 2
          BY <4>3, <5>1, <5>2
        <5> QED
          BY <2>5, <4>1, <5>3
      <4> QED
        BY <4>2, <4>3
    <3>3. CASE y \notin Same
      <4>1. PICK s \in Strides : /\ s < p /\ x % s = y % s
                                 /\ (x \div s) % 2 < (y \div s) % 2
        BY <2>7, <3>3
      <4>2. s \in Nat \ {0} /\ Divides(s, Threads)
        BY <1>0, DividesMod DEF Strides
      <4>3. Divides(2 * s, p)
        BY <1>0, <2>5, <2>6, <4>1, <4>2, DivisorsDouble
      <4>4. PICK k \in Nat : p = (2 * s) * k
        BY <4>3 DEF Divides
      <4>5. k # 0
        BY <2>5, <4>2, <4>4
      <4>6. best % p = x % p
        BY <2>8
      <4>7. best % s = x % s /\ (best \div s) % 2 = (x \div s) % 2
        <5> HIDE DEF Same
        <5>1. best % s = (best % p) % s /\ (best \div s) % 2 = ((best % p) \div s) % 2
          BY <2>5, <3>1, <4>2, <4>4, <4>5, RemainderBits
        <5>2. x % s = (x % p) % s /\ (x \div s) % 2 = ((x % p) \div s) % 2
          BY <2>5, <3>1, <4>2, <4>4, <4>5, RemainderBits
        <5> QED
          BY <4>6, <5>1, <5>2
      <4>8. s < d /\ best % s = y % s /\ (best \div s) % 2 < (y \div s) % 2
        BY <2>5, <4>1, <4>2, <4>7
      <4> QED
        BY <4>8
    <3> QED
      BY <3>2, <3>3
  <2>10. Found(d, best)
    BY <2>9
  <2> QED
    BY <2>2, <2>10
<1>2. PICK x \in C : Found(Threads, x)
  <2>1. Divides(Threads, Threads)
    BY <1>0 DEF Divides
  <2> QED
    BY <1>0, <1>1, <2>1
<1>3. ASSUME NEW y \in C PROVE y = x \/ LeftOf(x, y)
  <2>1. x % Threads = x /\ y % Threads = y
    BY <1>0
  <2> QED
    BY <1>2, <2>1 DEF LeftOf
<1> QED
  BY <1>3

LEMMA VictimIsOldest ==
  ASSUME NEW used \in [Slots -> Nat], NEW now \in Nat, \E s \in Slots : used[s] < now
  PROVE  /\ Victim(used, now) \in Slots
         /\ used[Victim(used, now)] < now
         /\ \A t \in Slots : used[t] < now => used[Victim(used, now)] <= used[t]
<1> DEFINE C == {s \in Slots : used[s] < now}
<1>0. Threads \in Nat \ {0} /\ Slots \subseteq Nat
  BY ThreadsAssumption DEF Slots
<1>1. PICK oldest \in {used[s] : s \in C} : \A u \in {used[s] : s \in C} : oldest <= u
  <2>1. {used[s] : s \in C} \subseteq Nat /\ {used[s] : s \in C} # {}
    OBVIOUS
  <2> QED
    BY <2>1, LeastNumber
<1> DEFINE Old == {s \in C : used[s] = oldest}
<1>2. PICK x \in {ThreadOf(s) : s \in Old} :
        \A y \in {ThreadOf(s) : s \in Old} : y = x \/ LeftOf(x, y)
  <2>1. {ThreadOf(s) : s \in Old} \subseteq 0..(Threads - 1)
    BY <1>0 DEF ThreadOf
  <2>2. {ThreadOf(s) : s \in Old} # {}
    BY <1>1
  <2> QED
    BY <2>1, <2>2, LeftmostExists
<1> DEFINE Mine == {s \in Old : ThreadOf(s) = x}
<1>3. PICK s \in Mine : \A t \in Mine : s <= t
  <2>1. Mine \subseteq Nat /\ Mine # {}
    BY <1>0, <1>2
  <2> QED
    BY <2>1, LeastNumber
<1>4. ASSUME NEW t \in C PROVE Better(used, s, t)
  <2>1. used[s] = oldest /\ oldest \in Nat /\ used[t] \in Nat /\ oldest <= used[t]
    BY <1>1, <1>3
  <2>2. CASE used[t] # oldest
    BY <2>1, <2>2 DEF Better
  <2>3. CASE used[t] = oldest /\ ThreadOf(t) # x
    BY <1>2, <1>3, <2>1, <2>3 DEF Better
  <2>4. CASE used[t] = oldest /\ ThreadOf(t) = x
    BY <1>3, <2>1, <2>4 DEF Better
  <2> QED
    BY <2>2, <2>3, <2>4
<1> DEFINE v == CHOOSE c \in C : \A t \in C : Better(used, c, t)
<1>5. v \in C /\ \A t \in C : Better(used, v, t)
  BY <1>3, <1>4
<1>6. Victim(used, now) = v
  BY DEF Victim
<1>7. ASSUME NEW t \in C PROVE used[v] <= used[t]
  BY <1>5 DEF Better
<1> HIDE DEF v
<1> QED
  BY <1>5, <1>6, <1>7
-------------------------------------------------------------------------------
(* The loop over the routed ids.                                             *)

Misses == [expert : Experts, slot : Slots]

WorkTables(now) ==
  [slotOf : [Experts -> Slots \cup {EMPTY}], expertOf : [Slots -> Experts \cup {EMPTY}],
   lastUsed : [Slots -> 0..now], misses : Seq(Misses)]

\* The tables and the misses while a call is at work.
InverseIn(w) ==
  /\ \A e \in Experts : w.slotOf[e] # EMPTY => w.expertOf[w.slotOf[e]] = e
  /\ \A s \in Slots : w.expertOf[s] # EMPTY => w.slotOf[w.expertOf[s]] = s

\* A slot is in use in this call iff it holds one of its experts.
InUseByCall(w, routed, now) ==
  /\ \A s \in Slots : w.lastUsed[s] = now => w.expertOf[s] \in ToSet(routed)
  /\ \A e \in ToSet(routed) : w.slotOf[e] # EMPTY => w.lastUsed[w.slotOf[e]] = now

MissesPlaced(w, now) ==
  /\ \A k \in 1..Len(w.misses) :
       /\ w.lastUsed[w.misses[k].slot] = now
       /\ w.expertOf[w.misses[k].slot] = w.misses[k].expert
  /\ \A k, l \in 1..Len(w.misses) : w.misses[k].slot = w.misses[l].slot => k = l
  /\ \A s \in Slots : \/ w.expertOf[s] = expertOf[s]
                      \/ \E k \in 1..Len(w.misses) : w.misses[k].slot = s

\* What the call has not used is as it was, and no slot it has taken over was used
\* after one it has not.
OldestTaken(w, now) ==
  /\ \A s \in Slots : w.lastUsed[s] # now =>
       w.expertOf[s] = expertOf[s] /\ w.lastUsed[s] = lastUsed[s]
  /\ \A s \in Slots : w.expertOf[s] # EMPTY <=> w.lastUsed[s] # 0
  /\ \A s \in Slots : w.expertOf[s] # expertOf[s] =>
       /\ \A t \in Slots : w.lastUsed[t] # now => lastUsed[s] <= lastUsed[t]
       /\ expertOf[s] # EMPTY => \A t \in Slots : w.lastUsed[t] # 0

LoopInv(w, routed, now, i) ==
  /\ w \in WorkTables(now)
  /\ InverseIn(w)
  /\ InUseByCall(w, routed, now)
  /\ MissesPlaced(w, now)
  /\ OldestTaken(w, now)
  /\ \A j \in 1..i : w.slotOf[routed[j]] # EMPTY

\* The inductive invariant of the specification.
TickInv == tick \in 0..MaxTick /\ \A s \in Slots : lastUsed[s] <= tick
UsedInv == \A s \in Slots : expertOf[s] # EMPTY <=> lastUsed[s] # 0
MissInv ==
  /\ \A k \in DOMAIN misses : expertOf[misses[k].slot] = misses[k].expert
  /\ \A s \in Slots :
       expertOf[s] # EMPTY /\ weights[s] # expertOf[s]
         => \E k \in DOMAIN misses : misses[k].slot = s
Inv == TypeOK /\ TickInv /\ TablesInverse /\ UsedInv /\ RoutedAreResident /\ MissInv
-------------------------------------------------------------------------------
LEMMA SlotFacts ==
  /\ NumSlots \in Nat \ {0}
  /\ Slots \subseteq Nat /\ IsFiniteSet(Slots) /\ Cardinality(Slots) = NumSlots
  /\ EMPTY \notin Slots /\ EMPTY \notin Experts
<1>1. NumSlots \in Nat \ {0}
  BY SizesAssumption
<1>2. IsFiniteSet(0..(NumSlots - 1)) /\ Cardinality(0..(NumSlots - 1)) = NumSlots
  BY <1>1, FS_Interval
<1> QED
  BY <1>1, <1>2, EmptyAssumption DEF Slots

LEMMA RoutedFacts ==
  ASSUME NEW routed \in Routings
  PROVE  /\ routed \in Seq(Experts) /\ Len(routed) \in Nat \ {0}
         /\ routed \in [1..Len(routed) -> Experts]
         /\ ToSet(routed) \subseteq Experts
         /\ \A j \in 1..Len(routed) : routed[j] \in ToSet(routed)
         /\ IsFiniteSet(ToSet(routed)) /\ Cardinality(ToSet(routed)) <= NumSlots
<1>1. PICK n \in 1..MaxIds : routed \in [1..n -> Experts]
  BY DEF Routings
<1>2. n \in Nat \ {0}
  BY SizesAssumption
<1>3. routed \in Seq(Experts) /\ Len(routed) = n
  BY <1>1, <1>2, LenProperties, SeqDef
<1>4. routed \in Surjection(1..n, ToSet(routed))
  BY <1>1 DEF ToSet, Surjection
<1>5. IsFiniteSet(1..n)
  BY <1>2, FS_Interval
<1>6. IsFiniteSet(ToSet(routed))
  BY <1>4, <1>5, FS_Surjection
<1>7. Cardinality(ToSet(routed)) <= NumSlots
  BY DEF Routings, Distinct
<1> QED
  BY <1>1, <1>2, <1>3, <1>6, <1>7 DEF ToSet

\* While a routed expert has no slot, a slot is not in use and the miss list has room.
LEMMA RoomForMiss ==
  ASSUME NEW w, NEW routed \in Routings, NEW now \in Nat \ {0}, NEW i \in Nat,
         LoopInv(w, routed, now, i),
         NEW e \in ToSet(routed), w.slotOf[e] = EMPTY
  PROVE  /\ \E s \in Slots : w.lastUsed[s] < now
         /\ Len(w.misses) \in Nat /\ Len(w.misses) < NumSlots
<1> USE DEF LoopInv
<1>1. w \in WorkTables(now)
  OBVIOUS
<1>2. /\ Cardinality(ToSet(routed) \ {e}) < Cardinality(Slots)
      /\ IsFiniteSet(ToSet(routed) \ {e})
  <2>1. /\ IsFiniteSet(ToSet(routed)) /\ Cardinality(ToSet(routed)) \in Nat
        /\ Cardinality(ToSet(routed)) <= NumSlots
    BY RoutedFacts, FS_CardinalityType
  <2>2. /\ IsFiniteSet(ToSet(routed) \ {e})
        /\ Cardinality(ToSet(routed) \ {e}) = Cardinality(ToSet(routed)) - 1
    BY <2>1, FS_RemoveElement
  <2> QED
    BY <2>1, <2>2, SlotFacts
<1>3. \E s \in Slots : w.lastUsed[s] < now
  <2> SUFFICES ASSUME \A s \in Slots : w.lastUsed[s] = now PROVE FALSE
    BY <1>1 DEF WorkTables
  <2>1. w.expertOf \in [Slots -> ToSet(routed) \ {e}]
    <3>1. ASSUME NEW s \in Slots PROVE w.expertOf[s] \in ToSet(routed) \ {e}
      <4>1. w.expertOf[s] \in ToSet(routed)
        BY DEF InUseByCall
      <4>2. w.slotOf[w.expertOf[s]] = s /\ s # EMPTY
        BY <4>1, RoutedFacts, SlotFacts DEF InverseIn
      <4> QED
        BY <4>1, <4>2
    <3> QED
      BY <1>1, <3>1 DEF WorkTables
  <2>2. \A s, t \in Slots : w.expertOf[s] = w.expertOf[t] => s = t
    <3>1. ASSUME NEW s \in Slots PROVE w.slotOf[w.expertOf[s]] = s
      BY <2>1, RoutedFacts, SlotFacts DEF InverseIn
    <3> QED
      BY <3>1
  <2> QED
    BY <1>2, <2>1, <2>2, NoRoomForAll
<1>4. PICK v \in Slots : w.lastUsed[v] < now
  BY <1>3
<1>5. Len(w.misses) \in Nat /\ w.misses \in Seq(Misses)
  BY <1>1 DEF WorkTables
<1>6. ASSUME Len(w.misses) >= NumSlots PROVE FALSE
  <2> DEFINE f == [k \in 1..Len(w.misses) |-> w.misses[k].slot]
  <2>1. IsFiniteSet(Slots \ {v}) /\ Cardinality(Slots \ {v}) = NumSlots - 1
    BY SlotFacts, FS_RemoveElement
  <2>2. Cardinality(1..Len(w.misses)) = Len(w.misses)
    BY <1>5, FS_Interval
  <2>3. f \in [1..Len(w.misses) -> Slots \ {v}]
    <3>1. ASSUME NEW k \in 1..Len(w.misses) PROVE w.misses[k].slot \in Slots \ {v}
      <4>1. w.misses[k] \in Misses
        BY <1>5, ElementOfSeq
      <4>2. w.lastUsed[w.misses[k].slot] = now
        BY DEF MissesPlaced
      <4> QED
        BY <1>4, <4>1, <4>2 DEF Misses
    <3> QED
      BY <3>1
  <2>4. \A k, l \in 1..Len(w.misses) : f[k] = f[l] => k = l
    BY DEF MissesPlaced
  <2>5. Cardinality(Slots \ {v}) < Cardinality(1..Len(w.misses))
    BY <1>5, <1>6, <2>1, <2>2, SlotFacts
  <2> HIDE DEF f
  <2> QED
    BY <2>1, <2>3, <2>4, <2>5, NoRoomForAll
<1> QED
  BY <1>3, <1>5, <1>6, SlotFacts

\* What Assign does to a miss.
LEMMA AssignMiss ==
  ASSUME NEW now \in Nat \ {0}, NEW w \in WorkTables(now), NEW e \in Experts,
         w.slotOf[e] = EMPTY, Len(w.misses) < NumSlots,
         NEW v \in Slots, v = Victim(w.lastUsed, now)
  PROVE  LET x == Assign(w, e, now)
         IN  /\ x \in WorkTables(now)
             /\ x.slotOf[e] = v
             /\ \A f \in Experts \ {e} :
                  x.slotOf[f] = IF f = w.expertOf[v] THEN EMPTY ELSE w.slotOf[f]
             /\ x.expertOf = [w.expertOf EXCEPT ![v] = e]
             /\ x.lastUsed = [w.lastUsed EXCEPT ![v] = now]
             /\ x.misses = Append(w.misses, [expert |-> e, slot |-> v])
<1> DEFINE x == Assign(w, e, now)
           slots == [f \in Experts |-> CASE f = e -> v
                                         [] f # e /\ f = w.expertOf[v] -> EMPTY
                                         [] OTHER -> w.slotOf[f]]
           list == Append(w.misses, [expert |-> e, slot |-> v])
<1>1. x = [slotOf |-> slots,
           expertOf |-> [w.expertOf EXCEPT ![v] = e],
           lastUsed |-> [w.lastUsed EXCEPT ![v] = now],
           misses |-> list]
  BY DEF Assign
<1>2. /\ w.slotOf \in [Experts -> Slots \cup {EMPTY}]
      /\ w.expertOf \in [Slots -> Experts \cup {EMPTY}]
      /\ w.lastUsed \in [Slots -> 0..now] /\ w.misses \in Seq(Misses)
  BY DEF WorkTables
<1>3. /\ slots[e] = v
      /\ \A f \in Experts \ {e} :
           slots[f] = IF f = w.expertOf[v] THEN EMPTY ELSE w.slotOf[f]
  OBVIOUS
<1>4. slots \in [Experts -> Slots \cup {EMPTY}]
  BY <1>2
<1>5. list \in Seq(Misses)
  <2>1. [expert |-> e, slot |-> v] \in Misses
    BY DEF Misses
  <2> QED
    BY <1>2, <2>1, AppendProperties
<1> HIDE DEF slots, list
<1>6. [w.lastUsed EXCEPT ![v] = now] \in [Slots -> 0..now]
  BY <1>2
<1>7. [w.expertOf EXCEPT ![v] = e] \in [Slots -> Experts \cup {EMPTY}]
  BY <1>2
<1>8. x \in WorkTables(now)
  BY <1>1, <1>4, <1>5, <1>6, <1>7 DEF WorkTables
<1> QED
  BY <1>1, <1>3, <1>8 DEF list

LEMMA MissKeepsLoopInv ==
  ASSUME NEW routed \in Routings, NEW now \in Nat \ {0}, NEW i \in Nat, NEW w,
         i + 1 \in 1..Len(routed), LoopInv(w, routed, now, i),
         w.slotOf[routed[i + 1]] = EMPTY,
         lastUsed \in [Slots -> Nat]
  PROVE  LoopInv(Assign(w, routed[i + 1], now), routed, now, i + 1)
<1>1. PICK e \in Experts : e = routed[i + 1] /\ e \in ToSet(routed)
  BY RoutedFacts
<1>2. PICK v \in Slots :
        /\ v = Victim(w.lastUsed, now) /\ w.lastUsed[v] < now
        /\ \A t \in Slots : w.lastUsed[t] < now => w.lastUsed[v] <= w.lastUsed[t]
  <2>1. w.lastUsed \in [Slots -> Nat]
    BY DEF LoopInv, WorkTables
  <2>2. \E s \in Slots : w.lastUsed[s] < now
    BY <1>1, RoomForMiss
  <2> QED
    BY <2>1, <2>2, VictimIsOldest
<1>3. w \in WorkTables(now) /\ Len(w.misses) < NumSlots /\ Len(w.misses) \in Nat
  BY <1>1, RoomForMiss DEF LoopInv
<1>4. /\ w.slotOf \in [Experts -> Slots \cup {EMPTY}]
      /\ w.expertOf \in [Slots -> Experts \cup {EMPTY}]
      /\ w.lastUsed \in [Slots -> 0..now]
      /\ w.misses \in Seq(Misses)
  BY <1>3 DEF WorkTables
<1>5. PICK x : /\ x = Assign(w, e, now)
               /\ x \in WorkTables(now)
               /\ x.slotOf[e] = v
               /\ \A f \in Experts \ {e} :
                    x.slotOf[f] = IF f = w.expertOf[v] THEN EMPTY ELSE w.slotOf[f]
               /\ x.expertOf = [w.expertOf EXCEPT ![v] = e]
               /\ x.lastUsed = [w.lastUsed EXCEPT ![v] = now]
               /\ x.misses = Append(w.misses, [expert |-> e, slot |-> v])
  BY <1>1, <1>2, <1>3, AssignMiss
<1>6. /\ x.expertOf[v] = e /\ \A s \in Slots \ {v} : x.expertOf[s] = w.expertOf[s]
      /\ x.lastUsed[v] = now /\ \A s \in Slots \ {v} : x.lastUsed[s] = w.lastUsed[s]
  BY <1>4, <1>5
<1>7. /\ Len(x.misses) = Len(w.misses) + 1
      /\ x.misses[Len(w.misses) + 1].expert = e
      /\ x.misses[Len(w.misses) + 1].slot = v
      /\ \A k \in 1..Len(w.misses) : x.misses[k] = w.misses[k] /\ w.misses[k] \in Misses
  <2>1. [expert |-> e, slot |-> v] \in Misses
    BY DEF Misses
  <2> QED
    BY <1>4, <1>5, <2>1, AppendProperties, ElementOfSeq
\* The victim does not hold an expert of this call.
<1>8. \A f \in ToSet(routed) : f # w.expertOf[v]
  <2> SUFFICES ASSUME NEW f \in ToSet(routed), f = w.expertOf[v] PROVE FALSE
    OBVIOUS
  <2>1. w.slotOf[f] = v
    BY RoutedFacts, SlotFacts DEF LoopInv, InverseIn
  <2>2. w.lastUsed[v] = now
    BY <2>1, SlotFacts DEF LoopInv, InUseByCall
  <2> QED
    BY <1>2, <1>4, <2>2
<1>9. InverseIn(x)
  <2>1. ASSUME NEW f \in Experts, x.slotOf[f] # EMPTY PROVE x.expertOf[x.slotOf[f]] = f
    <3>1. CASE f = e
      BY <1>5, <1>6, <3>1
    <3>2. CASE f # e
      <4>1. f # w.expertOf[v] /\ x.slotOf[f] = w.slotOf[f] /\ w.slotOf[f] \in Slots
        BY <1>4, <1>5, <2>1, <3>2
      <4>2. w.expertOf[w.slotOf[f]] = f
        BY <2>1, <4>1 DEF LoopInv, InverseIn
      <4> QED
        BY <1>6, <4>1, <4>2
    <3> QED
      BY <3>1, <3>2
  <2>2. ASSUME NEW s \in Slots, x.expertOf[s] # EMPTY PROVE x.slotOf[x.expertOf[s]] = s
    <3>1. CASE s = v
      BY <1>5, <1>6, <3>1
    <3>2. CASE s # v
      <4>1. x.expertOf[s] = w.expertOf[s] /\ w.expertOf[s] \in Experts
        BY <1>4, <1>6, <2>2, <3>2
      <4>2. w.slotOf[w.expertOf[s]] = s
        BY <2>2, <4>1 DEF LoopInv, InverseIn
      <4>3. w.expertOf[s] # e
        BY <1>1, <4>2, SlotFacts
      <4>4. w.expertOf[s] # w.expertOf[v]
        <5>1. w.expertOf[v] # EMPTY => w.slotOf[w.expertOf[v]] = v
          BY DEF LoopInv, InverseIn
        <5> QED
          BY <3>2, <4>1, <4>2, <5>1, SlotFacts
      <4> QED
        BY <1>5, <4>1, <4>2, <4>3, <4>4
    <3> QED
      BY <3>1, <3>2
  <2> QED
    BY <2>1, <2>2 DEF InverseIn
<1>10. InUseByCall(x, routed, now)
  <2>1. ASSUME NEW s \in Slots, x.lastUsed[s] = now PROVE x.expertOf[s] \in ToSet(routed)
    BY <1>1, <1>6, <2>1 DEF LoopInv, InUseByCall
  <2>2. ASSUME NEW f \in ToSet(routed), x.slotOf[f] # EMPTY
        PROVE  x.lastUsed[x.slotOf[f]] = now
    <3>1. CASE f = e
      BY <1>5, <1>6, <3>1
    <3>2. CASE f # e
      <4>1. f \in Experts /\ x.slotOf[f] = w.slotOf[f] /\ w.slotOf[f] \in Slots
        BY <1>4, <1>5, <1>8, <2>2, <3>2, RoutedFacts
      <4>2. w.lastUsed[w.slotOf[f]] = now
        BY <2>2, <4>1 DEF LoopInv, InUseByCall
      <4> QED
        BY <1>6, <4>1, <4>2
    <3> QED
      BY <3>1, <3>2
  <2> QED
    BY <2>1, <2>2 DEF InUseByCall
<1>11. MissesPlaced(x, now)
  <2>0. \A k \in 1..Len(x.misses) : k \in 1..Len(w.misses) \/ k = Len(w.misses) + 1
    <3>1. Len(x.misses) = Len(w.misses) + 1 /\ Len(w.misses) \in Nat
      BY <1>3, <1>7
    <3> QED
      BY <3>1
  <2>1. \A k \in 1..Len(w.misses) :
          /\ w.misses[k].slot \in Slots \ {v}
          /\ w.lastUsed[w.misses[k].slot] = now
          /\ w.expertOf[w.misses[k].slot] = w.misses[k].expert
    <3> SUFFICES ASSUME NEW k \in 1..Len(w.misses)
                 PROVE  /\ w.misses[k].slot \in Slots \ {v}
                        /\ w.lastUsed[w.misses[k].slot] = now
                        /\ w.expertOf[w.misses[k].slot] = w.misses[k].expert
      OBVIOUS
    <3>1. /\ w.lastUsed[w.misses[k].slot] = now
          /\ w.expertOf[w.misses[k].slot] = w.misses[k].expert
      BY DEF LoopInv, MissesPlaced
    <3>2. w.misses[k].slot \in Slots
      <4>1. w.misses[k] \in Misses
        BY <1>7
      <4> QED
        BY <4>1 DEF Misses
    <3>3. w.lastUsed[v] # now
      BY <1>2, <1>4
    <3> QED
      BY <3>1, <3>2, <3>3
  <2>2. ASSUME NEW k \in 1..Len(x.misses)
        PROVE  /\ x.lastUsed[x.misses[k].slot] = now
               /\ x.expertOf[x.misses[k].slot] = x.misses[k].expert
    <3>1. CASE k = Len(w.misses) + 1
      BY <1>6, <1>7, <3>1
    <3>2. CASE k \in 1..Len(w.misses)
      <4>1. x.misses[k].slot = w.misses[k].slot /\ x.misses[k].expert = w.misses[k].expert
        BY <1>7, <3>2
      <4> QED
        BY <1>6, <2>1, <3>2, <4>1
    <3> QED
      BY <2>0, <3>1, <3>2
  <2>3. ASSUME NEW k \in 1..Len(x.misses), NEW l \in 1..Len(x.misses),
               x.misses[k].slot = x.misses[l].slot
        PROVE  k = l
    <3>1. CASE k \in 1..Len(w.misses) /\ l \in 1..Len(w.misses)
      BY <1>7, <2>3, <3>1 DEF LoopInv, MissesPlaced
    <3>2. CASE k = Len(w.misses) + 1 /\ l \in 1..Len(w.misses)
      <4>1. x.misses[l].slot \in Slots \ {v}
        BY <1>7, <2>1, <3>2
      <4> QED
        BY <1>7, <2>3, <3>2, <4>1
    <3>3. CASE l = Len(w.misses) + 1 /\ k \in 1..Len(w.misses)
      <4>1. x.misses[k].slot \in Slots \ {v}
        BY <1>7, <2>1, <3>3
      <4> QED
        BY <1>7, <2>3, <3>3, <4>1
    <3>4. CASE k = Len(w.misses) + 1 /\ l = Len(w.misses) + 1
      BY <3>4
    <3> QED
      BY <2>0, <3>1, <3>2, <3>3, <3>4
  <2>4. ASSUME NEW s \in Slots, x.expertOf[s] # expertOf[s]
        PROVE  \E k \in 1..Len(x.misses) : x.misses[k].slot = s
    <3>1. CASE s = v
      <4>1. Len(w.misses) + 1 \in 1..Len(x.misses)
        BY <1>3, <1>7
      <4> QED
        BY <1>7, <3>1, <4>1
    <3>2. CASE s # v
      <4>1. PICK k \in 1..Len(w.misses) : w.misses[k].slot = s
        BY <1>6, <2>4, <3>2 DEF LoopInv, MissesPlaced
      <4>2. k \in 1..Len(x.misses)
        BY <1>3, <1>7
      <4> QED
        BY <1>7, <4>1, <4>2
    <3> QED
      BY <3>1, <3>2
  <2> QED
    BY <2>2, <2>3, <2>4 DEF MissesPlaced
<1>12. OldestTaken(x, now)
  <2>1. ASSUME NEW s \in Slots, x.lastUsed[s] # now
        PROVE  x.expertOf[s] = expertOf[s] /\ x.lastUsed[s] = lastUsed[s]
    BY <1>6, <2>1 DEF LoopInv, OldestTaken
  <2>2. ASSUME NEW s \in Slots PROVE x.expertOf[s] # EMPTY <=> x.lastUsed[s] # 0
    BY <1>6, SlotFacts DEF LoopInv, OldestTaken
  <2>3. \A t \in Slots : w.lastUsed[t] # now => w.lastUsed[v] <= w.lastUsed[t]
    BY <1>2, <1>4
  <2>4. w.expertOf[v] = expertOf[v] /\ w.lastUsed[v] = lastUsed[v]
    BY <1>2, <1>4 DEF LoopInv, OldestTaken
  <2>5. ASSUME NEW s \in Slots, x.expertOf[s] # expertOf[s], NEW t \in Slots, x.lastUsed[t] # now
        PROVE  lastUsed[s] <= lastUsed[t]
    <3>1. t # v /\ w.lastUsed[t] # now /\ w.lastUsed[t] = lastUsed[t]
      BY <1>6, <2>5 DEF LoopInv, OldestTaken
    <3>2. CASE s = v
      BY <2>3, <2>4, <3>1, <3>2
    <3>3. CASE s # v
      BY <1>6, <2>5, <3>1, <3>3 DEF LoopInv, OldestTaken
    <3> QED
      BY <3>2, <3>3
  <2>6. ASSUME NEW s \in Slots, x.expertOf[s] # expertOf[s], expertOf[s] # EMPTY,
               NEW t \in Slots
        PROVE  x.lastUsed[t] # 0
    <3>1. CASE t = v
      BY <1>6, <3>1
    <3>2. CASE t # v /\ s # v
      BY <1>6, <2>6, <3>2 DEF LoopInv, OldestTaken
    <3>3. CASE t # v /\ s = v
      <4>1. w.lastUsed[v] # 0
        BY <2>4, <2>6, <3>3 DEF LoopInv, OldestTaken
      <4>2. w.lastUsed[t] # 0
        <5>1. w.lastUsed[v] \in Nat /\ w.lastUsed[t] \in Nat
          BY <1>4
        <5>2. CASE w.lastUsed[t] = now
          BY <5>2
        <5>3. CASE w.lastUsed[t] # now
          BY <2>3, <4>1, <5>1, <5>3
        <5> QED
          BY <5>2, <5>3
      <4> QED
        BY <1>6, <3>3, <4>2
    <3> QED
      BY <3>1, <3>2, <3>3
  <2> QED
    BY <2>1, <2>2, <2>5, <2>6 DEF OldestTaken
<1>13. ASSUME NEW j \in 1..(i + 1) PROVE x.slotOf[routed[j]] # EMPTY
  <2>1. CASE routed[j] = e
    BY <1>5, <2>1, SlotFacts
  <2>2. CASE routed[j] # e
    <3>1. j \in 1..i /\ j \in 1..Len(routed)
      BY <1>1, <2>2, RoutedFacts
    <3>2. w.slotOf[routed[j]] # EMPTY
      BY <3>1 DEF LoopInv
    <3>3. routed[j] \in Experts /\ routed[j] # w.expertOf[v]
      BY <1>8, <3>1, RoutedFacts
    <3> QED
      BY <1>5, <2>2, <3>2, <3>3
  <2> QED
    BY <2>1, <2>2
<1>14. LoopInv(x, routed, now, i + 1)
  BY <1>5, <1>9, <1>10, <1>11, <1>12, <1>13 DEF LoopInv
<1> QED
  BY <1>1, <1>5, <1>14

Start(routed, now) ==
  [slotOf |-> slotOf, expertOf |-> expertOf,
   lastUsed |-> MarkResident(routed, now), misses |-> <<>>]

LEMMA LoopStarts ==
  ASSUME Inv, NEW routed \in Routings, NEW now \in Nat, now = tick + 1
  PROVE  LoopInv(Start(routed, now), routed, now, 0)
<1> DEFINE w == Start(routed, now)
<1>1. /\ slotOf \in [Experts -> Slots \cup {EMPTY}]
      /\ expertOf \in [Slots -> Experts \cup {EMPTY}]
      /\ lastUsed \in [Slots -> Nat] /\ tick \in Nat
      /\ \A s \in Slots : lastUsed[s] <= tick
  BY SizesAssumption DEF Inv, TypeOK, TickInv
<1>2. /\ w.slotOf = slotOf /\ w.expertOf = expertOf /\ w.misses = <<>>
      /\ w.lastUsed = [s \in Slots |-> IF \E e \in ToSet(routed) : slotOf[e] = s
                                       THEN now ELSE lastUsed[s]]
  BY DEF Start, MarkResident
<1>3. w \in WorkTables(now)
  <2>1. MarkResident(routed, now) \in [Slots -> 0..now]
    BY <1>1 DEF MarkResident
  <2> QED
    BY <1>1, <2>1 DEF Start, WorkTables
<1> HIDE DEF w
<1>4. InverseIn(w)
  BY <1>2 DEF Inv, TablesInverse, InverseIn
<1>5. InUseByCall(w, routed, now)
  <2>1. ASSUME NEW s \in Slots, w.lastUsed[s] = now PROVE w.expertOf[s] \in ToSet(routed)
    <3>1. PICK e \in ToSet(routed) : slotOf[e] = s
      BY <1>1, <1>2, <2>1
    <3>2. expertOf[s] = e
      BY <3>1, RoutedFacts, SlotFacts DEF Inv, TablesInverse
    <3> QED
      BY <1>2, <3>2
  <2>2. ASSUME NEW e \in ToSet(routed), w.slotOf[e] # EMPTY
        PROVE  w.lastUsed[w.slotOf[e]] = now
    <3>1. slotOf[e] \in Slots
      BY <1>1, <1>2, <2>2, RoutedFacts
    <3> QED
      BY <1>2, <3>1
  <2> QED
    BY <2>1, <2>2 DEF InUseByCall
<1>6. MissesPlaced(w, now)
  BY <1>2 DEF MissesPlaced
<1>7. OldestTaken(w, now)
  <2>1. ASSUME NEW s \in Slots PROVE w.expertOf[s] # EMPTY <=> w.lastUsed[s] # 0
    <3>1. CASE w.lastUsed[s] = lastUsed[s]
      BY <1>2, <3>1 DEF Inv, UsedInv
    <3>2. CASE w.lastUsed[s] # lastUsed[s]
      <4>1. PICK e \in ToSet(routed) : slotOf[e] = s /\ w.lastUsed[s] = now
        BY <1>2, <3>2
      <4>2. expertOf[s] = e
        BY <4>1, RoutedFacts, SlotFacts DEF Inv, TablesInverse
      <4> QED
        BY <1>1, <1>2, <4>1, <4>2, RoutedFacts, SlotFacts
    <3> QED
      BY <3>1, <3>2
  <2> QED
    BY <1>2, <2>1 DEF OldestTaken
<1> QED
  BY <1>3, <1>4, <1>5, <1>6, <1>7 DEF LoopInv, w

\* The tables after i routed ids: the loop's recursion has a solution.
LEMMA LoopUnfolds ==
  ASSUME NEW routed \in Routings, NEW now
  PROVE  \E after : /\ Ensured(routed, now) = after[Len(routed)]
                    /\ after[0] = Start(routed, now)
                    /\ \A i \in 1..Len(routed) :
                         after[i] = Assign(after[i - 1], routed[i], now)
<1> DEFINE Solves(f, n) ==
             f = [i \in 0..n |-> IF i = 0 THEN Start(routed, now)
                                 ELSE Assign(f[i - 1], routed[i], now)]
           Bad == {n \in Nat : ~\E f : Solves(f, n)}
<1>1. ASSUME Bad # {} PROVE FALSE
  <2>1. PICK n \in Bad : \A m \in Bad : n <= m
    BY <1>1, LeastNumber
  <2>2. n # 0
    <3> DEFINE f == [i \in 0..0 |-> Start(routed, now)]
    <3>1. Solves(f, 0)
      OBVIOUS
    <3> HIDE DEF f, Solves
    <3> QED
      BY <3>1
  <2>3. PICK f : Solves(f, n - 1)
    <3> HIDE DEF Solves
    <3> QED
      BY <2>1, <2>2
  <2> DEFINE g == [i \in 0..n |-> IF i = n THEN Assign(f[n - 1], routed[n], now) ELSE f[i]]
  <2>4. Solves(g, n)
    BY <2>2, <2>3
  <2> HIDE DEF Solves, g
  <2> QED
    BY <2>4
<1>2. Len(routed) \in Nat
  BY RoutedFacts
<1>3. \E f : Solves(f, Len(routed))
  <2> HIDE DEF Solves
  <2> QED
    BY <1>1, <1>2
<1> DEFINE after == CHOOSE f : Solves(f, Len(routed))
<1>4. Solves(after, Len(routed))
  BY <1>3
<1>5. Ensured(routed, now) = after[Len(routed)]
  BY DEF Ensured, Start
<1> HIDE DEF after
<1>6. after[0] = Start(routed, now)
  BY <1>2, <1>4
<1>7. ASSUME NEW i \in 1..Len(routed)
      PROVE  after[i] = Assign(after[i - 1], routed[i], now)
  BY <1>2, <1>4
<1> QED
  BY <1>5, <1>6, <1>7

LEMMA EnsuredLoopInv ==
  ASSUME Inv, NEW routed \in Routings, NEW now \in Nat, now = tick + 1
  PROVE  LoopInv(Ensured(routed, now), routed, now, Len(routed))
<1>1. PICK after : /\ Ensured(routed, now) = after[Len(routed)]
                   /\ after[0] = Start(routed, now)
                   /\ \A i \in 1..Len(routed) :
                        after[i] = Assign(after[i - 1], routed[i], now)
  BY LoopUnfolds
<1>2. lastUsed \in [Slots -> Nat] /\ now \in Nat \ {0}
  BY SizesAssumption DEF Inv, TypeOK, TickInv
<1> DEFINE Bad == {i \in 0..Len(routed) : ~LoopInv(after[i], routed, now, i)}
<1>3. ASSUME Bad # {} PROVE FALSE
  <2>0. Bad \in SUBSET Nat
    BY RoutedFacts
  <2>1. PICK n \in Bad : \A m \in Bad : n <= m
    BY <1>3, <2>0, LeastNumber
  <2>2. n # 0
    BY <1>1, <2>1, LoopStarts
  <2>3. n - 1 \in Nat /\ n \in 1..Len(routed) /\ n - 1 \in 0..Len(routed)
    BY <2>1, <2>2, RoutedFacts
  <2>4. LoopInv(after[n - 1], routed, now, n - 1)
    BY <2>1, <2>3
  <2>5. after[n] = Assign(after[n - 1], routed[n], now)
    BY <1>1, <2>3
  <2>6. CASE after[n - 1].slotOf[routed[n]] = EMPTY
    <3>1. LoopInv(Assign(after[n - 1], routed[(n - 1) + 1], now), routed, now, (n - 1) + 1)
      BY <1>2, <2>3, <2>4, <2>6, MissKeepsLoopInv
    <3> QED
      BY <2>1, <2>3, <2>5, <3>1
  <2>7. CASE after[n - 1].slotOf[routed[n]] # EMPTY
    <3>1. after[n] = after[n - 1]
      BY <2>5, <2>7 DEF Assign
    <3>2. LoopInv(after[n], routed, now, n)
      BY <2>3, <2>4, <2>7, <3>1 DEF LoopInv
    <3> QED
      BY <2>1, <3>2
  <2> QED
    BY <2>6, <2>7
<1>4. Len(routed) \in 0..Len(routed)
  BY RoutedFacts
<1> QED
  BY <1>1, <1>3, <1>4
-------------------------------------------------------------------------------
(* The steps.                                                                *)

\* The tick has not wrapped in any call the model makes.
TickNeverWraps == MaxTick < TickModulus

LEMMA InitInv == Init => Inv
<1> SUFFICES ASSUME Init PROVE Inv
  OBVIOUS
<1> USE DEF Init
<1>1. TypeOK
  <2>1. <<>> \in Seq(Slots \cup {EMPTY}) /\ <<>> \in Seq([expert : Experts, slot : Slots])
    BY EmptySeq
  <2> QED
    BY <2>1, SizesAssumption DEF TypeOK
<1>2. TickInv /\ UsedInv
  BY SizesAssumption DEF TickInv, UsedInv
<1>3. TablesInverse /\ RoutedAreResident /\ MissInv
  BY DEF TablesInverse, RoutedAreResident, MissInv
<1> QED
  BY <1>1, <1>2, <1>3 DEF Inv

\* A call that the engine may make leaves the tables of its loop.
LEMMA EnsureTables ==
  ASSUME Inv, TickNeverWraps, NEW routed \in Routings, Ensure(routed)
  PROVE  \E w : /\ LoopInv(w, routed, tick + 1, Len(routed))
                /\ tick \in Nat /\ tick' = tick + 1 /\ tick' \in 0..MaxTick
                /\ slotOf' = w.slotOf /\ expertOf' = w.expertOf
                /\ lastUsed' = w.lastUsed /\ misses' = w.misses
                /\ outIds' = [j \in DOMAIN routed |-> w.slotOf[routed[j]]]
                /\ ids' = routed /\ weights' = weights
<1>1. tick \in Nat /\ tick' = tick + 1 /\ tick' \in 0..MaxTick
  BY SizesAssumption DEF Inv, TickInv, Ensure, TickNeverWraps
<1>2. LoopInv(Ensured(routed, tick'), routed, tick', Len(routed))
  BY <1>1, EnsuredLoopInv
<1> QED
  BY <1>1, <1>2 DEF Ensure

LEMMA EnsureKeepsInv ==
  ASSUME Inv, TickNeverWraps, NEW routed \in Routings, Ensure(routed)
  PROVE  Inv'
<1>1. PICK w : /\ LoopInv(w, routed, tick + 1, Len(routed))
               /\ tick \in Nat /\ tick' = tick + 1 /\ tick' \in 0..MaxTick
               /\ slotOf' = w.slotOf /\ expertOf' = w.expertOf
               /\ lastUsed' = w.lastUsed /\ misses' = w.misses
               /\ outIds' = [j \in DOMAIN routed |-> w.slotOf[routed[j]]]
               /\ ids' = routed /\ weights' = weights
  BY EnsureTables
<1>2. /\ w.slotOf \in [Experts -> Slots \cup {EMPTY}]
      /\ w.expertOf \in [Slots -> Experts \cup {EMPTY}]
      /\ w.lastUsed \in [Slots -> 0..(tick + 1)]
      /\ w.misses \in Seq(Misses)
  BY <1>1 DEF LoopInv, WorkTables
<1>3. /\ Len(routed) \in Nat /\ DOMAIN routed = 1..Len(routed)
      /\ \A j \in 1..Len(routed) : routed[j] \in Experts
  BY RoutedFacts
<1>4. TypeOK'
  <2>1. outIds' \in Seq(Slots \cup {EMPTY})
    <3>1. outIds' \in [1..Len(routed) -> Slots \cup {EMPTY}]
      BY <1>1, <1>2, <1>3
    <3> QED
      BY <1>3, <3>1, SeqDef
  <2>2. lastUsed' \in [Slots -> 0..(TickModulus - 1)] /\ tick' \in 0..(TickModulus - 1)
    BY <1>1, <1>2, SizesAssumption DEF TickNeverWraps
  <2>3. weights' \in [Slots -> Experts \cup {EMPTY}]
    BY <1>1 DEF Inv, TypeOK
  <2> QED
    BY <1>1, <1>2, <2>1, <2>2, <2>3 DEF TypeOK, Misses
<1>5. TickInv'
  BY <1>1, <1>2 DEF TickInv
<1>6. TablesInverse'
  BY <1>1 DEF TablesInverse, LoopInv, InverseIn
<1>7. UsedInv'
  BY <1>1 DEF UsedInv, LoopInv, OldestTaken
<1>8. RoutedAreResident'
  <2>1. ASSUME NEW j \in DOMAIN routed
        PROVE  w.slotOf[routed[j]] \in Slots /\ w.expertOf[w.slotOf[routed[j]]] = routed[j]
    <3>1. w.slotOf[routed[j]] # EMPTY
      BY <1>1, <1>3 DEF LoopInv
    <3> QED
      BY <1>1, <1>2, <1>3, <3>1 DEF LoopInv, InverseIn
  <2> QED
    BY <1>1, <2>1 DEF RoutedAreResident
<1>9. MissInv'
  <2>1. DOMAIN w.misses = 1..Len(w.misses)
    BY <1>2, LenProperties
  <2>2. \A k \in DOMAIN misses' : expertOf'[misses'[k].slot] = misses'[k].expert
    BY <1>1, <2>1 DEF LoopInv, MissesPlaced
  <2>3. ASSUME NEW s \in Slots, expertOf'[s] # EMPTY, weights'[s] # expertOf'[s]
        PROVE  \E k \in DOMAIN misses' : misses'[k].slot = s
    <3>1. CASE w.expertOf[s] = expertOf[s]
      <4>1. Gathered
        BY DEF Ensure
      <4>2. \E k \in DOMAIN misses : misses[k].slot = s
        BY <1>1, <2>3, <3>1 DEF Inv, MissInv
      <4> QED
        BY <1>1, <2>3, <3>1, <4>1, <4>2 DEF Gathered, Inv, MissInv
    <3>2. CASE w.expertOf[s] # expertOf[s]
      BY <1>1, <2>1, <3>2 DEF LoopInv, MissesPlaced
    <3> QED
      BY <3>1, <3>2
  <2> QED
    BY <2>2, <2>3 DEF MissInv
<1> QED
  BY <1>4, <1>5, <1>6, <1>7, <1>8, <1>9 DEF Inv

LEMMA GatherKeepsInv ==
  ASSUME Inv, Gather
  PROVE  Inv'
<1>1. PICK writer \in [Slots -> DOMAIN misses \cup {0}] :
        /\ \A s \in Slots : IF \E k \in DOMAIN misses : misses[k].slot = s
                            THEN writer[s] # 0 /\ misses[writer[s]].slot = s
                            ELSE writer[s] = 0
        /\ weights' = [s \in Slots |-> IF writer[s] = 0 THEN weights[s]
                                       ELSE misses[writer[s]].expert]
  BY DEF Gather
<1>2. UNCHANGED <<slotOf, expertOf, lastUsed, tick, ids, outIds, misses>>
  BY DEF Gather, tables
<1>3. ASSUME NEW s \in Slots
      PROVE  /\ weights'[s] \in Experts \cup {EMPTY}
             /\ expertOf[s] # EMPTY => weights'[s] = expertOf[s]
  <2>1. CASE writer[s] = 0
    <3>1. weights'[s] = weights[s]
      BY <1>1, <2>1
    <3>2. ~\E k \in DOMAIN misses : misses[k].slot = s
      BY <1>1, <2>1
    <3> QED
      BY <3>1, <3>2 DEF Inv, TypeOK, MissInv
  <2>2. CASE writer[s] # 0
    <3>1. writer[s] \in DOMAIN misses /\ weights'[s] = misses[writer[s]].expert
      BY <1>1, <2>2
    <3>2. misses[writer[s]].slot = s
      BY <1>1, <2>2
    <3>3. expertOf[s] = misses[writer[s]].expert
      BY <3>1, <3>2 DEF Inv, MissInv
    <3> QED
      BY <3>1, <3>3 DEF Inv, TypeOK
  <2> QED
    BY <2>1, <2>2
<1>4. weights' \in [Slots -> Experts \cup {EMPTY}]
  BY <1>1, <1>3
<1>5. TypeOK'
  BY <1>2, <1>4 DEF Inv, TypeOK
<1>6. MissInv'
  BY <1>2, <1>3 DEF Inv, MissInv
<1> QED
  BY <1>2, <1>5, <1>6
     DEF Inv, TickInv, UsedInv, TablesInverse, RoutedAreResident

LEMMA StepInv == TickNeverWraps /\ Inv /\ [Next]_vars => Inv'
<1> SUFFICES ASSUME TickNeverWraps, Inv, [Next]_vars PROVE Inv'
  OBVIOUS
<1>1. ASSUME NEW routed \in Routings, Ensure(routed) PROVE Inv'
  BY <1>1, EnsureKeepsInv
<1>2. CASE Gather
  BY <1>2, GatherKeepsInv
<1>3. CASE UNCHANGED vars
  BY <1>3 DEF vars, tables, Inv, TypeOK, TickInv, TablesInverse, UsedInv,
              RoutedAreResident, MissInv
<1> QED
  BY <1>1, <1>2, <1>3 DEF Next

LEMMA InvIsInvariant ==
  ASSUME TickNeverWraps
  PROVE  Spec => []Inv
BY InitInv, StepInv, PTL DEF Spec

\* Tables, miss list and banks keep their types, whatever is routed.
THEOREM Typed ==
  ASSUME TickNeverWraps
  PROVE  Spec => []TypeOK
<1>1. Inv => TypeOK
  BY DEF Inv
<1> QED
  BY <1>1, InvIsInvariant, PTL

\* slot_of and expert_of stay inverse: no slot is claimed by two experts.
THEOREM TablesStayInverse ==
  ASSUME TickNeverWraps
  PROVE  Spec => []TablesInverse
<1>1. Inv => TablesInverse
  BY DEF Inv
<1> QED
  BY <1>1, InvIsInvariant, PTL

\* Every id that ensure returns is a slot that holds the routed expert: a miss never
\* takes the slot of another expert of its call, and always finds one.
THEOREM EveryRoutedIsResident ==
  ASSUME TickNeverWraps
  PROVE  Spec => []RoutedAreResident
<1>1. Inv => RoutedAreResident
  BY DEF Inv
<1> QED
  BY <1>1, InvIsInvariant, PTL

\* After gather the banks hold the weights of every resident expert in its slot.
THEOREM ResidentsAreLoaded ==
  ASSUME TickNeverWraps
  PROVE  Spec => []ResidentHaveTheirWeights
<1>1. Inv => ResidentHaveTheirWeights
  BY DEF Inv, MissInv, Gathered, ResidentHaveTheirWeights
<1> QED
  BY <1>1, InvIsInvariant, PTL

\* Replacement is exactly least recently used: what a call evicts was used before
\* everything it keeps, is not routed by it, and leaves no slot empty.
THEOREM LeastRecentlyUsedIsEvicted ==
  ASSUME TickNeverWraps
  PROVE  Spec => EvictsLeastRecentlyUsed
<1> DEFINE Evicts ==
      \A e \in Experts :
        slotOf[e] # EMPTY /\ slotOf'[e] = EMPTY =>
          /\ e \notin ToSet(ids')
          /\ \A s \in Slots : expertOf'[s] # EMPTY
          /\ \A f \in Experts \ ToSet(ids') :
               slotOf[f] # EMPTY /\ slotOf'[f] # EMPTY
                 => lastUsed[slotOf[e]] <= lastUsed[slotOf[f]]
<1>1. ASSUME Inv, NEW routed \in Routings, Ensure(routed) PROVE Evicts
  <2>1. PICK w : /\ LoopInv(w, routed, tick + 1, Len(routed))
                 /\ tick \in Nat /\ tick' = tick + 1 /\ tick' \in 0..MaxTick
                 /\ slotOf' = w.slotOf /\ expertOf' = w.expertOf
                 /\ lastUsed' = w.lastUsed /\ misses' = w.misses
                 /\ outIds' = [j \in DOMAIN routed |-> w.slotOf[routed[j]]]
                 /\ ids' = routed /\ weights' = weights
    BY <1>1, EnsureTables
  <2> SUFFICES ASSUME NEW e \in Experts, slotOf[e] # EMPTY, slotOf'[e] = EMPTY
               PROVE  /\ e \notin ToSet(routed)
                      /\ \A s \in Slots : expertOf'[s] # EMPTY
                      /\ \A f \in Experts \ ToSet(routed) :
                           slotOf[f] # EMPTY /\ slotOf'[f] # EMPTY
                             => lastUsed[slotOf[e]] <= lastUsed[slotOf[f]]
    BY <2>1
  <2>2. /\ slotOf \in [Experts -> Slots \cup {EMPTY}]
        /\ w.slotOf \in [Experts -> Slots \cup {EMPTY}]
        /\ w.expertOf \in [Slots -> Experts \cup {EMPTY}]
    BY <1>1, <2>1 DEF Inv, TypeOK, LoopInv, WorkTables
  <2>3. e \notin ToSet(routed)
    <3> SUFFICES ASSUME e \in ToSet(routed) PROVE FALSE
      OBVIOUS
    <3>1. PICK j \in 1..Len(routed) : routed[j] = e
      BY RoutedFacts DEF ToSet
    <3> QED
      BY <2>1, <3>1 DEF LoopInv
  <2>4. slotOf[e] \in Slots /\ expertOf[slotOf[e]] = e
    BY <1>1, <2>2 DEF Inv, TablesInverse
  <2>5. w.expertOf[slotOf[e]] # expertOf[slotOf[e]]
    <3>1. w.slotOf[e] = EMPTY
      BY <2>1
    <3>2. w.expertOf[slotOf[e]] # EMPTY
             => w.slotOf[w.expertOf[slotOf[e]]] = slotOf[e]
      BY <2>1, <2>4 DEF LoopInv, InverseIn
    <3> QED
      BY <2>4, <3>1, <3>2, SlotFacts
  <2>6. /\ \A t \in Slots : w.lastUsed[t] # tick + 1 => lastUsed[slotOf[e]] <= lastUsed[t]
        /\ \A t \in Slots : w.lastUsed[t] # 0
    <3>1. expertOf[slotOf[e]] # EMPTY
      BY <2>4, SlotFacts
    <3> QED
      BY <2>1, <2>4, <2>5, <3>1 DEF LoopInv, OldestTaken
  <2>7. \A s \in Slots : expertOf'[s] # EMPTY
    BY <2>1, <2>6 DEF LoopInv, OldestTaken
  <2>8. ASSUME NEW f \in Experts \ ToSet(routed), slotOf[f] # EMPTY, slotOf'[f] # EMPTY
        PROVE  lastUsed[slotOf[e]] <= lastUsed[slotOf[f]]
    <3>1. w.slotOf[f] \in Slots /\ w.expertOf[w.slotOf[f]] = f
      BY <2>1, <2>2, <2>8 DEF LoopInv, InverseIn
    <3>2. w.lastUsed[w.slotOf[f]] # tick + 1
      BY <2>1, <2>8, <3>1 DEF LoopInv, InUseByCall
    <3>3. expertOf[w.slotOf[f]] = f
      BY <2>1, <3>1, <3>2 DEF LoopInv, OldestTaken
    <3>4. slotOf[f] = w.slotOf[f]
      BY <1>1, <3>1, <3>3, SlotFacts DEF Inv, TablesInverse
    <3> QED
      BY <2>6, <3>1, <3>2, <3>4
  <2> QED
    BY <2>3, <2>7, <2>8
<1>2. ASSUME Inv, Gather PROVE Evicts
  BY <1>2 DEF Gather, tables
<1>3. Inv /\ [Next]_vars => [Evicts]_vars
  BY <1>1, <1>2 DEF Next
<1>4. [][Evicts]_vars => EvictsLeastRecentlyUsed
  BY PTL DEF EvictsLeastRecentlyUsed
<1> HIDE DEF Evicts
<1> QED
  BY <1>3, <1>4, InvIsInvariant, PTL DEF Spec
===============================================================================
