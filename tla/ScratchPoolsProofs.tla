--------------------------- MODULE ScratchPoolsProofs ---------------------------
(***************************************************************************)
(* Proofs about ScratchPools, for every set of pool kinds, devices, parts, *)
(* sizes and depths of nested guards.                                      *)
(***************************************************************************)
EXTENDS ScratchPools, SequenceTheorems, TLAPS

\* What a guard will set the domain back to is what the guard below it set.
GuardsNest ==
  /\ domain = IF scopes = <<>> THEN "Eager" ELSE scopes[Len(scopes)].set
  /\ \A i \in 1..Len(scopes) :
       scopes[i].previous = IF i = 1 THEN "Eager" ELSE scopes[i - 1].set

\* A graph of a domain uses the cells of that domain, or shared ones.
CapturedInOwnDomain == \A x \in captured : x[2][1] \notin SharedKinds => x[1] = x[2][2]

\* The inductive invariant.
Inv == TypeOK /\ GuardsNest /\ CapturedInOwnDomain

LEMMA CellOfType ==
  ASSUME NEW kind \in Kinds, NEW d \in Domains
  PROVE  /\ CellOf(kind, d) \in Cells
         /\ CellOf(kind, d)[1] = kind
         /\ kind \notin SharedKinds => CellOf(kind, d)[2] = d
BY DEF CellOf, Cells, Domains

LEMMA NewSizesType ==
  ASSUME TypeOK, NEW c \in Cells, NEW request \in Sizes
  PROVE  NewSizes(c, request) \in Sizes
<1>1. CASE c[1] \in ExactKinds \/ cell[c] = Empty
  BY <1>1 DEF NewSizes
<1>2. CASE ~(c[1] \in ExactKinds \/ cell[c] = Empty)
  <2>1. cell[c].sizes \in Sizes
    BY <1>2 DEF TypeOK, Buffer
  <2>2. NewSizes(c, request) = [q \in Parts |-> Larger(request[q], cell[c].sizes[q])]
    BY <1>2 DEF NewSizes
  <2>3. \A q \in Parts : Larger(request[q], cell[c].sizes[q]) \in 0..MaxSize
    BY <2>1 DEF Sizes, Larger
  <2> QED
    BY <2>2, <2>3 DEF Sizes
<1> QED
  BY <1>1, <1>2

\* What a request leaves in the pools.
LEMMA ReallocateType ==
  ASSUME TypeOK, NEW kind \in Kinds, NEW device \in Devices, NEW request \in Sizes,
         Reallocate(kind, device, request)
  PROVE  cell' \in [Cells -> Buffer \cup {Empty}] /\ made' \in [Cells -> 0..MaxBuffers]
<1> DEFINE c == CellOf(kind, domain)
<1>1. c \in Cells
  BY CellOfType DEF TypeOK
<1>2. made[c] + 1 \in 1..MaxBuffers
  BY <1>1, BoundsAssumption DEF Reallocate, TypeOK
<1>3. [sizes |-> NewSizes(c, request), device |-> device, number |-> made[c] + 1] \in Buffer
  BY <1>1, <1>2, NewSizesType DEF Buffer
<1> HIDE DEF c
<1>4. /\ made' = [made EXCEPT ![c] = made[c] + 1]
      /\ cell' = [cell EXCEPT ![c] = [sizes |-> NewSizes(c, request), device |-> device,
                                      number |-> made[c] + 1]]
  BY DEF Reallocate, c
<1> QED
  BY <1>1, <1>2, <1>3, <1>4 DEF TypeOK

LEMMA InitInv == Init => Inv
BY BoundsAssumption DEF Init, Inv, TypeOK, GuardsNest, CapturedInOwnDomain, Domains

\* Opening and dropping guards keeps the domain that of the innermost one alive.
LEMMA SetPreserves ==
  ASSUME Inv, NEW d \in Domains, SetGraphWorkspaceDomain(d)
  PROVE  Inv'
<1> DEFINE guard == [set |-> d, previous |-> domain]
<1>1. /\ guard \in [set : Domains, previous : Domains]
      /\ scopes \in Seq([set : Domains, previous : Domains])
      /\ scopes' = Append(scopes, guard) /\ domain' = d /\ Len(scopes) < MaxScopes
  BY DEF Inv, TypeOK, SetGraphWorkspaceDomain
<1> HIDE DEF guard
<1>2. /\ scopes' \in Seq([set : Domains, previous : Domains])
      /\ Len(scopes') = Len(scopes) + 1 /\ Len(scopes) \in Nat
      /\ scopes'[Len(scopes) + 1] = guard
      /\ \A i \in 1..Len(scopes) : scopes'[i] = scopes[i]
  BY <1>1
<1>3. TypeOK'
  BY <1>1, <1>2, BoundsAssumption DEF Inv, TypeOK, SetGraphWorkspaceDomain
<1>4. guard.set = d /\ guard.previous = domain
  BY DEF guard
<1>5. GuardsNest'
  <2>1. domain' = scopes'[Len(scopes')].set /\ scopes' # <<>>
    BY <1>1, <1>2, <1>4
  <2>2. ASSUME NEW i \in 1..Len(scopes')
        PROVE  scopes'[i].previous = IF i = 1 THEN "Eager" ELSE scopes'[i - 1].set
    <3>1. CASE i = Len(scopes) + 1
      <4>1. scopes'[i].previous = domain
        BY <1>2, <1>4, <3>1
      <4>2. CASE i = 1
        BY <1>2, <3>1, <4>1, <4>2 DEF Inv, GuardsNest
      <4>3. CASE i # 1
        <5>1. i - 1 \in 1..Len(scopes) /\ i - 1 = Len(scopes) /\ scopes # <<>>
          BY <1>2, <2>2, <3>1, <4>3
        <5> QED
          BY <1>2, <4>1, <4>3, <5>1 DEF Inv, GuardsNest
      <4> QED
        BY <4>2, <4>3
    <3>2. CASE i \in 1..Len(scopes)
      <4>1. i # 1 => i - 1 \in 1..Len(scopes)
        BY <1>2, <3>2
      <4> QED
        BY <1>2, <3>2, <4>1 DEF Inv, GuardsNest
    <3> QED
      BY <1>2, <3>1, <3>2
  <2> QED
    BY <2>1, <2>2 DEF GuardsNest
<1>6. CapturedInOwnDomain'
  BY DEF Inv, CapturedInOwnDomain, SetGraphWorkspaceDomain
<1> QED
  BY <1>3, <1>5, <1>6 DEF Inv

\* What dropping the last element of a sequence leaves.
LEMMA FrontFacts ==
  ASSUME NEW S, NEW q \in Seq(S), q # <<>>
  PROVE  /\ Len(q) \in Nat /\ Len(q) >= 1 /\ q[Len(q)] \in S
         /\ SubSeq(q, 1, Len(q) - 1) \in Seq(S)
         /\ Len(SubSeq(q, 1, Len(q) - 1)) = Len(q) - 1
         /\ \A i \in 1..(Len(q) - 1) : SubSeq(q, 1, Len(q) - 1)[i] = q[i]
<1> DEFINE m == Len(q) - 1
           front == SubSeq(q, 1, m)
<1>1. Len(q) \in Nat /\ Len(q) >= 1
  OBVIOUS
<1>2. \A i \in 1..Len(q) : q[i] \in S
  OBVIOUS
<1>3. 1 \in Int /\ m \in Int /\ m >= 0 /\ \A i \in 1..m : q[i] \in S
  BY <1>1, <1>2
<1>4. front = [i \in 1..m |-> q[i]]
  BY <1>1
<1> HIDE DEF m, front
<1>5. front \in [1..m -> S] /\ m \in Nat
  BY <1>3, <1>4
<1>6. front \in Seq(S)
  <2>1. Seq(S) = UNION {[1..n -> S] : n \in Nat}
    BY SeqDef, Zenon
  <2> QED
    BY <1>5, <2>1, Zenon
<1>7. Len(front) = m
  <2>1. DOMAIN front = 1..Len(front) /\ Len(front) \in Nat
    BY <1>6, LenProperties
  <2> QED
    BY <1>5, <2>1
<1> QED
  BY <1>1, <1>2, <1>4, <1>6, <1>7 DEF front, m

LEMMA DropPreserves ==
  ASSUME Inv, DropGuard
  PROVE  Inv'
<1> DEFINE n == Len(scopes)
<1>1. scopes \in Seq([set : Domains, previous : Domains]) /\ scopes # <<>> /\ n <= MaxScopes
  BY DEF Inv, TypeOK, DropGuard
<1>2. n \in Nat /\ n >= 1
  BY <1>1, FrontFacts
<1>3. scopes' = SubSeq(scopes, 1, n - 1) /\ domain' = scopes[n].previous
  BY DEF DropGuard, Front, Last
<1>4. /\ scopes' \in Seq([set : Domains, previous : Domains]) /\ Len(scopes') = n - 1
      /\ \A i \in 1..(n - 1) : scopes'[i] = scopes[i]
  BY <1>1, <1>3, FrontFacts
<1>5. scopes[n] \in [set : Domains, previous : Domains]
  BY <1>1, FrontFacts
<1>6. TypeOK'
  BY <1>1, <1>2, <1>3, <1>4, <1>5, BoundsAssumption DEF Inv, TypeOK, DropGuard
<1>7. GuardsNest'
  <2>1. scopes[n].previous = IF n = 1 THEN "Eager" ELSE scopes[n - 1].set
    BY <1>2 DEF Inv, GuardsNest
  <2>2. domain' = IF scopes' = <<>> THEN "Eager" ELSE scopes'[Len(scopes')].set
    <3>1. CASE n = 1
      BY <1>3, <1>4, <2>1, <3>1
    <3>2. CASE n # 1
      <4>1. n - 1 \in 1..(n - 1) /\ scopes' # <<>>
        BY <1>2, <1>4, <3>2
      <4> QED
        BY <1>3, <1>4, <2>1, <3>2, <4>1
    <3> QED
      BY <3>1, <3>2
  <2>3. ASSUME NEW i \in 1..Len(scopes')
        PROVE  scopes'[i].previous = IF i = 1 THEN "Eager" ELSE scopes'[i - 1].set
    <3>1. i \in 1..n /\ i \in 1..(n - 1) /\ (i # 1 => i - 1 \in 1..(n - 1))
      BY <1>2, <1>4
    <3> QED
      BY <1>4, <3>1 DEF Inv, GuardsNest
  <2> QED
    BY <2>2, <2>3 DEF GuardsNest
<1>8. CapturedInOwnDomain'
  BY DEF Inv, CapturedInOwnDomain, DropGuard
<1> QED
  BY <1>6, <1>7, <1>8 DEF Inv

\* Requests change no guard, and a captured one uses the cell of its domain.
LEMMA GetPreserves ==
  ASSUME Inv, NEW kind \in Kinds, NEW device \in Devices, NEW request \in Sizes,
         Get(kind, device, request)
  PROVE  Inv'
<1>1. UNCHANGED <<domain, scopes, captured>>
  BY DEF Get
<1>2. cell' \in [Cells -> Buffer \cup {Empty}] /\ made' \in [Cells -> 0..MaxBuffers]
  <2>1. CASE Reuse(kind, device, request)
    BY <2>1 DEF Inv, TypeOK, Reuse
  <2>2. CASE Reallocate(kind, device, request)
    BY <2>2, ReallocateType DEF Inv
  <2> QED
    BY <2>1, <2>2 DEF Get
<1>3. TypeOK'
  BY <1>1, <1>2 DEF Inv, TypeOK
<1>4. GuardsNest' /\ CapturedInOwnDomain'
  BY <1>1 DEF Inv, GuardsNest, CapturedInOwnDomain
<1> QED
  BY <1>3, <1>4 DEF Inv

LEMMA GetFailsPreserves ==
  ASSUME Inv, NEW kind \in Kinds, NEW device \in Devices, NEW request \in Sizes,
         GetFails(kind, device, request)
  PROVE  Inv'
<1>1. UNCHANGED <<domain, scopes, made, captured>>
  BY DEF GetFails
<1>2. cell' \in [Cells -> Buffer \cup {Empty}]
  <2>1. cell \in [Cells -> Buffer \cup {Empty}]
    BY DEF Inv, TypeOK
  <2> QED
    BY <2>1 DEF GetFails
<1>3. TypeOK'
  BY <1>1, <1>2 DEF Inv, TypeOK
<1>4. GuardsNest' /\ CapturedInOwnDomain'
  BY <1>1 DEF Inv, GuardsNest, CapturedInOwnDomain
<1> QED
  BY <1>3, <1>4 DEF Inv

LEMMA CapturePreserves ==
  ASSUME Inv, NEW kind \in Kinds, NEW device \in Devices, NEW request \in Sizes,
         Capture(kind, device, request)
  PROVE  Inv'
<1> DEFINE c == CellOf(kind, domain)
<1>1. c \in Cells /\ c[1] = kind /\ (kind \notin SharedKinds => c[2] = domain)
  BY CellOfType DEF Inv, TypeOK
<1>2. cell[c] \in Buffer
  BY <1>1 DEF Capture, Reuse, NeedsRealloc, Inv, TypeOK
<1>3. cell[c].number \in 1..MaxBuffers
  BY <1>2 DEF Buffer
<1> HIDE DEF c
<1>4. /\ domain \in GraphDomains /\ captured' = captured \cup {<<domain, c, cell[c].number>>}
      /\ UNCHANGED <<domain, scopes, cell, made>>
  BY DEF Capture, Reuse, c
<1>5. TypeOK'
  BY <1>1, <1>3, <1>4 DEF Inv, TypeOK
<1>6. CapturedInOwnDomain'
  BY <1>1, <1>4 DEF Inv, CapturedInOwnDomain
<1> QED
  BY <1>4, <1>5, <1>6 DEF Inv, GuardsNest

LEMMA StepInv == Inv /\ [Next]_vars => Inv'
<1> SUFFICES ASSUME Inv, [Next]_vars PROVE Inv'
  OBVIOUS
<1>1. CASE UNCHANGED vars
  BY <1>1 DEF vars, Inv, TypeOK, GuardsNest, CapturedInOwnDomain
<1> QED
  BY <1>1, SetPreserves, DropPreserves, GetPreserves, GetFailsPreserves, CapturePreserves DEF Next

LEMMA InvIsInvariant == Spec => []Inv
BY InitInv, StepInv, PTL DEF Spec

\* Domains, guards, pools and captures are of their types.
THEOREM Typed == Spec => []TypeOK
<1>1. Inv => TypeOK
  BY DEF Inv
<1> QED
  BY <1>1, InvIsInvariant, PTL

\* However deep guards are nested, requests go to the innermost one's domain.
THEOREM RoutedByInnermost == Spec => []InnermostScopeRoutes
<1>1. Inv => InnermostScopeRoutes
  BY DEF Inv, TypeOK, GuardsNest, InnermostScopeRoutes, Last
<1> QED
  BY <1>1, InvIsInvariant, PTL

\* No buffer of a split kind is baked into the graphs of two domains.
THEOREM NeverAliased == Spec => []CapturesNeverAlias
<1>1. Inv => CapturesNeverAlias
  BY DEF Inv, CapturedInOwnDomain, CapturesNeverAlias
<1> QED
  BY <1>1, InvIsInvariant, PTL

\* A cell is only changed by a request for it that it cannot serve.
LEMMA ChangedByRequest ==
  ASSUME Inv, [Next]_vars, NEW c \in Cells, cell'[c] # cell[c]
  PROVE  \E kind \in Kinds, device \in Devices, request \in Sizes :
           /\ CellOf(kind, domain) = c
           /\ NeedsRealloc(c, device, request)
           /\ Get(kind, device, request) \/ GetFails(kind, device, request)
<1>1. PICK kind \in Kinds, device \in Devices, request \in Sizes :
        Get(kind, device, request) \/ GetFails(kind, device, request)
  BY DEF Next, vars, SetGraphWorkspaceDomain, DropGuard, Capture, Reuse
<1>2. CellOf(kind, domain) = c
  BY <1>1 DEF Get, Reuse, Reallocate, GetFails, Inv, TypeOK
<1>3. NeedsRealloc(c, device, request)
  BY <1>1, <1>2 DEF Get, Reuse, Reallocate, GetFails
<1> QED
  BY <1>1, <1>2, <1>3

\* A buffer a graph uses goes only for a larger request of the graph's own domain,
\* or one for another device.
THEOREM DroppedByOwnDomain == Spec => DroppedOnlyForLargerOwnRequest
<1> DEFINE Step ==
      \A x \in captured :
        x[2][1] \notin SharedKinds /\ Holds(x[2], x[3]) /\ ~Holds(x[2], x[3])' =>
          /\ domain = x[1]
          /\ \E device \in Devices, request \in Sizes :
               /\ device # cell[x[2]].device \/ ~Covers(cell[x[2]], request)
               /\ Get(x[2][1], device, request) \/ GetFails(x[2][1], device, request)
<1>1. Inv /\ [Next]_vars => Step
  <2> SUFFICES ASSUME Inv, [Next]_vars, NEW x \in captured,
                      x[2][1] \notin SharedKinds, Holds(x[2], x[3]), ~Holds(x[2], x[3])'
               PROVE  /\ domain = x[1]
                      /\ \E device \in Devices, request \in Sizes :
                           /\ device # cell[x[2]].device \/ ~Covers(cell[x[2]], request)
                           /\ Get(x[2][1], device, request) \/ GetFails(x[2][1], device, request)
    OBVIOUS
  <2>1. x[2] \in Cells /\ x[1] = x[2][2]
    BY DEF Inv, TypeOK, CapturedInOwnDomain
  <2>2. cell'[x[2]] # cell[x[2]] /\ cell[x[2]] # Empty
    BY DEF Holds
  <2>3. PICK kind \in Kinds, device \in Devices, request \in Sizes :
          /\ CellOf(kind, domain) = x[2]
          /\ NeedsRealloc(x[2], device, request)
          /\ Get(kind, device, request) \/ GetFails(kind, device, request)
    BY <2>1, <2>2, ChangedByRequest
  <2>4. x[2][1] = kind /\ x[2][2] = domain
    <3>1. domain \in Domains
      BY DEF Inv, TypeOK
    <3> QED
      BY <2>3, <3>1, CellOfType
  <2>5. device # cell[x[2]].device \/ ~Covers(cell[x[2]], request)
    BY <2>2, <2>3 DEF NeedsRealloc
  <2> QED
    BY <2>1, <2>3, <2>4, <2>5
<1> QED
  BY <1>1, InvIsInvariant, PTL DEF Spec, DroppedOnlyForLargerOwnRequest

\* A pool warmed up with the largest request keeps its buffer on its device.
THEOREM WarmedUpStays == Spec => WarmedUpIsFinal
<1> DEFINE Step ==
      \A c \in Cells :
        /\ cell[c] # Empty
        /\ \A p \in Parts : cell[c].sizes[p] = MaxSize
        /\ cell[c]' # cell[c]
        => \E device \in Devices \ {cell[c].device}, request \in Sizes :
             Get(c[1], device, request) \/ GetFails(c[1], device, request)
<1>1. Inv /\ [Next]_vars => Step
  <2> SUFFICES ASSUME Inv, [Next]_vars, NEW c \in Cells, cell[c] # Empty,
                      \A p \in Parts : cell[c].sizes[p] = MaxSize, cell'[c] # cell[c]
               PROVE  \E device \in Devices \ {cell[c].device}, request \in Sizes :
                        Get(c[1], device, request) \/ GetFails(c[1], device, request)
    OBVIOUS
  <2>1. PICK kind \in Kinds, device \in Devices, request \in Sizes :
          /\ CellOf(kind, domain) = c
          /\ NeedsRealloc(c, device, request)
          /\ Get(kind, device, request) \/ GetFails(kind, device, request)
    BY ChangedByRequest
  <2>2. c[1] = kind
    BY <2>1, CellOfType DEF Inv, TypeOK
  <2>3. Covers(cell[c], request)
    BY BoundsAssumption DEF Covers, Sizes
  <2>4. device # cell[c].device
    BY <2>1, <2>3 DEF NeedsRealloc
  <2> QED
    BY <2>1, <2>2, <2>4
<1> QED
  BY <1>1, InvIsInvariant, PTL DEF Spec, WarmedUpIsFinal
===============================================================================
