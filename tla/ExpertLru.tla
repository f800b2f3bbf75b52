------------------------------- MODULE ExpertLru -------------------------------
(***************************************************************************)
(* The expert slot cache of one MoE layer: the tables the kernels of       *)
(* expert_cache.cu keep on the GPU, the call that makes the routed experts *)
(* resident (ensure) and the one that copies the weights of those that     *)
(* were missing (gather).  Both run on one stream, gather after every      *)
(* ensure.                                                                 *)
(***************************************************************************)
EXTENDS Naturals, Sequences, FiniteSets, SequencesExt

CONSTANTS Experts,     \* expert ids of the layer
          NumSlots,    \* num_slots
          Threads,     \* LRU_THREADS, the width of the victim search
          TickModulus, \* values of the tick counter (2^32 in the code)
          MaxTick,     \* bound: no call is made once the tick has this value
          MaxIds,      \* bound: ids routed in one call
          EMPTY        \* no expert, or no slot

Slots == 0..(NumSlots - 1)

ASSUME SizesAssumption ==
  /\ NumSlots \in Nat \ {0}
  /\ {TickModulus, MaxTick, MaxIds} \subseteq Nat \ {0}
\* Threads is a power of two: it has no odd divisor but 1.
ASSUME ThreadsAssumption ==
  /\ Threads \in Nat \ {0}
  /\ \A d \in 2..Threads : Threads % d = 0 => d % 2 = 0
ASSUME EmptyAssumption == EMPTY \notin Experts \cup Nat

VARIABLES slotOf,    \* slot_of: expert -> slot
          expertOf,  \* expert_of: slot -> expert
          lastUsed,  \* last_used: slot -> tick of its last use
          tick,      \* tick
          ids,       \* the experts routed by the last ensure
          outIds,    \* what it returned for them
          misses,    \* miss_expert, miss_slot and miss_count
          weights    \* slot -> expert whose weights the banks hold there

tables == <<slotOf, expertOf, lastUsed, tick>>
vars == <<tables, ids, outIds, misses, weights>>

Distinct(q) == Cardinality(ToSet(q))

\* What a call can be asked for: any batch of routed ids, but "the call must
\* touch at most num_slots distinct experts".
Routings == {q \in UNION {[1..n -> Experts] : n \in 1..MaxIds} : Distinct(q) <= NumSlots}

TypeOK ==
  /\ slotOf \in [Experts -> Slots \cup {EMPTY}]
  /\ expertOf \in [Slots -> Experts \cup {EMPTY}]
  /\ lastUsed \in [Slots -> 0..(TickModulus - 1)]
  /\ tick \in 0..(TickModulus - 1)
  /\ ids \in Routings \cup {<<>>}
  /\ outIds \in Seq(Slots \cup {EMPTY})
  /\ misses \in Seq([expert : Experts, slot : Slots])
  /\ weights \in [Slots -> Experts \cup {EMPTY}]

Init ==
  /\ slotOf = [e \in Experts |-> EMPTY]
  /\ expertOf = [s \in Slots |-> EMPTY]
  /\ lastUsed = [s \in Slots |-> 0]
  /\ tick = 0
  /\ ids = <<>>
  /\ outIds = <<>>
  /\ misses = <<>>
  /\ weights = [s \in Slots |-> EMPTY]
-------------------------------------------------------------------------------
(* The ensure kernel, on a record of the tables.                             *)

\* Each thread scans every Threads-th slot and keeps the first of the oldest.
ThreadOf(s) == s % Threads
Strides == {stride \in 1..(Threads - 1) : Threads % stride = 0}

\* The halving reduction keeps the left thread of two equal ones, and its last
\* round, with stride 1, decides first: the order of the reversed thread bits.
LeftOf(x, y) ==
  \E stride \in Strides :
    x % stride = y % stride /\ (x \div stride) % 2 < (y \div stride) % 2

\* Mutant of Better: the reduction ignores the time of last use.
BetterByIndex(used, s, t) == s <= t

Better(used, s, t) ==
  \/ used[s] < used[t]
  \/ used[s] = used[t] /\ LeftOf(ThreadOf(s), ThreadOf(t))
  \/ used[s] = used[t] /\ ThreadOf(s) = ThreadOf(t) /\ s <= t

\* The slot a miss takes: a slot not used in this call, or slot 0 if there is none.
Victim(used, now) ==
  LET candidates == {s \in Slots : used[s] < now}
  IN IF candidates = {} THEN 0
     ELSE CHOOSE s \in candidates : \A t \in candidates : Better(used, s, t)

\* Mutant of MarkResident: hits are not marked before the misses are placed.
MarkResidentNever(routed, now) == lastUsed

\* Pass 1: the resident experts of this call are in use.
MarkResident(routed, now) ==
  [s \in Slots |-> IF \E e \in ToSet(routed) : slotOf[e] = s THEN now ELSE lastUsed[s]]

\* Mutants of Assign: the evicted expert keeps its entry in slot_of; the miss list
\* names the evicted expert; a miss is placed but not recorded.
AssignKeepingOld(w, e, now) ==
  LET v == Victim(w.lastUsed, now)
  IN IF w.slotOf[e] # EMPTY THEN w
     ELSE [slotOf   |-> [w.slotOf EXCEPT ![e] = v],
           expertOf |-> [w.expertOf EXCEPT ![v] = e],
           lastUsed |-> [w.lastUsed EXCEPT ![v] = now],
           misses   |-> Append(w.misses, [expert |-> e, slot |-> v])]

AssignRecordingOld(w, e, now) ==
  LET v   == Victim(w.lastUsed, now)
      old == w.expertOf[v]
  IN IF w.slotOf[e] # EMPTY THEN w
     ELSE [slotOf   |-> [f \in Experts |-> CASE f = e -> v
                                             [] f # e /\ f = old -> EMPTY
                                             [] OTHER -> w.slotOf[f]],
           expertOf |-> [w.expertOf EXCEPT ![v] = e],
           lastUsed |-> [w.lastUsed EXCEPT ![v] = now],
           misses   |-> Append(w.misses, [expert |-> old, slot |-> v])]

AssignUnrecorded(w, e, now) ==
  LET v   == Victim(w.lastUsed, now)
      old == w.expertOf[v]
  IN IF w.slotOf[e] # EMPTY THEN w
     ELSE [w EXCEPT !.slotOf   = [f \in Experts |-> CASE f = e -> v
                                                      [] f # e /\ f = old -> EMPTY
                                                      [] OTHER -> w.slotOf[f]],
                    !.expertOf = [@ EXCEPT ![v] = e],
                    !.lastUsed = [@ EXCEPT ![v] = now]]

\* Pass 2, for one id: a miss takes over a slot; duplicates become hits.
Assign(w, e, now) ==
  LET v   == Victim(w.lastUsed, now)
      old == w.expertOf[v]
  IN IF w.slotOf[e] # EMPTY THEN w
     ELSE [slotOf   |-> [f \in Experts |-> CASE f = e -> v
                                             [] f # e /\ f = old -> EMPTY
                                             [] OTHER -> w.slotOf[f]],
           expertOf |-> [w.expertOf EXCEPT ![v] = e],
           lastUsed |-> [w.lastUsed EXCEPT ![v] = now],
           misses   |-> IF Len(w.misses) < NumSlots
                        THEN Append(w.misses, [expert |-> e, slot |-> v])
                        ELSE w.misses]

Ensured(routed, now) ==
  LET after[i \in 0..Len(routed)] ==
        IF i = 0
        THEN [slotOf |-> slotOf, expertOf |-> expertOf,
              lastUsed |-> MarkResident(routed, now), misses |-> <<>>]
        ELSE Assign(after[i - 1], routed[i], now)
  IN after[Len(routed)]

Gathered == \A i \in DOMAIN misses : weights[misses[i].slot] = misses[i].expert

Ensure(routed) ==
  /\ tick < MaxTick
  /\ Gathered
  /\ tick' = (tick + 1) % TickModulus
  /\ LET w == Ensured(routed, tick')
     IN /\ slotOf' = w.slotOf
        /\ expertOf' = w.expertOf
        /\ lastUsed' = w.lastUsed
        /\ misses' = w.misses
        /\ outIds' = [i \in DOMAIN routed |-> w.slotOf[routed[i]]]
  /\ ids' = routed
  /\ UNCHANGED weights

\* Every miss of the last ensure is copied to its slot, all of them at once: the
\* blocks of one launch, in any order.
Gather ==
  /\ ~Gathered
  /\ \E writer \in [Slots -> DOMAIN misses \cup {0}] :
       /\ \A s \in Slots :
            IF \E i \in DOMAIN misses : misses[i].slot = s
            THEN writer[s] # 0 /\ misses[writer[s]].slot = s
            ELSE writer[s] = 0
       /\ weights' = [s \in Slots |-> IF writer[s] = 0 THEN weights[s]
                                      ELSE misses[writer[s]].expert]
  /\ UNCHANGED <<tables, ids, outIds, misses>>

Next == (\E routed \in Routings : Ensure(routed)) \/ Gather

Spec == Init /\ [][Next]_vars
-------------------------------------------------------------------------------
(* Properties.                                                               *)

\* The two tables stay inverse to each other through every replacement.
TablesInverse ==
  /\ \A e \in Experts : slotOf[e] # EMPTY => expertOf[slotOf[e]] = e
  /\ \A s \in Slots : expertOf[s] # EMPTY => slotOf[expertOf[s]] = s

\* Every routed id is answered with the slot that holds its expert, so no miss of
\* a call takes the slot of another expert of the same call.
RoutedAreResident ==
  \A i \in DOMAIN ids : outIds[i] \in Slots /\ expertOf[outIds[i]] = ids[i]

\* Once the misses are copied every resident expert finds its own weights in its
\* slot: also those that were hits, or were copied for an earlier call.
ResidentHaveTheirWeights ==
  Gathered => \A s \in Slots : expertOf[s] # EMPTY => weights[s] = expertOf[s]

\* A call evicts the experts used longest ago, none of its own, and none while a
\* slot is still empty.
EvictsLeastRecentlyUsed ==
  [][\A e \in Experts :
       slotOf[e] # EMPTY /\ slotOf'[e] = EMPTY =>
         /\ e \notin ToSet(ids')
         /\ \A s \in Slots : expertOf'[s] # EMPTY
         /\ \A f \in Experts \ ToSet(ids') :
              slotOf[f] # EMPTY /\ slotOf'[f] # EMPTY
                => lastUsed[slotOf[e]] <= lastUsed[slotOf[f]]]_vars
===============================================================================
