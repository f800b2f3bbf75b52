---------------------------- MODULE MambaCacheProofs ----------------------------
(***************************************************************************)
(* The proofs about MambaSlots: its invariants, what becomes of leaked     *)
(* slots and of a partial growth, and that every step is one of            *)
(* SequenceStates; then that MambaCache as a whole implements              *)
(* RecurrentStates, which rests on those of its two halves.  All hold for  *)
(* every number of sequences, slots, layers, row contents, hashes and      *)
(* capacities.                                                             *)
(***************************************************************************)
EXTENDS MambaCache, PrefixCacheProofs, TLAPS

-------------------------------------------------------------------------------
(* The slots. *)

\* The inductive invariant, indexed by positions of the free list rather than by
\* the sets Free and Used.  That every slot is below maxBatch, and that maxBatch
\* is a row count every buffer has reached, is what keeps the slots a growth
\* pushes apart from those already handed out.
OwnersDiffer ==
  \A s, t \in Seqs : slotOf[s] # NoSlot /\ slotOf[s] = slotOf[t] => s = t
FreeDiffer == \A i, j \in 1..Len(free) : free[i] = free[j] => i = j
FreeNotOwned == \A i \in 1..Len(free), s \in Seqs : free[i] # slotOf[s]
BelowCapacity ==
  /\ \A i \in 1..Len(free) : free[i] < maxBatch
  /\ \A s \in Seqs : slotOf[s] # NoSlot => slotOf[s] < maxBatch
RowsReached == \A b \in Buffers : maxBatch <= rows[b]
FreeZero == \A i \in 1..Len(free), b \in Buffers : mem[b][free[i]] = Zero

Exclusive == OwnersDiffer /\ FreeDiffer /\ FreeNotOwned
Bounded == BelowCapacity /\ RowsReached
Inv == TypeOK /\ Exclusive /\ Bounded /\ FreeZero

\* What the assumptions on the constants say of slots, buffers and contents.
LEMMA Constants ==
  /\ Layers \in Nat /\ InitBatch \in Nat /\ MaxSlots \in Nat
  /\ InitBatch >= 1 /\ InitBatch <= MaxSlots /\ Layers >= 1
  /\ Zero \in Contents
  /\ \A x \in Slots : x # NoSlot /\ x \in Nat
  /\ Buffers \subseteq Nat
BY LayersAssumption, BatchAssumption, NoSlotAssumption DEF Slots, Contents, Buffers

\* What (lo..hi).rev() pushes: the slots from lo up to hi - 1, each once.
LEMMA DownToFacts ==
  ASSUME NEW lo \in Nat, NEW hi \in Nat, lo <= hi, hi <= MaxSlots
  PROVE  /\ DownTo(lo, hi) \in Seq(Slots)
         /\ Len(DownTo(lo, hi)) = hi - lo
         /\ \A i \in 1..(hi - lo) : DownTo(lo, hi)[i] = hi - i
BY Constants DEF DownTo, Slots

\* MambaCache::new establishes the invariant.
LEMMA InitInv == Init => Inv
<1> SUFFICES ASSUME Init PROVE Inv
  OBVIOUS
<1> USE DEF Init
<1>1. /\ free \in Seq(Slots)
      /\ Len(free) = InitBatch
      /\ \A i \in 1..InitBatch : free[i] = InitBatch - i
  <2>1. 0 \in Nat /\ InitBatch \in Nat /\ 0 <= InitBatch /\ InitBatch <= MaxSlots
    BY Constants
  <2>2. /\ DownTo(0, InitBatch) \in Seq(Slots)
        /\ Len(DownTo(0, InitBatch)) = InitBatch - 0
        /\ \A i \in 1..(InitBatch - 0) : DownTo(0, InitBatch)[i] = InitBatch - i
    BY <2>1, DownToFacts
  <2>3. InitBatch - 0 = InitBatch
    BY <2>1
  <2> QED
    BY <2>2, <2>3
<1>2. TypeOK
  BY <1>1, Constants DEF TypeOK, Buffers
<1>3. Exclusive
  BY <1>1, Constants, NoSlotAssumption DEF Exclusive, OwnersDiffer, FreeDiffer, FreeNotOwned
<1>4. Bounded
  BY <1>1, Constants DEF Bounded, BelowCapacity, RowsReached
<1>5. FreeZero
  BY <1>1, Constants DEF FreeZero, Slots
<1> QED
  BY <1>2, <1>3, <1>4, <1>5 DEF Inv
-------------------------------------------------------------------------------
(* Memory: the helpers keep the type and zero what they say.                 *)

\* reset_slot_states that stops after n buffers: only the slot's rows change, to zero.
LEMMA ZeroRowFacts ==
  ASSUME NEW m \in [Buffers -> [Slots -> Contents]], NEW slot \in Slots, NEW n \in Nat
  PROVE  /\ ZeroRow(m, slot, n) \in [Buffers -> [Slots -> Contents]]
         /\ \A b \in Buffers, x \in Slots :
              /\ ZeroRow(m, slot, n)[b][x] = Zero
                   \/ ZeroRow(m, slot, n)[b][x] = m[b][x]
              /\ x # slot => ZeroRow(m, slot, n)[b][x] = m[b][x]
              /\ b <= n => ZeroRow(m, slot, n)[b][slot] = Zero
BY Constants DEF ZeroRow

\* The rows of granted slots are zero, the others unchanged.
LEMMA GrantedRowsFacts ==
  ASSUME TypeOK, NEW done \in Nat
  PROVE  /\ GrantedRows(done) \in [Buffers -> [Slots -> Contents]]
         /\ \A b \in Buffers, x \in Slots :
              /\ GrantedRows(done)[b][x] = Zero \/ GrantedRows(done)[b][x] = mem[b][x]
              /\ (\E i \in 1..done : TopSlot(i) = x) => GrantedRows(done)[b][x] = Zero
              /\ ~(\E i \in 1..done : TopSlot(i) = x)
                   => GrantedRows(done)[b][x] = mem[b][x]
BY Constants DEF GrantedRows, TypeOK
-------------------------------------------------------------------------------
(* Allocation.                                                               *)

\* The sequences a call finds without a slot, in its order, without repetition.
IsMissing(missing) ==
  /\ missing \in Seq(Seqs)
  /\ \A i, j \in 1..Len(missing) : missing[i] = missing[j] => i = j
  /\ \A i \in 1..Len(missing) : slotOf[missing[i]] = NoSlot

\* Who owns what, and what is left on the stack, after "done" grants.
LEMMA GrantedFacts ==
  ASSUME TypeOK, NEW missing, IsMissing(missing),
         NEW done \in 0..Len(missing), Granted(missing, done)
  PROVE  /\ done <= Len(free)
         /\ free' \in Seq(Slots)
         /\ Len(free') = Len(free) - done
         /\ \A i \in 1..Len(free') : free'[i] = free[i]
         /\ \A s \in Seqs :
              \/ \E i \in 1..done : missing[i] = s /\ slotOf'[s] = TopSlot(i)
              \/ slotOf'[s] = slotOf[s] /\ \A i \in 1..done : missing[i] # s
         /\ \A i \in 1..done : TopSlot(i) \in Slots
<1> USE DEF Granted
<1>0. /\ free \in Seq(Slots)
      /\ Len(free) \in Nat /\ Len(missing) \in Nat /\ done \in Nat
      /\ done <= Len(free)
  BY DEF TypeOK, IsMissing
<1>1. /\ free' \in Seq(Slots)
      /\ Len(free') = Len(free) - done
      /\ \A i \in 1..Len(free') : free'[i] = free[i]
  BY <1>0
<1>2. \A i \in 1..done : TopSlot(i) \in Slots
  BY <1>0 DEF TopSlot
<1>3. ASSUME NEW s \in Seqs
      PROVE  \/ \E i \in 1..done : missing[i] = s /\ slotOf'[s] = TopSlot(i)
             \/ slotOf'[s] = slotOf[s] /\ \A i \in 1..done : missing[i] # s
  <2>1. CASE \E i \in 1..done : missing[i] = s
    <3>1. PICK i \in 1..done : i = CHOOSE k \in 1..done : missing[k] = s
      BY <2>1
    <3>2. missing[i] = s
      BY <2>1, <3>1
    <3>3. slotOf'[s] = TopSlot(i)
      BY <2>1, <3>1
    <3> QED
      BY <3>2, <3>3
  <2>2. CASE ~(\E i \in 1..done : missing[i] = s)
    BY <2>2
  <2> QED
    BY <2>1, <2>2
<1> QED
  BY <1>0, <1>1, <1>2, <1>3

\* Popping slots for the first of the missing sequences keeps slots exclusive and
\* inside the tensors.
LEMMA GrantedKeepsSlots ==
  ASSUME TypeOK, Exclusive, Bounded, NEW missing, IsMissing(missing),
         NEW done \in 0..Len(missing), Granted(missing, done)
  PROVE  /\ slotOf' \in [Seqs -> Slots \cup {NoSlot}]
         /\ Exclusive'
         /\ Bounded'
<1> DEFINE Owner(s, i) == missing[i] = s /\ slotOf'[s] = TopSlot(i)
<1>1. /\ done <= Len(free)
      /\ free' \in Seq(Slots)
      /\ Len(free') = Len(free) - done
      /\ \A i \in 1..Len(free') : free'[i] = free[i]
      /\ \A s \in Seqs :
           \/ \E i \in 1..done : Owner(s, i)
           \/ slotOf'[s] = slotOf[s] /\ \A i \in 1..done : missing[i] # s
      /\ \A i \in 1..done : TopSlot(i) \in Slots
  BY GrantedFacts
<1>2. Len(free) \in Nat /\ done \in Nat /\ free \in Seq(Slots)
  BY DEF TypeOK, IsMissing
<1>3. slotOf' \in [Seqs -> Slots \cup {NoSlot}]
  <2>1. slotOf' = [s \in Seqs |-> slotOf'[s]]
    BY DEF Granted
  <2>2. \A s \in Seqs : slotOf'[s] \in Slots \cup {NoSlot}
    BY <1>1 DEF TypeOK
  <2> QED
    BY <2>1, <2>2
<1>4. \A i \in 1..done : /\ Len(free) + 1 - i \in 1..Len(free)
                         /\ Len(free) + 1 - i > Len(free')
                         /\ TopSlot(i) = free[Len(free) + 1 - i]
  BY <1>1, <1>2 DEF TopSlot
<1>5. OwnersDiffer'
  <2> SUFFICES ASSUME NEW s \in Seqs, NEW t \in Seqs,
                      slotOf'[s] # NoSlot, slotOf'[s] = slotOf'[t]
               PROVE  s = t
    BY DEF OwnersDiffer
  <2>1. CASE /\ \E i \in 1..done : Owner(s, i)
             /\ \E j \in 1..done : Owner(t, j)
    <3>1. PICK i \in 1..done : Owner(s, i)
      BY <2>1
    <3>2. PICK j \in 1..done : Owner(t, j)
      BY <2>1
    <3>3. Len(free) + 1 - i = Len(free) + 1 - j
      BY <3>1, <3>2, <1>4 DEF Exclusive, FreeDiffer
    <3>4. i = j
      BY <3>3, <1>2
    <3> QED
      BY <3>1, <3>2, <3>4
  <2>2. CASE (\E i \in 1..done : Owner(s, i)) /\ slotOf'[t] = slotOf[t]
    BY <2>2, <1>4 DEF Exclusive, FreeNotOwned
  <2>3. CASE (\E i \in 1..done : Owner(t, i)) /\ slotOf'[s] = slotOf[s]
    BY <2>3, <1>4 DEF Exclusive, FreeNotOwned
  <2>4. CASE slotOf'[s] = slotOf[s] /\ slotOf'[t] = slotOf[t]
    BY <2>4 DEF Exclusive, OwnersDiffer
  <2> QED
    BY <1>1, <2>1, <2>2, <2>3, <2>4
<1>6. FreeDiffer'
  BY <1>1, <1>2 DEF Exclusive, FreeDiffer
<1>7. FreeNotOwned'
  <2> SUFFICES ASSUME NEW i \in 1..Len(free'), NEW s \in Seqs
               PROVE  free'[i] # slotOf'[s]
    BY DEF FreeNotOwned
  <2>1. i \in 1..Len(free) /\ free'[i] = free[i]
    BY <1>1, <1>2
  <2>2. CASE \E k \in 1..done : Owner(s, k)
    <3>1. PICK k \in 1..done : Owner(s, k)
      BY <2>2
    <3>2. slotOf'[s] = free[Len(free) + 1 - k] /\ Len(free) + 1 - k \in 1..Len(free)
      BY <3>1, <1>4
    <3>3. i # Len(free) + 1 - k
      BY <3>1, <1>1, <1>2, <1>4
    <3> QED
      BY <2>1, <3>2, <3>3 DEF Exclusive, FreeDiffer
  <2>3. CASE slotOf'[s] = slotOf[s]
    BY <2>1, <2>3 DEF Exclusive, FreeNotOwned
  <2> QED
    BY <1>1, <2>2, <2>3
<1>8. BelowCapacity'
  <2>1. maxBatch' = maxBatch
    BY DEF Granted
  <2>2. \A i \in 1..Len(free') : free'[i] < maxBatch
    BY <1>1, <1>2 DEF Bounded, BelowCapacity
  <2>3. ASSUME NEW s \in Seqs, slotOf'[s] # NoSlot PROVE slotOf'[s] < maxBatch
    <3>1. CASE \E i \in 1..done : Owner(s, i)
      <4>1. PICK i \in 1..done : slotOf'[s] = TopSlot(i)
        BY <3>1
      <4>2. TopSlot(i) = free[Len(free) + 1 - i] /\ Len(free) + 1 - i \in 1..Len(free)
        BY <1>4
      <4> QED
        BY <4>1, <4>2 DEF Bounded, BelowCapacity
    <3>2. CASE slotOf'[s] = slotOf[s]
      BY <2>3, <3>2 DEF Bounded, BelowCapacity
    <3> QED
      BY <1>1, <3>1, <3>2
  <2> QED
    BY <2>1, <2>2, <2>3 DEF BelowCapacity
<1>9. RowsReached'
  BY DEF Granted, Bounded, RowsReached
<1> QED
  BY <1>3, <1>5, <1>6, <1>7, <1>8, <1>9 DEF Exclusive, Bounded

\* So does it the whole invariant, if no row changes but to zero.
LEMMA GrantedKeepsInv ==
  ASSUME Inv, NEW missing, IsMissing(missing),
         NEW done \in 0..Len(missing), Granted(missing, done),
         mem' \in [Buffers -> [Slots -> Contents]],
         \A b \in Buffers, x \in Slots : mem'[b][x] = Zero \/ mem'[b][x] = mem[b][x]
  PROVE  Inv'
<1>1. /\ slotOf' \in [Seqs -> Slots \cup {NoSlot}]
      /\ Exclusive'
      /\ Bounded'
  BY GrantedKeepsSlots DEF Inv
<1>2. /\ done <= Len(free)
      /\ free' \in Seq(Slots)
      /\ Len(free') = Len(free) - done
      /\ \A i \in 1..Len(free') : free'[i] = free[i]
  BY GrantedFacts DEF Inv
<1>3. TypeOK'
  BY <1>1, <1>2 DEF Inv, TypeOK, Granted
<1>4. FreeZero'
  <2> SUFFICES ASSUME NEW i \in 1..Len(free'), NEW b \in Buffers
               PROVE  mem'[b][free'[i]] = Zero
    BY DEF FreeZero
  <2>1. i \in 1..Len(free) /\ free'[i] = free[i] /\ free[i] \in Slots
    BY <1>2 DEF Inv, TypeOK, IsMissing
  <2> QED
    BY <2>1 DEF Inv, FreeZero
<1> QED
  BY <1>1, <1>3, <1>4 DEF Inv

\* allocate_slot and ensure_slots_for_sequences, however far they get.
LEMMA GrantKeepsInv ==
  ASSUME Inv, NEW missing, IsMissing(missing), Grant(missing)
  PROVE  Inv'
<1>0. Len(missing) \in Nat /\ Len(free) \in Nat
  BY DEF Inv, TypeOK, IsMissing
<1>1. CASE GrantAll(missing)
  BY <1>0, <1>1, GrantedRowsFacts, GrantedKeepsInv DEF GrantAll, Inv
<1>2. CASE GrantUntilEmpty(missing)
  BY <1>0, <1>2, GrantedRowsFacts, GrantedKeepsInv DEF GrantUntilEmpty, Inv
<1>3. ASSUME NEW done \in 0..(Len(missing) - 1), NEW n \in 0..(2 * Layers - 1),
             GrantUntilResetFails(missing, done, n)
      PROVE  Inv'
  <2>1. done \in 0..Len(missing) /\ done < Len(free) /\ Granted(missing, done)
    BY <1>0, <1>3 DEF GrantUntilResetFails
  <2>2. TopSlot(done + 1) \in Slots
    BY <1>0, <2>1 DEF Inv, TypeOK, TopSlot
  <2>3. GrantedRows(done) \in [Buffers -> [Slots -> Contents]]
    BY <2>1, GrantedRowsFacts DEF Inv
  <2>4. mem' = ZeroRow(GrantedRows(done), TopSlot(done + 1), n) /\ n \in Nat
    BY <1>3, Constants DEF GrantUntilResetFails
  <2>5. /\ mem' \in [Buffers -> [Slots -> Contents]]
        /\ \A b \in Buffers, x \in Slots :
             mem'[b][x] = Zero \/ mem'[b][x] = GrantedRows(done)[b][x]
    BY <2>2, <2>3, <2>4, ZeroRowFacts
  <2>6. \A b \in Buffers, x \in Slots : mem'[b][x] = Zero \/ mem'[b][x] = mem[b][x]
    BY <2>1, <2>5, GrantedRowsFacts DEF Inv
  <2> QED
    BY <2>1, <2>5, <2>6, GrantedKeepsInv
<1> QED
  BY <1>1, <1>2, <1>3 DEF Grant
-------------------------------------------------------------------------------
(* The other operations.                                                     *)

\* free_slot.
LEMMA FreeSlotKeepsInv ==
  ASSUME Inv, NEW s \in Seqs, FreeSlot(s)
  PROVE  Inv'
<1> USE DEF FreeSlot
<1>1. /\ slotOf[s] \in Slots /\ slotOf[s] # NoSlot
      /\ 2 * Layers \in Nat /\ \A b \in Buffers : b <= 2 * Layers
      /\ mem \in [Buffers -> [Slots -> Contents]]
      /\ free \in Seq(Slots) /\ Len(free) \in Nat
      /\ slotOf \in [Seqs -> Slots \cup {NoSlot}]
  BY Constants DEF Inv, TypeOK, Live, Buffers
<1>2. /\ mem' \in [Buffers -> [Slots -> Contents]]
      /\ \A b \in Buffers, x \in Slots : mem'[b][x] = Zero \/ mem'[b][x] = mem[b][x]
      /\ \A b \in Buffers : mem'[b][slotOf[s]] = Zero
  BY <1>1, ZeroRowFacts
<1>3. /\ free' \in Seq(Slots)
      /\ Len(free') = Len(free) + 1
      /\ \A i \in 1..Len(free) : free'[i] = free[i]
      /\ free'[Len(free) + 1] = slotOf[s]
  BY <1>1
<1>4. /\ slotOf' \in [Seqs -> Slots \cup {NoSlot}]
      /\ slotOf'[s] = NoSlot
      /\ \A t \in Seqs : t # s => slotOf'[t] = slotOf[t]
  BY <1>1
<1>5. TypeOK'
  BY <1>2, <1>3, <1>4 DEF Inv, TypeOK
<1>6. OwnersDiffer'
  BY <1>4 DEF Inv, Exclusive, OwnersDiffer
<1>7. \A i \in 1..Len(free') : i = Len(free) + 1 \/ i \in 1..Len(free)
  BY <1>1, <1>3
<1>8. FreeDiffer'
  <2> SUFFICES ASSUME NEW i \in 1..Len(free'), NEW j \in 1..Len(free'), free'[i] = free'[j]
               PROVE  i = j
    BY DEF FreeDiffer
  <2>1. \A k \in 1..Len(free) : free'[k] # slotOf[s]
    BY <1>3 DEF Inv, Exclusive, FreeNotOwned
  <2> QED
    BY <1>3, <1>7, <2>1 DEF Inv, Exclusive, FreeDiffer
<1>9. FreeNotOwned'
  <2> SUFFICES ASSUME NEW i \in 1..Len(free'), NEW t \in Seqs
               PROVE  free'[i] # slotOf'[t]
    BY DEF FreeNotOwned
  <2>1. free'[i] \in Slots
    BY <1>3
  <2>2. CASE t = s
    BY <1>4, <2>1, <2>2, Constants
  <2>3. CASE t # s /\ i \in 1..Len(free)
    BY <1>3, <1>4, <2>3 DEF Inv, Exclusive, FreeNotOwned
  <2>4. CASE t # s /\ i = Len(free) + 1
    BY <1>1, <1>3, <1>4, <2>4 DEF Inv, Exclusive, OwnersDiffer
  <2> QED
    BY <1>7, <2>2, <2>3, <2>4
<1>10. Bounded'
  <2>1. slotOf[s] < maxBatch
    BY <1>1 DEF Inv, Bounded, BelowCapacity
  <2>2. \A i \in 1..Len(free') : free'[i] < maxBatch
    BY <1>3, <1>7, <2>1 DEF Inv, Bounded, BelowCapacity
  <2>3. \A t \in Seqs : slotOf'[t] # NoSlot => slotOf'[t] < maxBatch
    BY <1>4 DEF Inv, Bounded, BelowCapacity
  <2> QED
    BY <2>2, <2>3 DEF Inv, Bounded, BelowCapacity, RowsReached
<1>11. FreeZero'
  <2> SUFFICES ASSUME NEW i \in 1..Len(free'), NEW b \in Buffers
               PROVE  mem'[b][free'[i]] = Zero
    BY DEF FreeZero
  <2>1. CASE i = Len(free) + 1
    BY <1>2, <1>3, <2>1
  <2>2. CASE i \in 1..Len(free)
    <3>1. free'[i] = free[i] /\ free[i] \in Slots /\ mem[b][free[i]] = Zero
      BY <1>1, <1>3, <2>2 DEF Inv, FreeZero
    <3> QED
      BY <1>2, <3>1
  <2> QED
    BY <1>7, <2>1, <2>2
<1> QED
  BY <1>5, <1>6, <1>8, <1>9, <1>10, <1>11 DEF Inv, Exclusive

\* The steps that leave the free list alone and at most forget an owner.
LEMMA NoGrantKeepsInv ==
  ASSUME Inv,
         UNCHANGED <<free, maxBatch>>,
         slotOf' \in [Seqs -> Slots \cup {NoSlot}],
         \A s \in Seqs : slotOf'[s] = slotOf[s] \/ slotOf'[s] = NoSlot,
         mem' \in [Buffers -> [Slots -> Contents]],
         rows' \in [Buffers -> InitBatch..MaxSlots],
         \A b \in Buffers : rows[b] <= rows'[b],
         \A b \in Buffers, i \in 1..Len(free) : mem'[b][free[i]] = Zero
  PROVE  Inv'
<1>1. TypeOK'
  BY DEF Inv, TypeOK
<1>2. \A i \in 1..Len(free) : free[i] \in Slots /\ free[i] # NoSlot
  BY Constants DEF Inv, TypeOK
<1>3. Exclusive'
  <2>1. OwnersDiffer'
    BY DEF Inv, Exclusive, OwnersDiffer
  <2>2. FreeDiffer'
    BY DEF Inv, Exclusive, FreeDiffer
  <2>3. FreeNotOwned'
    BY <1>2 DEF Inv, Exclusive, FreeNotOwned
  <2> QED
    BY <2>1, <2>2, <2>3 DEF Exclusive
<1>4. Bounded'
  <2>1. BelowCapacity'
    BY DEF Inv, Bounded, BelowCapacity
  <2>2. RowsReached'
    BY Constants DEF Inv, TypeOK, Bounded, RowsReached
  <2> QED
    BY <2>1, <2>2 DEF Bounded
<1>5. FreeZero'
  BY DEF FreeZero
<1> QED
  BY <1>1, <1>3, <1>4, <1>5 DEF Inv

\* free_slot when zeroing fails.
LEMMA FreeSlotResetFailsKeepsInv ==
  ASSUME Inv, NEW s \in Seqs, NEW n \in 0..(2 * Layers - 1), FreeSlotResetFails(s, n)
  PROVE  Inv'
<1> USE DEF FreeSlotResetFails
<1>1. /\ slotOf[s] \in Slots /\ n \in Nat
      /\ mem \in [Buffers -> [Slots -> Contents]]
      /\ free \in Seq(Slots)
      /\ slotOf \in [Seqs -> Slots \cup {NoSlot}]
  BY Constants DEF Inv, TypeOK, Live
<1>2. /\ mem' \in [Buffers -> [Slots -> Contents]]
      /\ \A b \in Buffers, x \in Slots : mem'[b][x] = Zero \/ mem'[b][x] = mem[b][x]
  BY <1>1, ZeroRowFacts
<1>3. \A b \in Buffers, i \in 1..Len(free) : mem'[b][free[i]] = Zero
  BY <1>1, <1>2 DEF Inv, FreeZero
<1>4. /\ slotOf' \in [Seqs -> Slots \cup {NoSlot}]
      /\ \A t \in Seqs : slotOf'[t] = slotOf[t] \/ slotOf'[t] = NoSlot
  BY <1>1
<1>5. rows' = rows /\ rows \in [Buffers -> InitBatch..MaxSlots]
      /\ \A b \in Buffers : rows[b] <= rows'[b]
  BY Constants DEF Inv, TypeOK
<1> QED
  BY <1>2, <1>3, <1>4, <1>5, NoGrantKeepsInv

\* The rows of a growth: no smaller than before, the old contents kept.
LEMMA ExpandedFacts ==
  ASSUME Inv, NEW newMax \in 1..MaxSlots, NEW n \in 1..(2 * Layers), Expanded(newMax, n)
  PROVE  /\ maxBatch < newMax
         /\ rows' \in [Buffers -> InitBatch..MaxSlots]
         /\ \A b \in Buffers : rows[b] <= rows'[b] /\ (b <= n => rows'[b] = newMax)
         /\ mem' \in [Buffers -> [Slots -> Contents]]
         /\ \A b \in Buffers, x \in Slots :
              /\ x < maxBatch => mem'[b][x] = mem[b][x]
              /\ b <= n /\ ~(x < maxBatch) => mem'[b][x] = Zero
         /\ slotOf' = slotOf
<1> USE DEF Expanded
<1>1. /\ maxBatch \in InitBatch..MaxSlots /\ newMax \in InitBatch..MaxSlots
      /\ rows \in [Buffers -> InitBatch..MaxSlots]
      /\ mem \in [Buffers -> [Slots -> Contents]]
  BY Constants DEF Inv, TypeOK
<1>2. rows' \in [Buffers -> InitBatch..MaxSlots]
  BY <1>1
<1>3. ASSUME NEW b \in Buffers
      PROVE  rows[b] <= rows'[b] /\ (b <= n => rows'[b] = newMax)
  <2>1. CASE b <= n
    <3>1. b \in 1..n
      BY <2>1, Constants DEF Buffers
    <3>2. rows[b] = maxBatch /\ rows'[b] = newMax
      BY <2>1, <3>1, <1>1 DEF CopyFits
    <3> QED
      BY <1>1, <3>2, Constants
  <2>2. CASE ~(b <= n)
    BY <1>1, <2>2, Constants
  <2> QED
    BY <2>1, <2>2
<1>4. mem' \in [Buffers -> [Slots -> Contents]]
  BY <1>1, Constants
<1>5. \A b \in Buffers, x \in Slots :
        /\ x < maxBatch => mem'[b][x] = mem[b][x]
        /\ b <= n /\ ~(x < maxBatch) => mem'[b][x] = Zero
  BY <1>1
<1> QED
  BY <1>1, <1>2, <1>3, <1>4, <1>5

\* reserve_capacity: the pushed slots are new and their rows zero.
LEMMA ReserveCapacityKeepsInv ==
  ASSUME Inv, NEW newMax \in 1..MaxSlots, ReserveCapacity(newMax)
  PROVE  Inv'
<1> DEFINE new == DownTo(maxBatch, newMax)
<1>1. 2 * Layers \in 1..(2 * Layers) /\ \A b \in Buffers : b <= 2 * Layers
  BY Constants DEF Buffers
<1>2. /\ maxBatch < newMax
      /\ rows' \in [Buffers -> InitBatch..MaxSlots]
      /\ \A b \in Buffers : rows'[b] = newMax
      /\ mem' \in [Buffers -> [Slots -> Contents]]
      /\ \A b \in Buffers, x \in Slots :
           /\ x < maxBatch => mem'[b][x] = mem[b][x]
           /\ ~(x < maxBatch) => mem'[b][x] = Zero
      /\ slotOf' = slotOf
  BY <1>1, ExpandedFacts DEF ReserveCapacity
<1>3. /\ maxBatch \in Nat /\ newMax \in Nat /\ maxBatch <= newMax /\ newMax <= MaxSlots
      /\ maxBatch' = newMax /\ newMax \in InitBatch..MaxSlots
      /\ free \in Seq(Slots) /\ Len(free) \in Nat
  BY <1>2, Constants DEF Inv, TypeOK, ReserveCapacity
<1>4. /\ new \in Seq(Slots) /\ Len(new) = newMax - maxBatch
      /\ \A i \in 1..(newMax - maxBatch) : new[i] = newMax - i
  BY <1>3, DownToFacts
<1>5. /\ free' \in Seq(Slots)
      /\ Len(free') = Len(free) + (newMax - maxBatch)
      /\ \A i \in 1..Len(free) : free'[i] = free[i]
      /\ \A i \in (Len(free) + 1)..Len(free') : free'[i] = newMax - (i - Len(free))
  <2> HIDE DEF new
  <2>1. free' = free \o new
    BY DEF ReserveCapacity, new
  <2>2. Len(new) \in Nat /\ Len(free) \in Nat /\ free \in Seq(Slots) /\ new \in Seq(Slots)
    BY <1>3, <1>4
  <2>3. free' \in Seq(Slots) /\ Len(free') = Len(free) + Len(new)
    BY <2>1, <2>2
  <2>4. \A i \in 1..Len(free) : free'[i] = free[i]
    BY <2>1, <2>2
  <2>5. \A i \in (Len(free) + 1)..Len(free') : free'[i] = new[i - Len(free)]
    BY <2>1, <2>2, <2>3
  <2> QED
    BY <1>3, <1>4, <2>3, <2>4, <2>5
<1>6. ASSUME NEW i \in 1..Len(free')
      PROVE  \/ i \in 1..Len(free) /\ free'[i] = free[i] /\ free[i] < maxBatch
             \/ /\ i \in (Len(free) + 1)..Len(free')
                /\ free'[i] = newMax - (i - Len(free))
                /\ maxBatch <= free'[i] /\ free'[i] < newMax
  BY <1>3, <1>5 DEF Inv, Bounded, BelowCapacity
<1>7. TypeOK'
  BY <1>2, <1>3, <1>5 DEF Inv, TypeOK
<1>8. \A i \in 1..Len(free') : free'[i] \in Nat
  BY <1>5, Constants
<1>9. OwnersDiffer'
  BY <1>2 DEF Inv, Exclusive, OwnersDiffer
<1>10. FreeDiffer'
  <2> SUFFICES ASSUME NEW i \in 1..Len(free'), NEW j \in 1..Len(free'), free'[i] = free'[j]
               PROVE  i = j
    BY DEF FreeDiffer
  <2>1. CASE i \in 1..Len(free) /\ j \in 1..Len(free)
    BY <1>5, <2>1 DEF Inv, Exclusive, FreeDiffer
  <2>2. CASE i \in (Len(free) + 1)..Len(free') /\ j \in (Len(free) + 1)..Len(free')
    BY <1>3, <1>5, <2>2
  <2> QED
    BY <1>3, <1>6, <1>8, <2>1, <2>2
<1>11. FreeNotOwned'
  <2> SUFFICES ASSUME NEW i \in 1..Len(free'), NEW s \in Seqs
               PROVE  free'[i] # slotOf[s]
    BY <1>2 DEF FreeNotOwned
  <2>1. CASE i \in 1..Len(free) /\ free'[i] = free[i]
    BY <2>1 DEF Inv, Exclusive, FreeNotOwned
  <2>2. CASE maxBatch <= free'[i] /\ slotOf[s] # NoSlot
    <3>1. slotOf[s] < maxBatch /\ slotOf[s] \in Nat
      BY <2>2, Constants DEF Inv, TypeOK, Bounded, BelowCapacity
    <3> QED
      BY <1>3, <1>8, <2>2, <3>1
  <2>3. CASE slotOf[s] = NoSlot
    BY <1>8, <2>3, NoSlotAssumption
  <2> QED
    BY <1>6, <2>1, <2>2, <2>3
<1>12. Bounded'
  <2>1. \A i \in 1..Len(free') : free'[i] < newMax
    BY <1>3, <1>6, <1>8
  <2>2. ASSUME NEW s \in Seqs, slotOf[s] # NoSlot PROVE slotOf[s] < newMax
    BY <1>2, <1>3, <2>2, Constants DEF Inv, TypeOK, Bounded, BelowCapacity
  <2>3. RowsReached'
    BY <1>2, <1>3 DEF RowsReached
  <2> QED
    BY <1>2, <1>3, <2>1, <2>2, <2>3 DEF Bounded, BelowCapacity
<1>13. FreeZero'
  <2> SUFFICES ASSUME NEW i \in 1..Len(free'), NEW b \in Buffers
               PROVE  mem'[b][free'[i]] = Zero
    BY DEF FreeZero
  <2>1. free'[i] \in Slots
    BY <1>5
  <2>2. CASE free'[i] = free[i] /\ i \in 1..Len(free) /\ free[i] < maxBatch
    BY <1>2, <2>1, <2>2 DEF Inv, FreeZero
  <2>3. CASE maxBatch <= free'[i]
    BY <1>2, <1>3, <1>8, <2>1, <2>3
  <2> QED
    BY <1>6, <2>2, <2>3
<1> QED
  BY <1>7, <1>9, <1>10, <1>11, <1>12, <1>13 DEF Inv, Exclusive

\* reserve_capacity that fails between two buffers.
LEMMA ReserveCapacityFailsKeepsInv ==
  ASSUME Inv, NEW newMax \in 1..MaxSlots, NEW n \in 1..(2 * Layers - 1),
         ReserveCapacityFails(newMax, n)
  PROVE  Inv'
<1>1. n \in 1..(2 * Layers)
  BY Constants
<1>2. /\ rows' \in [Buffers -> InitBatch..MaxSlots]
      /\ \A b \in Buffers : rows[b] <= rows'[b]
      /\ mem' \in [Buffers -> [Slots -> Contents]]
      /\ \A b \in Buffers, x \in Slots : x < maxBatch => mem'[b][x] = mem[b][x]
      /\ slotOf' = slotOf /\ UNCHANGED <<free, maxBatch>>
  BY <1>1, ExpandedFacts DEF ReserveCapacityFails
<1>3. \A b \in Buffers, i \in 1..Len(free) : mem'[b][free[i]] = Zero
  BY <1>2 DEF Inv, TypeOK, Bounded, BelowCapacity, FreeZero
<1>4. slotOf' \in [Seqs -> Slots \cup {NoSlot}]
  BY <1>2 DEF Inv, TypeOK
<1> QED
  BY <1>2, <1>3, <1>4, NoGrantKeepsInv

\* set_batch_*_state writes rows of owned slots only.
LEMMA SetBatchStateKeepsInv ==
  ASSUME Inv, NEW b \in Buffers, NEW batch \in SUBSET Seqs,
         NEW val \in [batch -> Values], SetBatchState(b, batch, val)
  PROVE  Inv'
<1>1. /\ mem \in [Buffers -> [Slots -> Contents]]
      /\ free \in Seq(Slots)
  BY DEF Inv, TypeOK
<1> DEFINE written == [x \in Slots |-> IF \E s \in batch : slotOf[s] = x
                                       THEN val[CHOOSE s \in batch : slotOf[s] = x]
                                       ELSE mem[b][x]]
<1>2. written \in [Slots -> Contents]
  <2> SUFFICES ASSUME NEW x \in Slots PROVE written[x] \in Contents
    OBVIOUS
  <2>1. CASE \E s \in batch : slotOf[s] = x
    <3>1. (CHOOSE s \in batch : slotOf[s] = x) \in batch
      BY <2>1
    <3> QED
      BY <2>1, <3>1 DEF Contents
  <2>2. CASE ~(\E s \in batch : slotOf[s] = x)
    BY <1>1, <2>2
  <2> QED
    BY <2>1, <2>2
<1>3. \A x \in Slots : ~(\E s \in batch : slotOf[s] = x) => written[x] = mem[b][x]
  OBVIOUS
<1>4. /\ mem' \in [Buffers -> [Slots -> Contents]]
      /\ \A c \in Buffers, x \in Slots :
           ~(\E s \in batch : slotOf[s] = x) => mem'[c][x] = mem[c][x]
  <2>1. mem' = [mem EXCEPT ![b] = written]
    BY DEF SetBatchState
  <2> HIDE DEF written
  <2> QED
    BY <1>1, <1>2, <1>3, <2>1
<1>5. \A c \in Buffers, i \in 1..Len(free) : mem'[c][free[i]] = Zero
  <2> SUFFICES ASSUME NEW c \in Buffers, NEW i \in 1..Len(free)
               PROVE  mem'[c][free[i]] = Zero
    OBVIOUS
  <2>1. free[i] \in Slots /\ ~(\E s \in batch : slotOf[s] = free[i])
    BY <1>1 DEF Inv, Exclusive, FreeNotOwned
  <2> QED
    BY <1>4, <2>1 DEF Inv, FreeZero
<1>6. /\ rows' \in [Buffers -> InitBatch..MaxSlots]
      /\ \A c \in Buffers : rows[c] <= rows'[c]
      /\ slotOf' \in [Seqs -> Slots \cup {NoSlot}]
      /\ \A s \in Seqs : slotOf'[s] = slotOf[s]
      /\ UNCHANGED <<free, maxBatch>>
  BY Constants DEF Inv, TypeOK, SetBatchState
<1> QED
  BY <1>4, <1>5, <1>6, NoGrantKeepsInv

\* reset_all.
LEMMA ResetAllKeepsInv ==
  ASSUME Inv, ResetAll
  PROVE  Inv'
<1> USE DEF ResetAll
<1>1. maxBatch \in Nat /\ 0 <= maxBatch /\ maxBatch <= MaxSlots
  BY Constants DEF Inv, TypeOK
<1>2. /\ free' \in Seq(Slots)
      /\ Len(free') = maxBatch
      /\ \A i \in 1..maxBatch : free'[i] = maxBatch - i
  <2>1. /\ DownTo(0, maxBatch) \in Seq(Slots)
        /\ Len(DownTo(0, maxBatch)) = maxBatch - 0
        /\ \A i \in 1..(maxBatch - 0) : DownTo(0, maxBatch)[i] = maxBatch - i
    BY <1>1, DownToFacts
  <2>2. maxBatch - 0 = maxBatch
    BY <1>1
  <2> QED
    BY <2>1, <2>2
<1>3. TypeOK'
  BY <1>2, Constants DEF Inv, TypeOK
<1>4. Exclusive'
  BY <1>1, <1>2, NoSlotAssumption DEF Exclusive, OwnersDiffer, FreeDiffer, FreeNotOwned
<1>5. Bounded'
  BY <1>1, <1>2 DEF Inv, Bounded, BelowCapacity, RowsReached
<1>6. FreeZero'
  BY <1>2 DEF FreeZero
<1> QED
  BY <1>3, <1>4, <1>5, <1>6 DEF Inv

\* reset_all that fails between two buffers.
LEMMA ResetAllFailsKeepsInv ==
  ASSUME Inv, NEW n \in 1..(2 * Layers - 1), ResetAllFails(n)
  PROVE  Inv'
<1> USE DEF ResetAllFails
<1>1. /\ mem \in [Buffers -> [Slots -> Contents]]
      /\ free \in Seq(Slots)
  BY DEF Inv, TypeOK
<1>2. /\ mem' \in [Buffers -> [Slots -> Contents]]
      /\ \A b \in Buffers, x \in Slots : mem'[b][x] = Zero \/ mem'[b][x] = mem[b][x]
  BY <1>1, Constants
<1>3. \A b \in Buffers, i \in 1..Len(free) : mem'[b][free[i]] = Zero
  BY <1>1, <1>2 DEF Inv, FreeZero
<1>4. /\ rows' \in [Buffers -> InitBatch..MaxSlots]
      /\ \A c \in Buffers : rows[c] <= rows'[c]
      /\ slotOf' \in [Seqs -> Slots \cup {NoSlot}]
      /\ \A s \in Seqs : slotOf'[s] = slotOf[s]
  BY Constants DEF Inv, TypeOK
<1> QED
  BY <1>2, <1>3, <1>4, NoGrantKeepsInv
-------------------------------------------------------------------------------
\* What ensure_slots_for_sequences works through: sequences without a slot, each once.
LEMMA OrdersAreMissing ==
  ASSUME NEW missing \in Orders(Seqs), EnsureSlotsForSequences(missing)
  PROVE  IsMissing(missing)
<1>1. PICK k \in 1..Cardinality(Seqs) :
        missing \in {f \in [1..k -> Seqs] : \A i, j \in 1..k : f[i] = f[j] => i = j}
  BY DEF Orders
<1>2. k \in Nat
  BY <1>1
<1>3. missing \in Seq(Seqs) /\ Len(missing) = k /\ DOMAIN missing = 1..k
  BY <1>1, <1>2
<1> QED
  BY <1>1, <1>3 DEF EnsureSlotsForSequences, IsMissing, Live

\* Every step, one case per operation, and the stutter.
LEMMA NextInv == Inv /\ [Next]_slotVars => Inv'
<1> SUFFICES ASSUME Inv, [Next]_slotVars PROVE Inv'
  OBVIOUS
<1>1. ASSUME NEW s \in Seqs, AllocateSlot(s) PROVE Inv'
  <2>1. IsMissing(<<s>>)
    BY <1>1 DEF AllocateSlot, IsMissing, Live
  <2> QED
    BY <1>1, <2>1, GrantKeepsInv DEF AllocateSlot
<1>2. ASSUME NEW missing \in Orders(Seqs), EnsureSlotsForSequences(missing) PROVE Inv'
  BY <1>2, OrdersAreMissing, GrantKeepsInv DEF EnsureSlotsForSequences
<1>3. ASSUME NEW s \in Seqs, FreeSlot(s) PROVE Inv'
  BY <1>3, FreeSlotKeepsInv
<1>4. ASSUME NEW s \in Seqs, NEW n \in 0..(2 * Layers - 1), FreeSlotResetFails(s, n) PROVE Inv'
  BY <1>4, FreeSlotResetFailsKeepsInv
<1>5. ASSUME NEW newMax \in 1..MaxSlots, ReserveCapacity(newMax) PROVE Inv'
  BY <1>5, ReserveCapacityKeepsInv
<1>6. ASSUME NEW newMax \in 1..MaxSlots, NEW n \in 1..(2 * Layers - 1),
             ReserveCapacityFails(newMax, n)
      PROVE  Inv'
  BY <1>6, ReserveCapacityFailsKeepsInv
<1>7. ASSUME NEW b \in Buffers, NEW batch \in SUBSET Seqs, NEW val \in [batch -> Values],
             SetBatchState(b, batch, val)
      PROVE  Inv'
  BY <1>7, SetBatchStateKeepsInv
<1>8. CASE ResetAll
  BY <1>8, ResetAllKeepsInv
<1>9. ASSUME NEW n \in 1..(2 * Layers - 1), ResetAllFails(n) PROVE Inv'
  BY <1>9, ResetAllFailsKeepsInv
<1>10. CASE UNCHANGED slotVars
  BY <1>10 DEF slotVars, Inv, TypeOK, Exclusive, OwnersDiffer, FreeDiffer, FreeNotOwned,
               Bounded, BelowCapacity, RowsReached, FreeZero
<1> QED
  BY <1>1, <1>2, <1>3, <1>4, <1>5, <1>6, <1>7, <1>8, <1>9, <1>10 DEF Next

\* The inductive invariant holds of every behaviour.
LEMMA InvAlways == Spec => []Inv
BY InitInv, NextInv, PTL DEF Spec

\* Over sets: what the inductive invariant says of Free and Used.
LEMMA InvMeaning == Inv => SlotsExclusive /\ FreeSlotsZero /\ SlotsInsideBuffers
<1> SUFFICES ASSUME Inv PROVE SlotsExclusive /\ FreeSlotsZero /\ SlotsInsideBuffers
  OBVIOUS
<1>1. /\ free \in Seq(Slots) /\ DOMAIN free = 1..Len(free)
      /\ slotOf \in [Seqs -> Slots \cup {NoSlot}]
      /\ rows \in [Buffers -> InitBatch..MaxSlots] /\ maxBatch \in Nat
  BY Constants DEF Inv, TypeOK
<1>2. SlotsExclusive
  BY <1>1 DEF Inv, Exclusive, OwnersDiffer, FreeDiffer, FreeNotOwned,
              SlotsExclusive, Live, Used, Free
<1>3. FreeSlotsZero
  BY <1>1 DEF Inv, FreeZero, FreeSlotsZero, Free
<1>4. SlotsInsideBuffers
  <2> SUFFICES ASSUME NEW x \in Free \cup Used, NEW b \in Buffers
               PROVE  x < maxBatch /\ x < rows[b]
    BY Constants DEF SlotsInsideBuffers, Buffers
  <2>1. x \in Slots /\ x < maxBatch
    <3>1. CASE x \in Free
      BY <1>1, <3>1 DEF Free, Inv, Bounded, BelowCapacity
    <3>2. CASE x \in Used
      BY <1>1, <3>2 DEF Used, Live, Inv, Bounded, BelowCapacity
    <3> QED
      BY <3>1, <3>2
  <2>2. x \in Nat /\ rows[b] \in Nat /\ maxBatch <= rows[b]
    BY <1>1, <2>1, Constants DEF Inv, Bounded, RowsReached
  <2> QED
    BY <1>1, <2>1, <2>2
<1> QED
  BY <1>2, <1>3, <1>4

\* The state of the slot manager always has its shape.
THEOREM TypeCorrect == Spec => []TypeOK
<1>1. Inv => TypeOK
  BY DEF Inv
<1> QED
  BY <1>1, InvAlways, PTL

\* Whatever fails and however often the cache grows, two running sequences never
\* share a slot and no owned slot is on the free list.
THEOREM SlotsAreExclusive == Spec => []SlotsExclusive
BY InvMeaning, InvAlways, PTL

\* A slot that allocate_slot can hand out is zero in the tensors of every layer.
THEOREM FreeSlotsAreZero == Spec => []FreeSlotsZero
BY InvMeaning, InvAlways, PTL

\* No slot index ever points past the end of a tensor, also when growth stopped
\* between two layers.
THEOREM SlotsAreInside == Spec => []SlotsInsideBuffers
BY InvMeaning, InvAlways, PTL
-------------------------------------------------------------------------------
(* Steps: leaked slots and partial growth.                                   *)

\* A growth replaces the buffers in order, so the first one tells whether some
\* buffer has outgrown the recorded capacity.
PartialFromFirst == (\E b \in Buffers : rows[b] # maxBatch) => rows[1] # maxBatch

\* Growing replaces the first buffer, whose copy must fit.
LEMMA ExpandedNeedsFirst ==
  ASSUME NEW newMax, NEW n \in Nat \ {0}, Expanded(newMax, n)
  PROVE  rows[1] = maxBatch
BY DEF Expanded, CopyFits

\* A full growth leaves every buffer at the new capacity.
LEMMA ReserveCapacityIsFull ==
  ASSUME Inv, NEW newMax \in 1..MaxSlots, ReserveCapacity(newMax)
  PROVE  /\ rows[1] = maxBatch
         /\ \A b \in Buffers : rows'[b] = maxBatch'
<1>1. 2 * Layers \in Nat \ {0} /\ 2 * Layers \in 1..(2 * Layers)
      /\ \A b \in Buffers : b <= 2 * Layers
  BY Constants DEF Buffers
<1>2. Expanded(newMax, 2 * Layers) /\ maxBatch' = newMax
  BY DEF ReserveCapacity
<1>3. \A b \in Buffers : b <= 2 * Layers => rows'[b] = newMax
  BY <1>1, <1>2, ExpandedFacts
<1> QED
  BY <1>1, <1>2, <1>3, ExpandedNeedsFirst

\* Steps other than growing change neither the rows nor the capacity.
LEMMA RowsChangeByGrowth ==
  ASSUME [Next]_slotVars
  PROVE  \/ UNCHANGED <<rows, maxBatch>>
         \/ \E newMax \in 1..MaxSlots : ReserveCapacity(newMax)
         \/ \E newMax \in 1..MaxSlots, n \in 1..(2 * Layers - 1) :
              ReserveCapacityFails(newMax, n)
<1>1. ASSUME NEW missing, Grant(missing) PROVE UNCHANGED <<rows, maxBatch>>
  BY <1>1 DEF Grant, GrantAll, GrantUntilEmpty, GrantUntilResetFails, Granted
<1> QED
  BY <1>1 DEF Next, AllocateSlot, EnsureSlotsForSequences, FreeSlot, FreeSlotResetFails,
              SetBatchState, ResetAll, ResetAllFails, slotVars

\* PartialFromFirst is an invariant.
LEMMA PartialFromFirstStep ==
  Inv /\ PartialFromFirst /\ [Next]_slotVars => PartialFromFirst'
<1> SUFFICES ASSUME Inv, PartialFromFirst, [Next]_slotVars PROVE PartialFromFirst'
  OBVIOUS
<1>1. CASE UNCHANGED <<rows, maxBatch>>
  BY <1>1 DEF PartialFromFirst
<1>2. ASSUME NEW newMax \in 1..MaxSlots, ReserveCapacity(newMax) PROVE PartialFromFirst'
  BY <1>2, ReserveCapacityIsFull DEF PartialFromFirst
<1>3. ASSUME NEW newMax \in 1..MaxSlots, NEW n \in 1..(2 * Layers - 1),
             ReserveCapacityFails(newMax, n)
      PROVE  PartialFromFirst'
  <2>1. n \in 1..(2 * Layers) /\ 1 \in Buffers /\ 1 <= n
    BY Constants DEF Buffers
  <2>2. maxBatch < newMax /\ rows'[1] = newMax /\ maxBatch' = maxBatch
    BY <1>3, <2>1, ExpandedFacts DEF ReserveCapacityFails
  <2>3. maxBatch \in Nat /\ newMax \in Nat
    BY Constants DEF Inv, TypeOK
  <2> QED
    BY <2>2, <2>3 DEF PartialFromFirst
<1> QED
  BY <1>1, <1>2, <1>3, RowsChangeByGrowth

\* Growth is all or never again: once a growth has stopped between two tensors,
\* no step changes the size of any tensor or the capacity.
THEOREM PartialGrowthIsForever == Spec => PartialGrowthIsFinal
<1>1. Init => PartialFromFirst
  BY DEF Init, PartialFromFirst
<1>2. Inv /\ PartialFromFirst /\ [Next]_slotVars =>
        [(\E b \in Buffers : rows[b] # maxBatch) => UNCHANGED <<rows, maxBatch>>]_slotVars
  <2> SUFFICES ASSUME Inv, PartialFromFirst, [Next]_slotVars,
                      \E b \in Buffers : rows[b] # maxBatch
               PROVE  UNCHANGED <<rows, maxBatch>>
    OBVIOUS
  <2>1. rows[1] # maxBatch
    BY DEF PartialFromFirst
  <2>2. ASSUME NEW newMax \in 1..MaxSlots, ReserveCapacity(newMax) PROVE FALSE
    BY <2>1, <2>2, ReserveCapacityIsFull
  <2>3. ASSUME NEW newMax \in 1..MaxSlots, NEW n \in 1..(2 * Layers - 1),
               ReserveCapacityFails(newMax, n)
        PROVE  FALSE
    <3>1. n \in Nat \ {0}
      BY Constants
    <3> QED
      BY <2>1, <2>3, <3>1, ExpandedNeedsFirst DEF ReserveCapacityFails
  <2> QED
    BY <2>2, <2>3, RowsChangeByGrowth
<1> QED
  BY <1>1, <1>2, PartialFromFirstStep, InvAlways, PTL DEF Spec, PartialGrowthIsFinal
-------------------------------------------------------------------------------
(* Leaked slots.                                                             *)

\* A slot that a step adds to the free list or gives to a sequence was in one of
\* the two before, or is beyond the old capacity.
OwnedBeforeOrNew ==
  \A x \in Free' \cup Used' : x \in Free \cup Used \/ x \notin 0..(maxBatch - 1)

\* Popping slots moves them from the free list to their sequences.
LEMMA GrantMovesSlots ==
  ASSUME Inv, NEW missing, IsMissing(missing), Grant(missing)
  PROVE  OwnedBeforeOrNew /\ maxBatch' = maxBatch
<1>1. PICK done \in 0..Len(missing) : Granted(missing, done)
  BY DEF Grant, GrantAll, GrantUntilEmpty, GrantUntilResetFails, Inv, TypeOK, IsMissing
<1>2. /\ done <= Len(free)
      /\ free' \in Seq(Slots)
      /\ Len(free') = Len(free) - done
      /\ \A i \in 1..Len(free') : free'[i] = free[i]
      /\ \A s \in Seqs :
           \/ \E i \in 1..done : missing[i] = s /\ slotOf'[s] = TopSlot(i)
           \/ slotOf'[s] = slotOf[s] /\ \A i \in 1..done : missing[i] # s
  BY <1>1, GrantedFacts DEF Inv
<1>3. Len(free) \in Nat /\ done \in Nat /\ DOMAIN free = 1..Len(free)
      /\ DOMAIN free' = 1..Len(free')
  BY <1>2 DEF Inv, TypeOK, IsMissing
<1>4. Free' \subseteq Free
  BY <1>2, <1>3 DEF Free
<1>5. ASSUME NEW s \in Seqs, slotOf'[s] # NoSlot PROVE slotOf'[s] \in Free \cup Used
  <2>1. CASE \E i \in 1..done : missing[i] = s /\ slotOf'[s] = TopSlot(i)
    <3>1. PICK i \in 1..done : slotOf'[s] = TopSlot(i)
      BY <2>1
    <3>2. Len(free) + 1 - i \in DOMAIN free
      BY <1>2, <1>3
    <3> QED
      BY <3>1, <3>2 DEF TopSlot, Free
  <2>2. CASE slotOf'[s] = slotOf[s]
    BY <1>5, <2>2 DEF Used, Live
  <2> QED
    BY <1>2, <2>1, <2>2
<1>6. Used' \subseteq Free \cup Used
  BY <1>5 DEF Used, Live
<1> QED
  BY <1>1, <1>4, <1>6 DEF OwnedBeforeOrNew, Granted

\* free_slot moves the slot to the free list or drops it.
LEMMA FreeSlotMovesSlot ==
  ASSUME Inv, NEW s \in Seqs,
         FreeSlot(s) \/ \E n \in 0..(2 * Layers - 1) : FreeSlotResetFails(s, n)
  PROVE  OwnedBeforeOrNew /\ maxBatch' = maxBatch
<1>1. /\ s \in Live
      /\ slotOf' = [slotOf EXCEPT ![s] = NoSlot]
      /\ free' = Append(free, slotOf[s]) \/ free' = free
      /\ maxBatch' = maxBatch
  BY DEF FreeSlot, FreeSlotResetFails
<1>2. free \in Seq(Slots) /\ slotOf \in [Seqs -> Slots \cup {NoSlot}] /\ slotOf[s] \in Slots
  BY <1>1 DEF Inv, TypeOK, Live
<1>3. slotOf[s] \in Used
  BY <1>1 DEF Used, Live
<1>4. Free' \subseteq Free \cup Used
  <2>1. CASE free' = free
    BY <2>1 DEF Free
  <2>2. CASE free' = Append(free, slotOf[s])
    <3>1. DOMAIN free' = 1..(Len(free) + 1) /\ DOMAIN free = 1..Len(free) /\ Len(free) \in Nat
      BY <1>2, <2>2
    <3>2. \A i \in DOMAIN free' :
            free'[i] = slotOf[s] \/ (i \in DOMAIN free /\ free'[i] = free[i])
      BY <1>2, <2>2, <3>1
    <3> QED
      BY <1>3, <3>2 DEF Free
  <2> QED
    BY <1>1, <2>1, <2>2
<1>5. Used' \subseteq Used
  BY <1>1, <1>2 DEF Used, Live
<1> QED
  BY <1>1, <1>4, <1>5 DEF OwnedBeforeOrNew

\* reserve_capacity adds slots from the old capacity up.
LEMMA ReserveCapacityAddsNew ==
  ASSUME Inv, NEW newMax \in 1..MaxSlots, ReserveCapacity(newMax)
  PROVE  OwnedBeforeOrNew /\ maxBatch \in Nat /\ maxBatch' \in Nat /\ maxBatch <= maxBatch'
<1>1. /\ maxBatch < newMax /\ maxBatch' = newMax /\ slotOf' = slotOf
      /\ free' = free \o DownTo(maxBatch, newMax)
  BY DEF ReserveCapacity, Expanded
<1>2. maxBatch \in Nat /\ newMax \in Nat /\ newMax <= MaxSlots /\ free \in Seq(Slots)
  BY Constants DEF Inv, TypeOK
<1> DEFINE new == DownTo(maxBatch, newMax)
<1>3. /\ new \in Seq(Slots) /\ Len(new) = newMax - maxBatch
      /\ \A i \in 1..(newMax - maxBatch) : new[i] = newMax - i
  BY <1>1, <1>2, DownToFacts
<1>4. \A i \in 1..Len(new) : new[i] \notin 0..(maxBatch - 1)
  BY <1>2, <1>3
<1>5. ASSUME NEW x \in Free' PROVE x \in Free \/ x \notin 0..(maxBatch - 1)
  <2> HIDE DEF new
  <2>1. free' = free \o new
    BY <1>1 DEF new
  <2>2. PICK i \in DOMAIN free' : x = free'[i]
    BY DEF Free
  <2>3. i \in 1..(Len(free) + Len(new)) /\ Len(free) \in Nat /\ Len(new) \in Nat
    BY <1>2, <1>3, <2>1, <2>2
  <2>4. CASE i \in 1..Len(free)
    BY <1>2, <1>3, <2>1, <2>2, <2>4 DEF Free
  <2>5. CASE i - Len(free) \in 1..Len(new)
    <3>1. x = new[i - Len(free)]
      BY <1>2, <1>3, <2>1, <2>2, <2>3, <2>5
    <3> QED
      BY <1>4, <2>5, <3>1
  <2> QED
    BY <2>3, <2>4, <2>5
<1>6. Used' = Used
  BY <1>1 DEF Used, Live
<1> QED
  BY <1>1, <1>2, <1>5, <1>6 DEF OwnedBeforeOrNew

\* A slot that free_slot had to give up is handed out by no operation and found by
\* no growth; only a reset of the whole cache, which ends every sequence, recovers it.
THEOREM LeakedIsLost == Spec => LeakedUntilResetAll
<1> DEFINE Recovered == Live' = {} /\ Free' = 0..(maxBatch - 1)
<1>1. Inv /\ [Next]_slotVars =>
        [\A x \in Leaked : x \in Leaked' \/ (Live' = {} /\ Free' = 0..(maxBatch - 1))]_slotVars
  <2> SUFFICES ASSUME Inv, [Next]_slotVars, NEW x \in Leaked
               PROVE  x \in Leaked' \/ Recovered
    OBVIOUS
  <2>0. maxBatch \in Nat /\ x \in 0..(maxBatch - 1) /\ x \notin Free \cup Used
    BY Constants DEF Inv, TypeOK, Leaked
  <2>1. ASSUME OwnedBeforeOrNew, maxBatch' = maxBatch PROVE x \in Leaked'
    BY <2>0, <2>1 DEF OwnedBeforeOrNew, Leaked
  <2>2. ASSUME UNCHANGED <<free, slotOf, maxBatch>> PROVE x \in Leaked'
    BY <2>2 DEF Leaked, Free, Used, Live
  <2>3. ASSUME NEW s \in Seqs, AllocateSlot(s) PROVE x \in Leaked'
    <3>1. IsMissing(<<s>>)
      BY <2>3 DEF AllocateSlot, IsMissing, Live
    <3> QED
      BY <2>1, <2>3, <3>1, GrantMovesSlots DEF AllocateSlot
  <2>4. ASSUME NEW missing \in Orders(Seqs), EnsureSlotsForSequences(missing)
        PROVE  x \in Leaked'
    <3>1. IsMissing(missing)
      BY <2>4, OrdersAreMissing
    <3> QED
      BY <2>1, <2>4, <3>1, GrantMovesSlots DEF EnsureSlotsForSequences
  <2>5. ASSUME NEW s \in Seqs,
               FreeSlot(s) \/ \E n \in 0..(2 * Layers - 1) : FreeSlotResetFails(s, n)
        PROVE  x \in Leaked'
    BY <2>1, <2>5, FreeSlotMovesSlot
  <2>6. ASSUME NEW newMax \in 1..MaxSlots, ReserveCapacity(newMax) PROVE x \in Leaked'
    <3>1. OwnedBeforeOrNew /\ maxBatch' \in Nat /\ maxBatch <= maxBatch'
      BY <2>6, ReserveCapacityAddsNew
    <3>2. x \in 0..(maxBatch' - 1)
      <4> DEFINE new == maxBatch'
      <4>1. new \in Nat /\ maxBatch <= new
        BY <3>1
      <4> HIDE DEF new
      <4>2. x \in 0..(new - 1)
        BY <2>0, <4>1
      <4> QED
        BY <4>2 DEF new
    <3>3. x \notin Free' \cup Used'
      BY <2>0, <3>1 DEF OwnedBeforeOrNew
    <3> QED
      BY <3>2, <3>3 DEF Leaked
  <2>7. CASE ResetAll
    <3>1. /\ free' = DownTo(0, maxBatch) /\ slotOf' = [s \in Seqs |-> NoSlot]
      BY <2>7 DEF ResetAll
    <3>2. /\ Len(DownTo(0, maxBatch)) = maxBatch - 0 /\ maxBatch - 0 = maxBatch
          /\ DownTo(0, maxBatch) \in Seq(Slots)
          /\ \A i \in 1..(maxBatch - 0) : DownTo(0, maxBatch)[i] = maxBatch - i
      BY <2>0, DownToFacts, Constants DEF Inv, TypeOK
    <3>3. DOMAIN free' = 1..maxBatch /\ \A i \in 1..maxBatch : free'[i] = maxBatch - i
      BY <3>1, <3>2
    <3>4. ASSUME NEW y \in 0..(maxBatch - 1) PROVE y \in Free'
      <4>1. maxBatch - y \in 1..maxBatch /\ free'[maxBatch - y] = y
        BY <2>0, <3>3
      <4> QED
        BY <3>3, <4>1 DEF Free
    <3>5. Free' \subseteq 0..(maxBatch - 1)
      BY <2>0, <3>3 DEF Free
    <3>6. Live' = {}
      BY <3>1 DEF Live
    <3> QED
      BY <3>4, <3>5, <3>6
  <2>8. ASSUME \/ \E newMax \in 1..MaxSlots, n \in 1..(2 * Layers - 1) :
                    ReserveCapacityFails(newMax, n)
               \/ \E b \in Buffers, batch \in SUBSET Seqs :
                    \E val \in [batch -> Values] : SetBatchState(b, batch, val)
               \/ \E n \in 1..(2 * Layers - 1) : ResetAllFails(n)
               \/ UNCHANGED slotVars
        PROVE  x \in Leaked'
    BY <2>2, <2>8 DEF ReserveCapacityFails, Expanded, SetBatchState, ResetAllFails, slotVars
  <2> QED
    BY <2>3, <2>4, <2>5, <2>6, <2>7, <2>8 DEF Next
<1> QED
  BY <1>1, InvAlways, PTL DEF Spec, LeakedUntilResetAll
-------------------------------------------------------------------------------
(* Refinement.                                                               *)

\* The abstract state of a sequence: the rows of its slot.
Abstract ==
  [s \in Seqs |-> IF slotOf[s] = NoSlot THEN NoSlot
                  ELSE [b \in Buffers |-> mem[b][slotOf[s]]]]

\* A sequence runs in the abstract when it has a slot.
LEMMA RunningIsLive ==
  ASSUME Inv
  PROVE  /\ SeqStates!Running = Live
         /\ \A s \in Live : slotOf[s] \in Slots
<1>1. \A s \in Live : slotOf[s] \in Slots /\ [b \in Buffers |-> mem[b][slotOf[s]]] # NoSlot
  <2> SUFFICES ASSUME NEW s \in Live
               PROVE  slotOf[s] \in Slots /\ [b \in Buffers |-> mem[b][slotOf[s]]] # NoSlot
    OBVIOUS
  <2>1. slotOf[s] \in Slots /\ mem \in [Buffers -> [Slots -> Contents]]
    BY DEF Inv, TypeOK, Live
  <2>2. [b \in Buffers |-> mem[b][slotOf[s]]] \in [Buffers -> Contents]
    BY <2>1
  <2> QED
    BY <2>1, <2>2, NoStateAssumption
<1> QED
  BY <1>1 DEF SeqStates!Running, Live

\* Steps that keep a sequence's slot and the rows of that slot keep its state.
LEMMA SameRowsSameState ==
  ASSUME NEW s \in Seqs, slotOf'[s] = slotOf[s],
         slotOf[s] # NoSlot => \A b \in Buffers : mem'[b][slotOf[s]] = mem[b][slotOf[s]]
  PROVE  Abstract'[s] = Abstract[s]
BY DEF Abstract

\* A grant starts the sequences that get slots, each from zero.
LEMMA GrantStarts ==
  ASSUME Inv, NEW missing, IsMissing(missing), Grant(missing)
  PROVE  \E batch \in SUBSET Seqs : SeqStates!Start(batch)
<1>0. Len(missing) \in Nat /\ Len(free) \in Nat /\ free \in Seq(Slots)
      /\ mem \in [Buffers -> [Slots -> Contents]]
      /\ slotOf \in [Seqs -> Slots \cup {NoSlot}]
  BY DEF Inv, TypeOK, IsMissing
<1>1. PICK done \in 0..Len(missing) :
        /\ Granted(missing, done)
        /\ \/ mem' = GrantedRows(done)
           \/ /\ done < Len(free)
              /\ \E n \in 0..(2 * Layers - 1) :
                   mem' = ZeroRow(GrantedRows(done), TopSlot(done + 1), n)
  <2>1. CASE GrantAll(missing)
    BY <1>0, <2>1 DEF GrantAll
  <2>2. CASE GrantUntilEmpty(missing)
    BY <1>0, <2>2 DEF GrantUntilEmpty
  <2>3. ASSUME NEW d \in 0..(Len(missing) - 1), NEW n \in 0..(2 * Layers - 1),
               GrantUntilResetFails(missing, d, n)
        PROVE  \E e \in 0..Len(missing) :
                 /\ Granted(missing, e)
                 /\ \/ mem' = GrantedRows(e)
                    \/ /\ e < Len(free)
                       /\ \E k \in 0..(2 * Layers - 1) :
                            mem' = ZeroRow(GrantedRows(e), TopSlot(e + 1), k)
    BY <1>0, <2>3 DEF GrantUntilResetFails
  <2> QED
    BY <2>1, <2>2, <2>3 DEF Grant
<1> DEFINE batch == {missing[i] : i \in 1..done}
<1>2. /\ done <= Len(free) /\ done \in Nat
      /\ \A s \in Seqs :
           \/ \E i \in 1..done : missing[i] = s /\ slotOf'[s] = TopSlot(i)
           \/ slotOf'[s] = slotOf[s] /\ \A i \in 1..done : missing[i] # s
      /\ \A i \in 1..done : TopSlot(i) \in Slots
  BY <1>1, GrantedFacts DEF Inv
<1>3. batch \in SUBSET Seqs /\ \A s \in batch : slotOf[s] = NoSlot
  BY <1>0, <1>2 DEF IsMissing
<1>4. \A i \in 1..done : /\ Len(free) + 1 - i \in 1..Len(free)
                         /\ TopSlot(i) = free[Len(free) + 1 - i]
  BY <1>0, <1>2 DEF TopSlot
<1>5. ASSUME NEW i \in 1..done, NEW b \in Buffers PROVE mem'[b][TopSlot(i)] = Zero
  <2>1. GrantedRows(done)[b][TopSlot(i)] = Zero
    BY <1>2, GrantedRowsFacts DEF Inv
  <2>2. CASE mem' = GrantedRows(done)
    BY <2>1, <2>2
  <2>3. ASSUME done < Len(free), NEW n \in 0..(2 * Layers - 1),
               mem' = ZeroRow(GrantedRows(done), TopSlot(done + 1), n)
        PROVE  mem'[b][TopSlot(i)] = Zero
    <3>1. TopSlot(done + 1) \in Slots /\ n \in Nat
      BY <1>0, <1>2, <2>3, Constants DEF TopSlot
    <3>2. GrantedRows(done) \in [Buffers -> [Slots -> Contents]]
      BY <1>2, GrantedRowsFacts DEF Inv
    <3> QED
      BY <1>2, <2>1, <2>3, <3>1, <3>2, ZeroRowFacts
  <2> QED
    BY <1>1, <2>2, <2>3
<1>6. ASSUME NEW x \in Slots, NEW b \in Buffers, \A j \in 1..Len(free) : free[j] # x
      PROVE  mem'[b][x] = mem[b][x]
  <2>1. GrantedRows(done)[b][x] = mem[b][x]
    <3>1. ~(\E i \in 1..done : TopSlot(i) = x)
      BY <1>4, <1>6
    <3>2. TypeOK /\ done \in Nat
      BY <1>2 DEF Inv
    <3> QED
      BY <3>1, <3>2, GrantedRowsFacts
  <2>2. CASE mem' = GrantedRows(done)
    BY <2>1, <2>2
  <2>3. ASSUME done < Len(free), NEW n \in 0..(2 * Layers - 1),
               mem' = ZeroRow(GrantedRows(done), TopSlot(done + 1), n)
        PROVE  mem'[b][x] = mem[b][x]
    <3>1. TopSlot(done + 1) \in Slots /\ n \in Nat /\ TopSlot(done + 1) # x
      <4>1. Len(free) + 1 - (done + 1) \in 1..Len(free)
        BY <1>0, <1>2, <2>3
      <4> QED
        BY <1>0, <1>6, <4>1, Constants DEF TopSlot
    <3>2. GrantedRows(done) \in [Buffers -> [Slots -> Contents]]
      BY <1>2, GrantedRowsFacts DEF Inv
    <3> QED
      BY <2>1, <2>3, <3>1, <3>2, ZeroRowFacts
  <2> QED
    BY <1>1, <2>2, <2>3
<1>7. ASSUME NEW s \in Seqs
      PROVE  Abstract'[s] = IF s \in batch THEN SeqStates!ZeroState ELSE Abstract[s]
  <2>1. CASE s \in batch
    <3>1. PICK i \in 1..done : slotOf'[s] = TopSlot(i)
      BY <1>2, <2>1
    <3>2. slotOf'[s] # NoSlot /\ \A b \in Buffers : mem'[b][slotOf'[s]] = Zero
      BY <1>2, <1>5, <3>1, Constants
    <3> QED
      BY <2>1, <3>2 DEF Abstract, SeqStates!ZeroState
  <2>2. CASE s \notin batch
    <3>1. slotOf'[s] = slotOf[s]
      BY <1>2, <2>2
    <3>2. ASSUME slotOf[s] # NoSlot, NEW b \in Buffers
          PROVE  mem'[b][slotOf[s]] = mem[b][slotOf[s]]
      <4>1. slotOf[s] \in Slots /\ \A j \in 1..Len(free) : free[j] # slotOf[s]
        BY <1>0, <3>2 DEF Inv, Exclusive, FreeNotOwned
      <4> QED
        BY <1>6, <4>1
    <3> QED
      BY <2>2, <3>1, <3>2, SameRowsSameState
  <2> QED
    BY <2>1, <2>2
<1>8. batch \cap SeqStates!Running = {}
  BY <1>3, RunningIsLive DEF Live
<1>9. Abstract' = [s \in Seqs |-> IF s \in batch THEN SeqStates!ZeroState ELSE Abstract[s]]
  <2> HIDE DEF batch
  <2> QED
    BY <1>7 DEF Abstract
<1>10. SeqStates!Start(batch)
  BY <1>8, <1>9 DEF SeqStates!Start, Abstract
<1> QED
  BY <1>3, <1>10

\* free_slot ends the sequence and touches no other, whether zeroing fails or not.
LEMMA FreeSlotFinishes ==
  ASSUME Inv, NEW s \in Seqs,
         FreeSlot(s) \/ \E n \in 0..(2 * Layers - 1) : FreeSlotResetFails(s, n)
  PROVE  SeqStates!Finish(s)
<1>1. PICK n \in Nat : /\ s \in Live
                       /\ slotOf' = [slotOf EXCEPT ![s] = NoSlot]
                       /\ mem' = ZeroRow(mem, slotOf[s], n)
  BY Constants DEF FreeSlot, FreeSlotResetFails
<1>2. /\ slotOf \in [Seqs -> Slots \cup {NoSlot}] /\ slotOf[s] \in Slots
      /\ mem \in [Buffers -> [Slots -> Contents]]
  BY <1>1 DEF Inv, TypeOK, Live
<1>3. ASSUME NEW t \in Seqs, t # s PROVE Abstract'[t] = Abstract[t]
  <2>1. slotOf'[t] = slotOf[t]
    BY <1>1, <1>2, <1>3
  <2>2. ASSUME slotOf[t] # NoSlot, NEW b \in Buffers
        PROVE  mem'[b][slotOf[t]] = mem[b][slotOf[t]]
    <3>1. slotOf[t] \in Slots /\ slotOf[t] # slotOf[s]
      BY <1>2, <1>3, <2>2 DEF Inv, Exclusive, OwnersDiffer
    <3> QED
      BY <1>1, <1>2, <3>1, ZeroRowFacts
  <2> QED
    BY <2>1, <2>2, SameRowsSameState
<1>4. Abstract'[s] = NoSlot
  BY <1>1, <1>2 DEF Abstract
<1>5. Abstract' = [Abstract EXCEPT ![s] = NoSlot]
  BY <1>3, <1>4 DEF Abstract
<1>6. s \in SeqStates!Running
  BY <1>1, RunningIsLive
<1> QED
  BY <1>5, <1>6 DEF SeqStates!Finish, Abstract

\* Growing, also when it fails, changes the state of no sequence.
LEMMA ExpandedIsInvisible ==
  ASSUME Inv, NEW newMax \in 1..MaxSlots, NEW n \in 1..(2 * Layers), Expanded(newMax, n)
  PROVE  Abstract' = Abstract
<1>1. /\ slotOf' = slotOf
      /\ \A b \in Buffers, x \in Slots : x < maxBatch => mem'[b][x] = mem[b][x]
  BY ExpandedFacts
<1>2. ASSUME NEW s \in Seqs PROVE Abstract'[s] = Abstract[s]
  <2>1. slotOf[s] # NoSlot => slotOf[s] \in Slots /\ slotOf[s] < maxBatch
    BY DEF Inv, TypeOK, Bounded, BelowCapacity
  <2> QED
    BY <1>1, <2>1, SameRowsSameState
<1> QED
  BY <1>2 DEF Abstract

\* A batch write gives every sequence of the batch its own row, and only those.
LEMMA SetBatchStateWrites ==
  ASSUME Inv, NEW b \in Buffers, NEW batch \in SUBSET Seqs,
         NEW val \in [batch -> Values], SetBatchState(b, batch, val)
  PROVE  SeqStates!Write(b, batch, val)
<1>1. /\ batch \subseteq Live /\ slotOf' = slotOf
      /\ mem \in [Buffers -> [Slots -> Contents]]
      /\ \A s \in Live : slotOf[s] \in Slots /\ slotOf[s] # NoSlot
  BY DEF SetBatchState, Inv, TypeOK, Live
<1>2. ASSUME NEW c \in Buffers, c # b PROVE mem'[c] = mem[c]
  BY <1>1, <1>2 DEF SetBatchState
<1>3. \A x \in Slots :
        mem'[b][x] = IF \E t \in batch : slotOf[t] = x
                     THEN val[CHOOSE t \in batch : slotOf[t] = x]
                     ELSE mem[b][x]
  BY <1>1 DEF SetBatchState
<1>4. ASSUME NEW s \in batch PROVE mem'[b][slotOf[s]] = val[s]
  <2>1. slotOf[s] \in Slots /\ slotOf[s] # NoSlot
    BY <1>1
  <2>2. \A t \in batch : slotOf[t] = slotOf[s] => t = s
    BY <2>1 DEF Inv, Exclusive, OwnersDiffer
  <2>3. (CHOOSE t \in batch : slotOf[t] = slotOf[s]) = s
    BY <2>2
  <2> QED
    BY <1>3, <2>1, <2>3
<1>5. ASSUME NEW s \in Live, s \notin batch PROVE mem'[b][slotOf[s]] = mem[b][slotOf[s]]
  <2>1. slotOf[s] \in Slots /\ slotOf[s] # NoSlot /\ s \in Seqs
    BY <1>1 DEF Live
  <2>2. ~(\E t \in batch : slotOf[t] = slotOf[s])
    BY <1>5, <2>1 DEF Inv, Exclusive, OwnersDiffer
  <2> QED
    BY <1>3, <2>1, <2>2
<1>6. ASSUME NEW s \in Seqs
      PROVE  Abstract'[s] = IF s \in batch THEN [Abstract[s] EXCEPT ![b] = val[s]]
                            ELSE Abstract[s]
  <2>1. CASE s \in batch
    <3>1. Abstract[s] = [c \in Buffers |-> mem[c][slotOf[s]]]
      BY <1>1, <2>1 DEF Abstract
    <3>2. Abstract'[s] = [c \in Buffers |-> mem'[c][slotOf[s]]]
      BY <1>1, <2>1 DEF Abstract
    <3>3. [c \in Buffers |-> mem'[c][slotOf[s]]]
            = [[c \in Buffers |-> mem[c][slotOf[s]]] EXCEPT ![b] = val[s]]
      BY <1>2, <1>4, <2>1
    <3> QED
      BY <2>1, <3>1, <3>2, <3>3
  <2>2. CASE s \notin batch
    <3>1. slotOf[s] # NoSlot => \A c \in Buffers : mem'[c][slotOf[s]] = mem[c][slotOf[s]]
      BY <1>2, <1>5, <2>2 DEF Live
    <3> QED
      BY <1>1, <2>2, <3>1, SameRowsSameState
  <2> QED
    BY <2>1, <2>2
<1>7. Abstract' = [s \in Seqs |-> IF s \in batch THEN [Abstract[s] EXCEPT ![b] = val[s]]
                                 ELSE Abstract[s]]
  BY <1>6 DEF Abstract
<1>8. batch \subseteq SeqStates!Running
  BY <1>1, RunningIsLive
<1> QED
  BY <1>7, <1>8 DEF SeqStates!Write, Abstract

\* reset_all ends every sequence ...
LEMMA ResetAllClears ==
  ASSUME Inv, ResetAll
  PROVE  SeqStates!Clear
<1>1. Abstract' = [s \in Seqs |-> NoSlot]
  BY DEF Abstract, ResetAll
<1> QED
  BY <1>1 DEF SeqStates!Clear, Abstract

\* ... or zeroes the buffers before the one that fails.
LEMMA ResetAllFailsClears ==
  ASSUME Inv, NEW n \in 1..(2 * Layers - 1), ResetAllFails(n)
  PROVE  SeqStates!ClearStopsAfter(n)
<1>1. /\ n + 1 \in Buffers /\ n \in Nat /\ slotOf' = slotOf
      /\ mem \in [Buffers -> [Slots -> Contents]]
  BY Constants DEF Buffers, ResetAllFails, Inv, TypeOK
<1>2. \A b \in Buffers, x \in Slots : mem'[b][x] = IF b <= n THEN Zero ELSE mem[b][x]
  BY <1>1 DEF ResetAllFails
<1>3. ASSUME NEW s \in Seqs
      PROVE  Abstract'[s] = IF s \in Live
                            THEN [b \in Buffers |-> IF b <= n THEN Zero ELSE Abstract[s][b]]
                            ELSE NoSlot
  <2>1. CASE s \in Live
    <3>1. /\ Abstract'[s] = [b \in Buffers |-> mem'[b][slotOf[s]]]
          /\ Abstract[s] = [b \in Buffers |-> mem[b][slotOf[s]]]
          /\ slotOf[s] \in Slots
      BY <1>1, <2>1, RunningIsLive DEF Abstract, Live
    <3> QED
      BY <1>2, <2>1, <3>1
  <2>2. CASE s \notin Live
    BY <1>1, <2>2 DEF Abstract, Live
  <2> QED
    BY <2>1, <2>2
<1>4. Abstract' = [s \in Seqs |->
                     IF s \in SeqStates!Running
                     THEN [b \in Buffers |-> IF b <= n THEN Zero ELSE Abstract[s][b]]
                     ELSE NoSlot]
  BY <1>3, RunningIsLive DEF Abstract
<1> QED
  BY <1>1, <1>4 DEF SeqStates!ClearStopsAfter, Abstract

\* Through their slots, sequences have the private states that SequenceStates
\* promises, for any number of sequences, layers and slots and whatever fails.
THEOREM SlotsArePrivateStates == Spec => ImplementsSequenceStates
<1>1. Init => SeqStates!Init
  BY DEF Init, SeqStates!Init
<1>2. Inv /\ [Next]_slotVars => [SeqStates!Next]_Abstract
  <2> SUFFICES ASSUME Inv, [Next]_slotVars PROVE [SeqStates!Next]_Abstract
    OBVIOUS
  <2>1. ASSUME NEW s \in Seqs, AllocateSlot(s) PROVE SeqStates!Next
    <3>1. IsMissing(<<s>>)
      BY <2>1 DEF AllocateSlot, IsMissing, Live
    <3> QED
      BY <2>1, <3>1, GrantStarts DEF AllocateSlot, SeqStates!Next
  <2>2. ASSUME NEW missing \in Orders(Seqs), EnsureSlotsForSequences(missing)
        PROVE  SeqStates!Next
    <3>1. IsMissing(missing)
      BY <2>2, OrdersAreMissing
    <3> QED
      BY <2>2, <3>1, GrantStarts DEF EnsureSlotsForSequences, SeqStates!Next
  <2>3. ASSUME NEW s \in Seqs,
               FreeSlot(s) \/ \E n \in 0..(2 * Layers - 1) : FreeSlotResetFails(s, n)
        PROVE  SeqStates!Next
    BY <2>3, FreeSlotFinishes DEF SeqStates!Next
  <2>4. ASSUME NEW newMax \in 1..MaxSlots,
               \/ ReserveCapacity(newMax)
               \/ \E n \in 1..(2 * Layers - 1) : ReserveCapacityFails(newMax, n)
        PROVE  Abstract' = Abstract
    <3>1. PICK n \in 1..(2 * Layers) : Expanded(newMax, n)
      BY <2>4, Constants DEF ReserveCapacity, ReserveCapacityFails
    <3> QED
      BY <3>1, ExpandedIsInvisible
  <2>5. ASSUME NEW b \in Buffers, NEW batch \in SUBSET Seqs, NEW val \in [batch -> Values],
               SetBatchState(b, batch, val)
        PROVE  SeqStates!Next
    BY <2>5, SetBatchStateWrites DEF SeqStates!Next
  <2>6. CASE ResetAll
    BY <2>6, ResetAllClears DEF SeqStates!Next
  <2>7. ASSUME NEW n \in 1..(2 * Layers - 1), ResetAllFails(n) PROVE SeqStates!Next
    <3>1. n \in Buffers
      BY Constants DEF Buffers
    <3> QED
      BY <2>7, <3>1, ResetAllFailsClears DEF SeqStates!Next
  <2>8. CASE UNCHANGED slotVars
    BY <2>8 DEF slotVars, Abstract
  <2> QED
    BY <2>1, <2>2, <2>3, <2>4, <2>5, <2>6, <2>7, <2>8 DEF Next
<1> QED
  BY <1>1, <1>2, InvAlways, PTL DEF Spec, ImplementsSequenceStates, SeqStates!Spec, Abstract

-------------------------------------------------------------------------------
(* The cache as a whole. *)

\* Copying buffers of a snapshot into the slot of a running sequence keeps the
\* invariant of the slots and changes the state of that sequence alone.
LEMMA WriteSlotLoads ==
  ASSUME Inv, NEW s \in Seqs, NEW snap \in [Buffers -> Contents], NEW n \in Nat,
         WriteSlot(s, snap, n)
  PROVE  Inv' /\ SeqStates!Load(s, snap, n)
<1>1. /\ s \in Live
      /\ mem' = [b \in Buffers |-> IF b <= n THEN [mem[b] EXCEPT ![slotOf[s]] = snap[b]]
                                   ELSE mem[b]]
      /\ UNCHANGED <<rows, free, slotOf, maxBatch>>
  BY DEF WriteSlot
<1>2. /\ mem \in [Buffers -> [Slots -> Contents]] /\ free \in Seq(Slots)
      /\ slotOf \in [Seqs -> Slots \cup {NoSlot}]
      /\ slotOf[s] \in Slots /\ slotOf[s] # NoSlot
  BY <1>1 DEF Inv, TypeOK, Live
<1>3. \A b \in Buffers, x \in Slots :
        mem'[b][x] = IF b <= n /\ x = slotOf[s] THEN snap[b] ELSE mem[b][x]
  BY <1>1, <1>2
<1>4. mem' \in [Buffers -> [Slots -> Contents]]
  BY <1>1, <1>2
<1>5. Inv'
  <2>1. ASSUME NEW b \in Buffers, NEW i \in 1..Len(free) PROVE mem'[b][free[i]] = Zero
    <3>1. free[i] \in Slots /\ free[i] # slotOf[s]
      BY <1>2 DEF Inv, Exclusive, FreeNotOwned
    <3> QED
      BY <1>3, <3>1 DEF Inv, FreeZero
  <2>2. /\ rows' \in [Buffers -> InitBatch..MaxSlots]
        /\ \A b \in Buffers : rows[b] <= rows'[b]
        /\ slotOf' \in [Seqs -> Slots \cup {NoSlot}]
        /\ \A t \in Seqs : slotOf'[t] = slotOf[t]
        /\ UNCHANGED <<free, maxBatch>>
    BY <1>1, Constants DEF Inv, TypeOK
  <2> QED
    BY <1>4, <2>1, <2>2, NoGrantKeepsInv
<1>6. ASSUME NEW t \in Seqs, t # s PROVE Abstract'[t] = Abstract[t]
  <2>1. ASSUME slotOf[t] # NoSlot, NEW b \in Buffers
        PROVE  mem'[b][slotOf[t]] = mem[b][slotOf[t]]
    <3>1. slotOf[t] \in Slots /\ slotOf[t] # slotOf[s]
      BY <1>2, <1>6, <2>1 DEF Inv, Exclusive, OwnersDiffer
    <3> QED
      BY <1>3, <3>1
  <2> QED
    BY <1>1, <2>1, SameRowsSameState
<1>7. Abstract'[s] = [b \in Buffers |-> IF b <= n THEN snap[b] ELSE Abstract[s][b]]
  <2>1. /\ Abstract'[s] = [b \in Buffers |-> mem'[b][slotOf[s]]]
        /\ Abstract[s] = [b \in Buffers |-> mem[b][slotOf[s]]]
    BY <1>1, <1>2 DEF Abstract
  <2> QED
    BY <1>2, <1>3, <2>1
<1>8. Abstract' = [Abstract EXCEPT ![s] = [b \in Buffers |-> IF b <= n THEN snap[b]
                                                            ELSE Abstract[s][b]]]
  BY <1>6, <1>7 DEF Abstract
<1>9. s \in SeqStates!Running
  BY <1>1, RunningIsLive
<1>10. SeqStates!Load(s, snap, n)
  BY <1>8, <1>9 DEF SeqStates!Load, Abstract
<1> QED
  BY <1>5, <1>10
-------------------------------------------------------------------------------
(* The mapping.                                                              *)

LEMMA Mapped ==
  /\ SlotStates = Abstract /\ SlotStates' = Abstract'
  /\ StoredSnapshots = StoreOf(Now) /\ StoredSnapshots' = StoreOf(Now')
<1>1. SlotStates = Abstract /\ SlotStates' = Abstract'
  BY DEF SlotStates, SlotState, Abstract
<1>2. StoredSnapshots = StoreOf(Now) /\ StoredSnapshots' = StoreOf(Now')
  BY MappedStore DEF StoredSnapshots
<1> QED
  BY <1>1, <1>2

\* The sequences of RecurrentStates, so mapped, are those of SequenceStates under
\* the slots.
LEMMA SameSequences ==
  /\ \A batch : States!Seq!Start(batch) <=> SeqStates!Start(batch)
  /\ \A b, batch, val : States!Seq!Write(b, batch, val) <=> SeqStates!Write(b, batch, val)
  /\ \A s, snap, n : States!Seq!Load(s, snap, n) <=> SeqStates!Load(s, snap, n)
  /\ \A s : States!Seq!Finish(s) <=> SeqStates!Finish(s)
  /\ States!Seq!Clear <=> SeqStates!Clear
  /\ \A n : States!Seq!ClearStopsAfter(n) <=> SeqStates!ClearStopsAfter(n)
  /\ States!Seq!Running = SeqStates!Running
  /\ States!Seq!SeqState = [Buffers -> Contents]
<1> USE DEF SlotStates, SlotState
<1>1. States!Seq!Running = SeqStates!Running
  BY DEF States!Seq!Running, SeqStates!Running
<1>2. States!Seq!SeqState = [Buffers -> Contents]
  BY DEF States!Seq!SeqState, States!Seq!Contents, Contents
<1>3. \A batch : States!Seq!Start(batch) <=> SeqStates!Start(batch)
  BY <1>1 DEF States!Seq!Start, SeqStates!Start, States!Seq!ZeroState, SeqStates!ZeroState
<1>4. \A b, batch, val : States!Seq!Write(b, batch, val) <=> SeqStates!Write(b, batch, val)
  BY <1>1 DEF States!Seq!Write, SeqStates!Write
<1>5. \A s, snap, n : States!Seq!Load(s, snap, n) <=> SeqStates!Load(s, snap, n)
  BY <1>1 DEF States!Seq!Load, SeqStates!Load
<1>6. \A s : States!Seq!Finish(s) <=> SeqStates!Finish(s)
  BY <1>1 DEF States!Seq!Finish, SeqStates!Finish
<1>7. States!Seq!Clear <=> SeqStates!Clear
  BY DEF States!Seq!Clear, SeqStates!Clear
<1>8. \A n : States!Seq!ClearStopsAfter(n) <=> SeqStates!ClearStopsAfter(n)
  BY <1>1 DEF States!Seq!ClearStopsAfter, SeqStates!ClearStopsAfter
<1> QED
  BY <1>1, <1>2, <1>3, <1>4, <1>5, <1>6, <1>7, <1>8

\* A step that keeps what it does not change loses, at worst.
LEMMA LosesNothingElse ==
  ASSUME PrefixInv', NEW changed, Keeps(Now, Now', changed)
  PROVE  States!OnlyLosesOutside(changed)
<1>1. Store!OnlyLosesOutside(changed)
  BY LosesOutside
<1>2. /\ StoreOf(Now') \in [Hashes -> Snapshots \cup {None}]
      /\ \A h \in Hashes \ changed : StoreOf(Now')[h] \in {StoreOf(Now)[h], None}
  BY <1>1, MappedStore DEF Store!OnlyLosesOutside
<1>3. States!Seq!SeqState = Snapshots
  BY SameSequences, SnapshotsAssumption
<1> QED
  BY <1>2, <1>3, Mapped DEF States!OnlyLosesOutside, StoredSnapshots
-------------------------------------------------------------------------------
(* The steps of the cache.  Each keeps both inductive invariants and is a    *)
(* step of RecurrentStates.                                                  *)

CacheInv == Inv /\ PrefixInv

LEMMA SlotsStutter ==
  ASSUME Inv, UNCHANGED slotVars
  PROVE  Inv' /\ SlotStates' = SlotStates
<1>1. Abstract' = Abstract
  BY DEF slotVars, Abstract
<1> QED
  BY <1>1, NextInv, Mapped

LEMMA PrefixesStutter ==
  ASSUME PrefixInv, UNCHANGED prefixVars
  PROVE  PrefixInv' /\ Keeps(Now, Now', {}) /\ StoredSnapshots' = StoredSnapshots
<1>1. Now' = Now
  BY DEF prefixVars, Now
<1> QED
  BY <1>1, StutterInv, Mapped DEF Keeps

\* A step that changes no sequence and reports nothing is idle.
LEMMA StepIsIdle ==
  ASSUME PrefixInv', Keeps(Now, Now', {}),
         SlotStates' = SlotStates, reply' = <<"other">>
  PROVE  States!Next
<1>1. States!Idle
  BY LosesNothingElse DEF States!Idle, SlotStates
<1> QED
  BY <1>1 DEF States!Next

\* Allocation, free_slot, reserve_capacity, the writes of a forward pass and a
\* reset_all that fails.
LEMMA SlotStepSimulates ==
  ASSUME CacheInv, SlotStep
  PROVE  CacheInv' /\ States!Next
<1> USE DEF CacheInv
<1>1. /\ PrefixInv' /\ Keeps(Now, Now', {}) /\ StoredSnapshots' = StoredSnapshots
      /\ reply' = <<"other">>
  BY PrefixesStutter DEF SlotStep
<1> DEFINE Sequences == \/ \E batch \in SUBSET Seqs : SeqStates!Start(batch)
                        \/ \E b \in Buffers, batch \in SUBSET Seqs :
                             \E val \in [batch -> Values] : SeqStates!Write(b, batch, val)
                        \/ \E s \in Seqs : SeqStates!Finish(s)
                        \/ \E n \in Buffers : SeqStates!ClearStopsAfter(n)
<1>2. ASSUME NEW missing \in Orders(Seqs), EnsureSlotsForSequences(missing)
      PROVE  Inv' /\ Sequences
  <2>1. IsMissing(missing) /\ Grant(missing)
    BY <1>2, OrdersAreMissing DEF EnsureSlotsForSequences
  <2> QED
    BY <2>1, GrantKeepsInv, GrantStarts
<1>3. ASSUME NEW s \in Seqs, FreeSlot(s)
      PROVE  Inv' /\ Sequences
  BY <1>3, FreeSlotKeepsInv, FreeSlotFinishes
<1>4. ASSUME NEW s \in Seqs, NEW n \in 0..(2 * Layers - 1), FreeSlotResetFails(s, n)
      PROVE  Inv' /\ Sequences
  BY <1>4, FreeSlotResetFailsKeepsInv, FreeSlotFinishes
<1>5. ASSUME NEW newMax \in 1..MaxSlots, ReserveCapacity(newMax)
      PROVE  Inv' /\ Abstract' = Abstract
  <2>1. 2 * Layers \in 1..(2 * Layers)
    BY Constants
  <2> QED
    BY <1>5, <2>1, ReserveCapacityKeepsInv, ExpandedIsInvisible DEF ReserveCapacity
<1>6. ASSUME NEW newMax \in 1..MaxSlots, NEW n \in 1..(2 * Layers - 1),
             ReserveCapacityFails(newMax, n)
      PROVE  Inv' /\ Abstract' = Abstract
  <2>1. n \in 1..(2 * Layers)
    BY Constants
  <2> QED
    BY <1>6, <2>1, ReserveCapacityFailsKeepsInv, ExpandedIsInvisible DEF ReserveCapacityFails
<1>7. ASSUME NEW b \in Buffers, NEW batch \in SUBSET Seqs,
             NEW val \in [batch -> Values], SetBatchState(b, batch, val)
      PROVE  Inv' /\ Sequences
  BY <1>7, SetBatchStateKeepsInv, SetBatchStateWrites
<1>8. ASSUME NEW n \in 1..(2 * Layers - 1), ResetAllFails(n)
      PROVE  Inv' /\ Sequences
  <2>1. n \in Buffers
    BY Constants DEF Buffers
  <2> QED
    BY <1>8, <2>1, ResetAllFailsKeepsInv, ResetAllFailsClears
<1> HIDE DEF Sequences
<1>9. Inv' /\ (Sequences \/ Abstract' = Abstract)
  BY <1>2, <1>3, <1>4, <1>5, <1>6, <1>7, <1>8 DEF SlotStep
<1>10. CASE Sequences
  <2>1. States!SequenceStep
    BY <1>1, <1>10, SameSequences DEF Sequences, States!SequenceStep, StoredSnapshots
  <2> QED
    BY <1>1, <1>9, <2>1 DEF States!Next
<1>11. CASE Abstract' = Abstract
  BY <1>1, <1>9, <1>11, StepIsIdle, Mapped
<1> QED
  BY <1>9, <1>10, <1>11

\* remove_prefix_state and set_prefix_cache_capacity lose snapshots at worst.
LEMMA PrefixStepSimulates ==
  ASSUME CacheInv, PrefixStep
  PROVE  CacheInv' /\ States!Next
<1> USE DEF CacheInv
<1>1. Inv' /\ SlotStates' = SlotStates /\ reply' = <<"other">>
  BY SlotsStutter DEF PrefixStep
<1>2. ASSUME NEW h \in Hashes, RemovePrefixState(h)
      PROVE  PrefixInv' /\ Keeps(Now, Now', {})
  BY <1>2, RemovePrefixStateStep
<1>3. ASSUME NEW capacity \in Capacities, NEW fails, SetPrefixCacheCapacity(capacity, fails)
      PROVE  PrefixInv' /\ Keeps(Now, Now', {})
  BY <1>3, SetPrefixCacheCapacityStep
<1>4. PrefixInv' /\ Keeps(Now, Now', {})
  BY <1>2, <1>3 DEF PrefixStep
<1> QED
  BY <1>1, <1>4, StepIsIdle

\* reset_all ends all sequences and drops all snapshots.
LEMMA ResetAllSimulates ==
  ASSUME CacheInv, ResetCache
  PROVE  CacheInv' /\ States!Next
<1> USE DEF CacheInv
<1>1. ResetAll /\ ResetPrefixes /\ reply' = <<"other">>
  BY DEF ResetCache
<1>2. Inv' /\ States!Seq!Clear
  BY <1>1, ResetAllKeepsInv, ResetAllClears, SameSequences
<1>3. PrefixInv'
  <2>1. Maintain
    BY <1>1 DEF Maintain
  <2> QED
    BY <2>1, MaintainStep
<1>4. StoredSnapshots' = [h \in Hashes |-> None]
  <2>1. device' = EmptyTier /\ cpu' = EmptyTier
    BY <1>1 DEF ResetPrefixes, Becomes
  <2>2. Stored(device)' = {} /\ Stored(cpu)' = {}
    BY <2>1, EmptyTierOK DEF Stored
  <2> QED
    BY <2>2 DEF StoredSnapshots, Stored
<1>5. States!Clear
  BY <1>1, <1>2, <1>4 DEF States!Clear, StoredSnapshots
<1> QED
  BY <1>2, <1>3, <1>5 DEF States!Next

\* capture_prefix_state that succeeds stores what the sequence's slot holds.
LEMMA CaptureSimulates ==
  ASSUME CacheInv, NEW s \in Seqs, NEW h \in Hashes,
         NEW preserve \in BOOLEAN, NEW fails, CaptureSlot(s, h, preserve, fails)
  PROVE  CacheInv' /\ States!Next
<1> USE DEF CacheInv
<1>1. /\ s \in Live
      /\ CapturePrefixState(h, SlotState(s), preserve, fails)
      /\ reply' = <<"captured", s, h>>
      /\ UNCHANGED slotVars
  BY DEF CaptureSlot
<1>2. SlotState(s) = SlotStates[s]
  BY <1>1 DEF SlotState, SlotStates, Live
<1>3. SlotState(s) \in Snapshots
  <2>1. /\ mem \in [Buffers -> [Slots -> Contents]] /\ slotOf[s] \in Slots
    BY <1>1, RunningIsLive DEF Inv, TypeOK
  <2> QED
    BY <2>1, SnapshotsAssumption DEF SlotState
<1>4. PrefixInv' /\ Keeps(Now, Now', {h}) /\ Found(Now', h) = SlotState(s)
  BY <1>1, <1>3, CaptureStep
<1>5. Inv' /\ SlotStates' = SlotStates
  BY <1>1, SlotsStutter
<1>6. StoredSnapshots'[h] = SlotStates[s]
  BY <1>2, <1>4, Mapped DEF StoreOf
<1>7. s \in States!Seq!Running
  BY <1>1, RunningIsLive, SameSequences
<1>8. States!OnlyLosesOutside({h})
  BY <1>4, LosesNothingElse
<1>9. States!Capture(s, h)
  BY <1>1, <1>5, <1>6, <1>7, <1>8 DEF States!Capture, SlotStates, StoredSnapshots
<1> QED
  BY <1>4, <1>5, <1>9 DEF States!Next

\* One whose gathering fails stores nothing.
LEMMA CaptureFailsSimulates ==
  ASSUME CacheInv, NEW s \in Seqs, NEW h \in Hashes, NEW fails,
         CaptureSlotFails(s, h, fails)
  PROVE  CacheInv' /\ States!Next
<1> USE DEF CacheInv
<1>1. CaptureFails(h, fails) /\ reply' = <<"other">> /\ UNCHANGED slotVars
  BY DEF CaptureSlotFails
<1>2. PrefixInv' /\ Keeps(Now, Now', {})
  BY <1>1, CaptureFailsStep
<1> QED
  BY <1>1, <1>2, SlotsStutter, StepIsIdle

\* A snapshot that is stored and stays stored is copied to the slot of s, up to
\* buffer n: all of it when the call reports success.
LEMMA RestoreSimulates ==
  ASSUME CacheInv, NEW s \in Seqs, NEW h \in Hashes,
         NEW n \in 1..(2 * Layers), Found(Now, h) \in Snapshots,
         WriteSlot(s, Found(Now, h), n),
         PrefixInv', Keeps(Now, Now', {}), Found(Now', h) = Found(Now, h),
         \/ n = 2 * Layers /\ reply' = <<"restored", s, h>>
         \/ n # 2 * Layers /\ reply' = <<"other">>
  PROVE  CacheInv' /\ States!Next
<1> USE DEF CacheInv
<1>1. n \in Nat /\ n \in Buffers
  BY Constants DEF Buffers
<1>2. PICK snap \in Snapshots : snap = Found(Now, h)
  OBVIOUS
<1>3. Inv' /\ States!Seq!Load(s, snap, n)
  <2>1. snap \in [Buffers -> Contents] /\ WriteSlot(s, snap, n)
    BY <1>2, SnapshotsAssumption
  <2>2. Inv' /\ SeqStates!Load(s, snap, n)
    BY <1>1, <2>1, WriteSlotLoads
  <2> QED
    BY <2>2, SameSequences
<1>4. StoredSnapshots[h] = snap /\ StoredSnapshots'[h] = snap /\ snap # None
  BY <1>2, Mapped, NoneAssumption DEF StoreOf
<1>5. States!OnlyLosesOutside({})
  BY LosesNothingElse
<1>6. States!Seq!Load(s, StoredSnapshots[h], n)
  BY <1>3, <1>4 DEF States!Seq!Load
<1>7. CASE n = 2 * Layers /\ reply' = <<"restored", s, h>>
  <2>1. n \in Buffers /\ n + 1 \notin Buffers
    BY <1>1, <1>7, Constants DEF Buffers
  <2>2. States!Restore(s, h)
    BY <1>4, <1>5, <1>6, <1>7, <2>1, Zenon DEF States!Restore, StoredSnapshots
  <2> QED
    BY <1>3, <2>2 DEF States!Next
<1>8. CASE n # 2 * Layers /\ reply' = <<"other">>
  <2>1. n \in Buffers /\ n + 1 \in Buffers
    BY <1>1, <1>8, Constants DEF Buffers
  <2>2. States!RestoreStopsAfter(s, h, n)
    BY <1>4, <1>5, <1>6, <1>8, <2>1, Zenon DEF States!RestoreStopsAfter, StoredSnapshots
  <2> QED
    BY <1>3, <2>1, <2>2 DEF States!Next
<1> QED
  BY <1>7, <1>8

\* restore_prefix_state of a snapshot on the device ...
LEMMA RestoreFromDeviceSimulates ==
  ASSUME CacheInv, NEW s \in Seqs, NEW h \in Hashes,
         \/ RestoreSlotFromDevice(s, h)
         \/ \E n \in 1..(2 * Layers - 1) : RestoreSlotFromDeviceFails(s, h, n)
  PROVE  CacheInv' /\ States!Next
<1>1. ASSUME h \in Stored(device)
      PROVE  Found(Now, h) = device.snaps[h] /\ Found(Now, h) \in Snapshots
  BY <1>1, InvFacts DEF CacheInv, Found
<1>2. CASE RestoreSlotFromDevice(s, h)
  <2>1. /\ RestoreFromDevice(h) /\ h \in Stored(device)
        /\ WriteSlot(s, device.snaps[h], 2 * Layers)
        /\ reply' = <<"restored", s, h>>
    BY <1>2 DEF RestoreSlotFromDevice, RestoreFromDevice
  <2>2. PrefixInv' /\ Keeps(Now, Now', {}) /\ Found(Now', h) = Found(Now, h)
    BY <2>1, RestoreFromDeviceStep DEF CacheInv
  <2>3. 2 * Layers \in 1..(2 * Layers)
    BY Constants
  <2> QED
    BY <1>1, <2>1, <2>2, <2>3, RestoreSimulates
<1>3. ASSUME NEW n \in 1..(2 * Layers - 1), RestoreSlotFromDeviceFails(s, h, n)
      PROVE  CacheInv' /\ States!Next
  <2>1. /\ h \in Stored(device) /\ WriteSlot(s, device.snaps[h], n)
        /\ reply' = <<"other">> /\ UNCHANGED prefixVars
    BY <1>3 DEF RestoreSlotFromDeviceFails
  <2>2. PrefixInv' /\ Keeps(Now, Now', {})
    BY <2>1, PrefixesStutter DEF CacheInv
  <2>3. Found(Now', h) = Found(Now, h)
    <3>1. Now' = Now
      BY <2>1 DEF prefixVars, Now
    <3> QED
      BY <3>1
  <2>4. n \in 1..(2 * Layers) /\ n # 2 * Layers
    BY Constants
  <2> QED
    BY <1>1, <2>1, <2>2, <2>3, <2>4, RestoreSimulates
<1> QED
  BY <1>2, <1>3

\* ... and of one on the CPU, which is promoted first: nothing of it may reach the
\* slot, part of it, or all.
LEMMA RestoreFromCpuSimulates ==
  ASSUME CacheInv, NEW s \in Seqs, NEW h \in Hashes, NEW fails,
         \/ \E n \in 0..(2 * Layers) : RestoreSlotFromCpu(s, h, n, fails)
         \/ RestoreWithoutSlot(s, h, fails)
  PROVE  CacheInv' /\ States!Next
<1>1. RestoreFromCpu(h, fails)
  BY DEF RestoreSlotFromCpu, RestoreWithoutSlot
<1>2. PrefixInv' /\ Keeps(Now, Now', {}) /\ Found(Now', h) = Found(Now, h)
  BY <1>1, RestoreFromCpuStep DEF CacheInv
<1>3. Found(Now, h) = cpu.snaps[h] /\ Found(Now, h) \in Snapshots
  <2>1. h \in Stored(cpu) \ Stored(device)
    BY <1>1 DEF RestoreFromCpu
  <2> QED
    BY <2>1, InvFacts DEF CacheInv, Found
<1>4. ASSUME NEW n \in 0..(2 * Layers), RestoreSlotFromCpu(s, h, n, fails)
      PROVE  CacheInv' /\ States!Next
  <2>1. /\ WriteSlot(s, Found(Now, h), n)
        /\ \/ n = 2 * Layers /\ reply' = <<"restored", s, h>>
           \/ n # 2 * Layers /\ reply' = <<"other">>
    BY <1>3, <1>4 DEF RestoreSlotFromCpu
  <2>2. CASE n = 0
    <3>1. /\ mem' = [b \in Buffers |-> IF b <= n THEN [mem[b] EXCEPT ![slotOf[s]] = Found(Now, h)[b]]
                                       ELSE mem[b]]
          /\ UNCHANGED <<rows, free, slotOf, maxBatch>>
      BY <2>1, Zenon DEF WriteSlot
    <3>2. \A b \in Buffers : ~(b <= n)
      BY <2>2, Constants DEF Buffers
    <3>3. mem \in [Buffers -> [Slots -> Contents]]
      BY DEF CacheInv, Inv, TypeOK
    <3>4. mem' = mem
      BY <3>1, <3>2, <3>3
    <3>5. UNCHANGED slotVars
      BY <3>1, <3>4 DEF slotVars
    <3>6. n # 2 * Layers
      BY <2>2, Constants
    <3> QED
      BY <1>2, <2>1, <3>5, <3>6, SlotsStutter, StepIsIdle DEF CacheInv
  <2>3. CASE n # 0
    <3>1. n \in 1..(2 * Layers)
      BY <2>3, Constants
    <3> QED
      BY <1>2, <1>3, <2>1, <3>1, RestoreSimulates
  <2> QED
    BY <2>2, <2>3
<1>5. CASE RestoreWithoutSlot(s, h, fails)
  <2>1. reply' = <<"other">> /\ UNCHANGED slotVars
    BY <1>5 DEF RestoreWithoutSlot
  <2> QED
    BY <1>2, <2>1, SlotsStutter, StepIsIdle DEF CacheInv
<1> QED
  BY <1>4, <1>5

\* A promotion that fails gives back what it has taken out of the CPU tier.
LEMMA PromotionFailsSimulates ==
  ASSUME CacheInv, NEW h \in Hashes, NEW fails,
         PromotionFails(h, fails)
  PROVE  CacheInv' /\ States!Next
<1> USE DEF CacheInv
<1>1. RestoreFromCpuFails(h, fails) /\ reply' = <<"other">> /\ UNCHANGED slotVars
  BY DEF PromotionFails
<1>2. PrefixInv' /\ Keeps(Now, Now', {})
  BY <1>1, RestoreFromCpuFailsStep
<1> QED
  BY <1>1, <1>2, SlotsStutter, StepIsIdle
-------------------------------------------------------------------------------
\* A step of MambaCache, for all its operations, or none.
LEMMA CacheStep ==
  ASSUME CacheInv, [CacheNext]_cacheVars
  PROVE  CacheInv' /\ [States!Next]_<<SlotStates, StoredSnapshots, reply>>
<1>1. CASE UNCHANGED cacheVars
  BY <1>1, SlotsStutter, PrefixesStutter DEF cacheVars, CacheInv
<1>2. CASE SlotStep \/ PrefixStep \/ ResetCache
  BY <1>2, SlotStepSimulates, PrefixStepSimulates, ResetAllSimulates
<1>3. ASSUME NEW h \in Hashes, NEW fails, NEW s \in Seqs,
             \/ \E preserve \in BOOLEAN : CaptureSlot(s, h, preserve, fails)
             \/ CaptureSlotFails(s, h, fails)
             \/ \E n \in 0..(2 * Layers) : RestoreSlotFromCpu(s, h, n, fails)
             \/ RestoreWithoutSlot(s, h, fails)
      PROVE  CacheInv' /\ States!Next
  BY <1>3, CaptureSimulates, CaptureFailsSimulates, RestoreFromCpuSimulates
<1>4. ASSUME NEW h \in Hashes, NEW fails, PromotionFails(h, fails)
      PROVE  CacheInv' /\ States!Next
  BY <1>4, PromotionFailsSimulates
<1>5. ASSUME NEW s \in Seqs, NEW h \in Hashes,
             \/ RestoreSlotFromDevice(s, h)
             \/ \E n \in 1..(2 * Layers - 1) : RestoreSlotFromDeviceFails(s, h, n)
      PROVE  CacheInv' /\ States!Next
  BY <1>5, RestoreFromDeviceSimulates
<1> QED
  BY <1>1, <1>2, <1>3, <1>4, <1>5 DEF CacheNext

\* A sequence whose restore reports success resumes from all of the state captured
\* last under the hash it asked for, and a capture or restore of one sequence never
\* shows in another, for any number of sequences, slots, layers and hashes, any
\* capacities, and whatever slots, tiers and failed copies did in between.
THEOREM CacheIsRecurrentStates ==
  CacheSpec => ImplementsRecurrentStates
<1>1. ASSUME CacheInit
      PROVE  CacheInv /\ States!Init
  <2>1. Init /\ PrefixInit /\ reply = <<"other">>
    BY <1>1 DEF CacheInit
  <2>2. SlotStates = [s \in Seqs |-> NoSlot]
    BY <2>1 DEF Init, SlotStates
  <2>3. StoredSnapshots = [h \in Hashes |-> None]
    <3>1. Stored(device) = {} /\ Stored(cpu) = {}
      BY <2>1, EmptyTierOK DEF PrefixInit
    <3> QED
      BY <3>1 DEF StoredSnapshots, Stored
  <2>4. States!Init
    BY <2>1, <2>2, <2>3 DEF States!Init, States!Seq!Init, SlotStates, StoredSnapshots
  <2> QED
    BY <2>1, <2>4, InitInv, PrefixInitInv DEF CacheInv
<1>2. ASSUME CacheInv, [CacheNext]_cacheVars
      PROVE  CacheInv' /\ [States!Next]_<<SlotStates, StoredSnapshots, reply>>
  BY <1>2, CacheStep
<1> QED
  BY <1>1, <1>2, PTL DEF CacheSpec, ImplementsRecurrentStates, States!Spec,
                         SlotStates, StoredSnapshots
===============================================================================
