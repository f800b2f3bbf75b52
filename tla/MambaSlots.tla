------------------------------ MODULE MambaSlots ------------------------------
(***************************************************************************)
(* The slot half of MambaCache: the free list, the sequence -> slot map,   *)
(* the rows of every layer's conv and recurrent tensor, and what the       *)
(* operations do when zeroing or growing a tensor fails half-way.          *)
(*                                                                         *)
(* Every loop over the layers visits the conv tensor and then the          *)
(* recurrent tensor of a layer, so the tensors are numbered in that order: *)
(* buffer 2i-1 is conv_states[i-1] and buffer 2i is recurrent_states[i-1]. *)
(* A loop that fails has handled a prefix of the buffers.                  *)
(***************************************************************************)
EXTENDS Naturals, Sequences, FiniteSets

CONSTANTS Seqs,       \* sequence identifiers the engine uses
          Layers,     \* num_gdn_layers
          InitBatch,  \* max_batch_size given to MambaCache::new
          MaxSlots,   \* bound: the largest capacity reserve_capacity is asked for
          Values,     \* row contents a forward pass can write
          Zero,       \* the content of a zeroed row
          NoSlot      \* the sequence has no entry in seq_to_slot

ASSUME LayersAssumption == Layers \in Nat \ {0}
ASSUME BatchAssumption ==
  /\ InitBatch \in Nat \ {0}
  /\ MaxSlots \in Nat
  /\ InitBatch <= MaxSlots
ASSUME ContentAssumption == Zero \notin Values
ASSUME NoSlotAssumption == NoSlot \notin Nat

VARIABLES mem,       \* buffer -> slot -> content of the row
          rows,      \* buffer -> number of rows it has
          free,      \* free_slots, a stack whose top is the last element
          slotOf,    \* seq_to_slot
          maxBatch   \* max_batch_size

slotVars == <<mem, rows, free, slotOf, maxBatch>>

Buffers == 1..(2 * Layers)
Slots == 0..(MaxSlots - 1)
Contents == Values \cup {Zero}

ASSUME NoStateAssumption == NoSlot \notin [Buffers -> Contents]

Live == {s \in Seqs : slotOf[s] # NoSlot}
Used == {slotOf[s] : s \in Live}
Free == {free[i] : i \in DOMAIN free}
Leaked == (0..(maxBatch - 1)) \ (Free \cup Used)

\* Mutant of DownTo: the range lo..=hi, one slot too many.
DownToInclusive(lo, hi) == [i \in 1..(hi - lo + 1) |-> hi + 1 - i]

\* (lo..hi).rev(), as pushed on the free list: lo ends on the top of the stack.
DownTo(lo, hi) == [i \in 1..(hi - lo) |-> hi - i]

\* The memory after the first n buffers of reset_slot_states(slot).
ZeroRow(m, slot, n) ==
  [b \in Buffers |-> IF b <= n THEN [m[b] EXCEPT ![slot] = Zero] ELSE m[b]]

TypeOK ==
  /\ mem \in [Buffers -> [Slots -> Contents]]
  /\ rows \in [Buffers -> InitBatch..MaxSlots]
  /\ free \in Seq(Slots)
  /\ slotOf \in [Seqs -> Slots \cup {NoSlot}]
  /\ maxBatch \in InitBatch..MaxSlots

Init ==
  /\ mem = [b \in Buffers |-> [x \in Slots |-> Zero]]
  /\ rows = [b \in Buffers |-> InitBatch]
  /\ free = DownTo(0, InitBatch)
  /\ slotOf = [s \in Seqs |-> NoSlot]
  /\ maxBatch = InitBatch
-------------------------------------------------------------------------------
(* Allocation.  "missing" lists, in the caller's order and without           *)
(* repetition, the sequences of the call that have no slot yet (the others   *)
(* are skipped or returned as they are).  The first "done" of them get the   *)
(* slots on top of the stack.                                                *)

TopSlot(i) == free[Len(free) + 1 - i]

Granted(missing, done) ==
  /\ done <= Len(free)
  /\ slotOf' = [s \in Seqs |->
                  IF \E i \in 1..done : missing[i] = s
                  THEN TopSlot(CHOOSE i \in 1..done : missing[i] = s)
                  ELSE slotOf[s]]
  /\ free' = SubSeq(free, 1, Len(free) - done)
  /\ UNCHANGED <<rows, maxBatch>>

\* The rows of the granted slots, zeroed before they are handed out.
GrantedRows(done) ==
  [b \in Buffers |->
     [x \in Slots |-> IF \E i \in 1..done : TopSlot(i) = x THEN Zero ELSE mem[b][x]]]

\* Every missing sequence gets a zeroed slot.
GrantAll(missing) ==
  /\ Granted(missing, Len(missing))
  /\ mem' = GrantedRows(Len(missing))

\* The stack runs empty before the last one: the call fails, what it has
\* granted so far stays granted.
GrantUntilEmpty(missing) ==
  /\ Len(free) < Len(missing)
  /\ Granted(missing, Len(free))
  /\ mem' = GrantedRows(Len(free))

\* Zeroing the next slot fails after n buffers: the slot goes back on the
\* stack, what was granted before it stays granted.
GrantUntilResetFails(missing, done, n) ==
  /\ done < Len(missing)
  /\ done < Len(free)
  /\ Granted(missing, done)
  /\ mem' = ZeroRow(GrantedRows(done), TopSlot(done + 1), n)

Grant(missing) ==
  \/ GrantAll(missing)
  \/ GrantUntilEmpty(missing)
  \/ \E done \in 0..(Len(missing) - 1), n \in 0..(2 * Layers - 1) :
       GrantUntilResetFails(missing, done, n)

AllocateSlot(s) == s \notin Live /\ Grant(<<s>>)

EnsureSlotsForSequences(missing) ==
  /\ \A i \in DOMAIN missing : missing[i] \notin Live
  /\ Grant(missing)
-------------------------------------------------------------------------------
(* A sequence ends.                                                          *)

FreeSlot(s) ==
  /\ s \in Live
  /\ mem' = ZeroRow(mem, slotOf[s], 2 * Layers)
  /\ slotOf' = [slotOf EXCEPT ![s] = NoSlot]
  /\ free' = Append(free, slotOf[s])
  /\ UNCHANGED <<rows, maxBatch>>

\* Mutant of FreeSlotResetFails: no early return, the dirty slot is pushed.
FreeSlotResetFailsPushed(s, n) ==
  /\ s \in Live
  /\ mem' = ZeroRow(mem, slotOf[s], n)
  /\ slotOf' = [slotOf EXCEPT ![s] = NoSlot]
  /\ free' = Append(free, slotOf[s])
  /\ UNCHANGED <<rows, maxBatch>>

\* Zeroing fails after n buffers: the slot is kept out of the free list.
FreeSlotResetFails(s, n) ==
  /\ s \in Live
  /\ mem' = ZeroRow(mem, slotOf[s], n)
  /\ slotOf' = [slotOf EXCEPT ![s] = NoSlot]
  /\ UNCHANGED <<rows, free, maxBatch>>
-------------------------------------------------------------------------------
(* expand_capacity.  A buffer is replaced by a zeroed one of newMax rows and *)
(* its old rows are copied with slice_assign, which takes a source of        *)
(* exactly maxBatch rows.                                                    *)

\* Mutant of CopyFits: a copy that takes the first maxBatch rows of a larger buffer.
CopyFitsLarger(b) == rows[b] >= maxBatch

CopyFits(b) == rows[b] = maxBatch

\* Mutant of Expanded: the old rows are not copied into the new buffers.
ExpandedWithoutCopy(newMax, n) ==
  /\ newMax > maxBatch
  /\ \A b \in 1..n : CopyFits(b)
  /\ rows' = [b \in Buffers |-> IF b <= n THEN newMax ELSE rows[b]]
  /\ mem' = [b \in Buffers |-> IF b <= n THEN [x \in Slots |-> Zero] ELSE mem[b]]
  /\ UNCHANGED slotOf

\* The first n buffers are replaced.
Expanded(newMax, n) ==
  /\ newMax > maxBatch
  /\ \A b \in 1..n : CopyFits(b)
  /\ rows' = [b \in Buffers |-> IF b <= n THEN newMax ELSE rows[b]]
  /\ mem' = [b \in Buffers |->
               IF b <= n
               THEN [x \in Slots |-> IF x < maxBatch THEN mem[b][x] ELSE Zero]
               ELSE mem[b]]
  /\ UNCHANGED slotOf

\* Mutants of ReserveCapacity: the new slots start at 0 instead of the old
\* capacity; the free list is rebuilt from all slots without an owner.
ReserveCapacityFromZero(newMax) ==
  /\ Expanded(newMax, 2 * Layers)
  /\ free' = free \o DownTo(0, newMax)
  /\ maxBatch' = newMax

ReserveCapacityRebuildingFree(newMax) ==
  /\ Expanded(newMax, 2 * Layers)
  /\ free' = SelectSeq(DownTo(0, newMax), LAMBDA x : x \notin Used)
  /\ maxBatch' = newMax

ReserveCapacity(newMax) ==
  /\ Expanded(newMax, 2 * Layers)
  /\ free' = free \o DownTo(maxBatch, newMax)
  /\ maxBatch' = newMax

\* Mutant of ReserveCapacityFails: slots and capacity grow before the buffers.
ReserveCapacityFailsAfterSlots(newMax, n) ==
  /\ Expanded(newMax, n)
  /\ free' = free \o DownTo(maxBatch, newMax)
  /\ maxBatch' = newMax

\* Allocating or copying the next buffer fails: the first n stay replaced.
ReserveCapacityFails(newMax, n) ==
  /\ Expanded(newMax, n)
  /\ UNCHANGED <<free, maxBatch>>
-------------------------------------------------------------------------------
(* A forward pass stores one buffer's new rows for the sequences of a batch  *)
(* through their slots.  A store that fails half-way on the CPU path has     *)
(* stored a smaller batch.                                                   *)

SetBatchState(b, batch, val) ==
  /\ batch \subseteq Live
  /\ mem' = [mem EXCEPT ![b] =
               [x \in Slots |-> IF \E s \in batch : slotOf[s] = x
                                THEN val[CHOOSE s \in batch : slotOf[s] = x]
                                ELSE mem[b][x]]]
  /\ UNCHANGED <<rows, free, slotOf, maxBatch>>

\* reset_all, with the slots given back and every sequence forgotten ...
ResetAll ==
  /\ mem' = [b \in Buffers |-> [x \in Slots |-> Zero]]
  /\ slotOf' = [s \in Seqs |-> NoSlot]
  /\ free' = DownTo(0, maxBatch)
  /\ UNCHANGED <<rows, maxBatch>>

\* ... and when zeroing a buffer fails: only the n buffers before it changed.
ResetAllFails(n) ==
  /\ mem' = [b \in Buffers |-> IF b <= n THEN [x \in Slots |-> Zero] ELSE mem[b]]
  /\ UNCHANGED <<rows, free, slotOf, maxBatch>>
-------------------------------------------------------------------------------
\* The missing sequences a call can name, in any order and without repetition.
Orders(S) == UNION {{f \in [1..k -> S] : \A i, j \in 1..k : f[i] = f[j] => i = j}
                    : k \in 1..Cardinality(S)}

Next ==
  \/ \E s \in Seqs : AllocateSlot(s)
  \/ \E missing \in Orders(Seqs) : EnsureSlotsForSequences(missing)
  \/ \E s \in Seqs : FreeSlot(s)
  \/ \E s \in Seqs, n \in 0..(2 * Layers - 1) : FreeSlotResetFails(s, n)
  \/ \E newMax \in 1..MaxSlots : ReserveCapacity(newMax)
  \/ \E newMax \in 1..MaxSlots, n \in 1..(2 * Layers - 1) :
       ReserveCapacityFails(newMax, n)
  \/ \E b \in Buffers, batch \in SUBSET Seqs :
       \E val \in [batch -> Values] : SetBatchState(b, batch, val)
  \/ ResetAll
  \/ \E n \in 1..(2 * Layers - 1) : ResetAllFails(n)

Spec == Init /\ [][Next]_slotVars
-------------------------------------------------------------------------------
(* Properties.                                                               *)

\* No slot is owned twice: two running sequences never share a slot, a slot on
\* the free list belongs to no sequence and is listed once (allocate_slot,
\* free_slot, expand_capacity and reset_all all edit both structures).
SlotsExclusive ==
  /\ \A s, t \in Live : slotOf[s] = slotOf[t] => s = t
  /\ \A i, j \in DOMAIN free : free[i] = free[j] => i = j
  /\ Free \cap Used = {}

\* A slot on the free list is zero in every buffer, so reuse can never carry
\* stale state, whatever zeroing failed before (free_slot keeps a slot whose
\* reset failed out of the list).
FreeSlotsZero == \A x \in Free, b \in Buffers : mem[b][x] = Zero

\* Every slot that is handed out or can be handed out is a row of every buffer,
\* also after a reserve_capacity that failed between two layers.
SlotsInsideBuffers ==
  \A x \in Free \cup Used : x < maxBatch /\ \A b \in Buffers : x < rows[b]

\* A slot lost by a failed reset in free_slot is in no list until reset_all
\* succeeds: no allocation and no growth brings it back.
LeakedUntilResetAll ==
  [][\A x \in Leaked : x \in Leaked' \/ (Live' = {} /\ Free' = 0..(maxBatch - 1))]_slotVars

\* After a growth that failed between two buffers the cache never grows again: no
\* later attempt gets past the buffer that has grown already, not even to the
\* same size.
PartialGrowthIsFinal ==
  [][(\E b \in Buffers : rows[b] # maxBatch) => UNCHANGED <<rows, maxBatch>>]_slotVars

\* The refinement: through the slots, each running sequence sees exactly the
\* private state of SequenceStates.
SeqStates == INSTANCE SequenceStates WITH
               Absent <- NoSlot,
               state <- [s \in Seqs |-> IF slotOf[s] = NoSlot THEN NoSlot
                                        ELSE [b \in Buffers |-> mem[b][slotOf[s]]]]
ImplementsSequenceStates == SeqStates!Spec
===============================================================================
