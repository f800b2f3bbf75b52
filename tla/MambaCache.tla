------------------------------ MODULE MambaCache ------------------------------
(***************************************************************************)
(* MambaCache: the slots of the running sequences (MambaSlots) and the     *)
(* prefix snapshots (PrefixCache) in one object.  capture_prefix_state     *)
(* copies a sequence's slot into a snapshot and restore_prefix_state       *)
(* copies a snapshot into its slot, one buffer after the other.            *)
(***************************************************************************)
EXTENDS MambaSlots, PrefixCache

\* A snapshot holds the content of every buffer.
ASSUME SnapshotsAssumption == Snapshots = [Buffers -> Contents]

VARIABLE reply  \* the Ok(true) of the last capture or restore, or <<"other">>

cacheVars == <<slotVars, prefixVars, reply>>

CacheInit == Init /\ PrefixInit /\ reply = <<"other">>

SlotState(s) == [b \in Buffers |-> mem[b][slotOf[s]]]

\* Mutant of WriteSlot: the recurrent tensor of the last layer is left out.
WriteSlotShort(s, snap, n) ==
  /\ s \in Live
  /\ mem' = [b \in Buffers |-> IF b < n THEN [mem[b] EXCEPT ![slotOf[s]] = snap[b]]
                               ELSE mem[b]]
  /\ UNCHANGED <<rows, free, slotOf, maxBatch>>

\* The first n buffers of a snapshot are written to the slot of s.
WriteSlot(s, snap, n) ==
  /\ s \in Live
  /\ mem' = [b \in Buffers |-> IF b <= n THEN [mem[b] EXCEPT ![slotOf[s]] = snap[b]]
                               ELSE mem[b]]
  /\ UNCHANGED <<rows, free, slotOf, maxBatch>>

CaptureSlot(s, h, preserve, fails) ==
  /\ s \in Live
  /\ CapturePrefixState(h, SlotState(s), preserve, fails)
  /\ reply' = <<"captured", s, h>>
  /\ UNCHANGED slotVars

CaptureSlotFails(s, h, fails) ==
  /\ s \in Live
  /\ CaptureFails(h, fails)
  /\ reply' = <<"other">>
  /\ UNCHANGED slotVars

RestoreSlotFromDevice(s, h) ==
  /\ RestoreFromDevice(h)
  /\ WriteSlot(s, device.snaps[h], 2 * Layers)
  /\ reply' = <<"restored", s, h>>

\* Writing the next buffer fails: the slot keeps the first n of the snapshot
\* and the hash is not touched.
RestoreSlotFromDeviceFails(s, h, n) ==
  /\ cap > 0
  /\ h \in Stored(device)
  /\ WriteSlot(s, device.snaps[h], n)
  /\ reply' = <<"other">>
  /\ UNCHANGED prefixVars

\* The promotion to the device makes h the most recent, so the last touch adds
\* nothing and a write that fails after n < 2 * Layers buffers lacks nothing.
RestoreSlotFromCpu(s, h, n, fails) ==
  /\ RestoreFromCpu(h, fails)
  /\ WriteSlot(s, cpu.snaps[h], n)
  /\ reply' = IF n = 2 * Layers THEN <<"restored", s, h>> ELSE <<"other">>

\* The slot is looked up after the promotion: without one h only moves.
RestoreWithoutSlot(s, h, fails) ==
  /\ s \notin Live
  /\ RestoreFromCpu(h, fails)
  /\ reply' = <<"other">>
  /\ UNCHANGED slotVars

PromotionFails(h, fails) ==
  /\ RestoreFromCpuFails(h, fails)
  /\ reply' = <<"other">>
  /\ UNCHANGED slotVars

ResetCache == ResetAll /\ ResetPrefixes /\ reply' = <<"other">>

\* allocate_slot is the call for a batch of one.
SlotStep ==
  /\ \/ \E missing \in Orders(Seqs) : EnsureSlotsForSequences(missing)
     \/ \E s \in Seqs : FreeSlot(s)
     \/ \E s \in Seqs, n \in 0..(2 * Layers - 1) : FreeSlotResetFails(s, n)
     \/ \E newMax \in 1..MaxSlots : ReserveCapacity(newMax)
     \/ \E newMax \in 1..MaxSlots, n \in 1..(2 * Layers - 1) :
          ReserveCapacityFails(newMax, n)
     \/ \E b \in Buffers, batch \in SUBSET Seqs :
          \E val \in [batch -> Values] : SetBatchState(b, batch, val)
     \/ \E n \in 1..(2 * Layers - 1) : ResetAllFails(n)
  /\ reply' = <<"other">>
  /\ UNCHANGED prefixVars

PrefixStep ==
  /\ \/ \E h \in Hashes : RemovePrefixState(h)
     \/ \E capacity \in Capacities, fails \in SUBSET Stored(device) :
          SetPrefixCacheCapacity(capacity, fails)
  /\ reply' = <<"other">>
  /\ UNCHANGED slotVars

CacheNext ==
  \/ SlotStep
  \/ PrefixStep
  \/ ResetCache
  \/ \E h \in Hashes, fails \in SUBSET Stored(device) :
       \/ \E s \in Seqs, preserve \in BOOLEAN : CaptureSlot(s, h, preserve, fails)
       \/ \E s \in Seqs : CaptureSlotFails(s, h, fails)
       \/ \E s \in Seqs, n \in 0..(2 * Layers) : RestoreSlotFromCpu(s, h, n, fails)
       \/ \E s \in Seqs : RestoreWithoutSlot(s, h, fails)
       \/ PromotionFails(h, fails)
  \/ \E s \in Seqs, h \in Hashes : RestoreSlotFromDevice(s, h)
  \/ \E s \in Seqs, h \in Hashes, n \in 1..(2 * Layers - 1) :
       RestoreSlotFromDeviceFails(s, h, n)

CacheSpec == CacheInit /\ [][CacheNext]_cacheVars
-------------------------------------------------------------------------------
\* What a sequence's state and a hash's snapshot are in terms of slots and tiers.
SlotStates == [s \in Seqs |-> IF slotOf[s] = NoSlot THEN NoSlot ELSE SlotState(s)]
StoredSnapshots ==
  [h \in Hashes |-> IF h \in Stored(device) THEN device.snaps[h]
                    ELSE IF h \in Stored(cpu) THEN cpu.snaps[h]
                    ELSE None]
States == INSTANCE RecurrentStates WITH
            Absent <- NoSlot, state <- SlotStates, store <- StoredSnapshots

\* The refinement: a sequence whose restore reports success resumes from the
\* exact state captured last under the hash it asked for, whatever slots, tiers
\* and failures did in between.
ImplementsRecurrentStates == States!Spec
===============================================================================
