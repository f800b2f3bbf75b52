------------------------------ MODULE PrefixCache ------------------------------
(***************************************************************************)
(* The prefix half of MambaCache: snapshots of slot states kept under the  *)
(* hash of the prefix they belong to, in a device tier and, where the      *)
(* build can spill, a CPU tier.  Each tier evicts its ordinary snapshots   *)
(* before its preserved ones, the least recently used first; a snapshot    *)
(* evicted from the device is copied to the CPU tier, one restored from    *)
(* there is copied back.  Every copy can fail.                             *)
(*                                                                         *)
(* A tier is a record: snaps, its snapshots by hash (prefix_states,        *)
(* cpu_prefix_states); lru and plru, its queues of ordinary and preserved  *)
(* hashes, oldest first.                                                   *)
(***************************************************************************)
EXTENDS Naturals, Sequences, FiniteSets, SequencesExt

CONSTANTS Hashes,          \* prefix hashes
          Snapshots,       \* what a capture can gather from a slot
          Capacities,      \* bound: the capacities the engine sets
          Spilling,        \* bound: whether the builds checked can spill, a set of Booleans
          Multiplier,      \* CPU_PREFIX_CACHE_CAPACITY_MULTIPLIER
          EvictPercent,    \* CPU_PREFIX_CACHE_EVICT_PERCENT
          None             \* no snapshot is stored

ASSUME CapacitiesAssumption == Capacities \subseteq Nat
ASSUME SpillAssumption == Spilling \subseteq BOOLEAN
ASSUME RatioAssumption == Multiplier \in Nat \ {0} /\ EvictPercent \in 1..100
ASSUME NoneAssumption == None \notin Snapshots

VARIABLES cap,        \* prefix_cache_capacity
          device,     \* the device tier
          cpu,        \* the CPU spill tier
          preserved,  \* preserved_prefix_states
          spills      \* cuda build with the states on a cuda device

prefixVars == <<cap, device, cpu, preserved, spills>>

Stored(tier) == DOMAIN tier.snaps
Size(tier) == Cardinality(Stored(tier))
\* Mutant of Queue: preserved snapshots are popped first.
QueuePreservedFirst(tier) == tier.plru \o tier.lru

Queue(tier) == tier.lru \o tier.plru
EmptyTier == [snaps |-> <<>>, lru |-> <<>>, plru |-> <<>>]

CpuCapacityFor(capacity) == IF spills THEN capacity * Multiplier ELSE 0

Tiers == [snaps : UNION {[S -> Snapshots] : S \in SUBSET Hashes},
          lru : Seq(Hashes), plru : Seq(Hashes)]

PrefixTypeOK ==
  /\ cap \in Capacities \cup {0}
  /\ device \in Tiers
  /\ cpu \in Tiers
  /\ preserved \in SUBSET Hashes
  /\ spills \in Spilling

PrefixInit ==
  /\ cap = 0
  /\ device = EmptyTier
  /\ cpu = EmptyTier
  /\ preserved = {}
  /\ spills \in Spilling
-------------------------------------------------------------------------------
(* One tier.                                                                 *)

\* The subsequence of q at the positions in places.
Picked(q, places) ==
  LET picked[i \in 0..Len(q)] ==
        IF i = 0 THEN <<>>
        ELSE IF i \in places THEN Append(picked[i - 1], q[i]) ELSE picked[i - 1]
  IN picked[Len(q)]

OnlyIn(q, S) == Picked(q, {i \in 1..Len(q) : q[i] \in S})

\* Mutant of Without: remove_from_lru forgets the preserved queue.
WithoutOrdinary(tier, gone) ==
  [tier EXCEPT !.snaps = Restrict(@, Stored(tier) \ gone),
               !.lru = OnlyIn(@, Hashes \ gone)]

Without(tier, gone) ==
  [snaps |-> Restrict(tier.snaps, Stored(tier) \ gone),
   lru   |-> OnlyIn(tier.lru, Hashes \ gone),
   plru  |-> OnlyIn(tier.plru, Hashes \ gone)]

\* Mutant of With: entry().or_insert() instead of insert().
WithFirst(tier, h, snap) ==
  [tier EXCEPT !.snaps = [g \in Stored(tier) \cup {h} |->
                            IF g \in Stored(tier) THEN tier.snaps[g] ELSE snap]]

With(tier, h, snap) ==
  [tier EXCEPT !.snaps = [g \in Stored(tier) \cup {h} |->
                            IF g = h THEN snap ELSE tier.snaps[g]]]

\* Mutant of Touched: push_front instead of push_back.
TouchedFront(tier, h, keep) ==
  LET others(q) == OnlyIn(q, Hashes \ {h})
  IN [tier EXCEPT !.lru  = IF keep THEN others(@) ELSE <<h>> \o others(@),
                  !.plru = IF keep THEN <<h>> \o others(@) ELSE others(@)]

\* h becomes the most recently used of its class.
Touched(tier, h, keep) ==
  LET others(q) == OnlyIn(q, Hashes \ {h})
  IN [tier EXCEPT !.lru  = IF keep THEN others(@) ELSE Append(others(@), h),
                  !.plru = IF keep THEN Append(others(@), h) ELSE others(@)]

\* A queue without the hashes outside S and without repetitions.
Cleaned(q, S) ==
  Picked(q, {i \in 1..Len(q) : q[i] \in S /\ \A j \in 1..(i - 1) : q[j] # q[i]})

\* Queues that list exactly the stored hashes, each in the queue of its class.
\* Hashes in no queue are appended in the order of a hash set.
Normalized(tier, kept) ==
  LET lru  == Cleaned(tier.lru, Stored(tier) \ kept)
      plru == Cleaned(tier.plru, Stored(tier) \cap kept)
      late == Stored(tier) \ (ToSet(lru) \cup ToSet(plru))
  IN [tier EXCEPT !.lru  = lru \o SetToSeq(late \ kept),
                  !.plru = plru \o SetToSeq(late \cap kept)]

\* The hashes popped while more than n snapshots are stored.
Victims(tier, n) ==
  SubSeq(Queue(tier), 1, IF Size(tier) > n THEN Size(tier) - n ELSE 0)
-------------------------------------------------------------------------------
(* The operations below work on a record of both tiers and the preserved     *)
(* set; "limit" is the CPU capacity in force and "fails" the set of hashes   *)
(* whose copy to the CPU fails in this call.                                 *)

Now == [device |-> device, cpu |-> cpu, preserved |-> preserved]

Becomes(w) ==
  /\ device' = w.device
  /\ cpu' = w.cpu
  /\ preserved' = w.preserved

\* Mutant of DropCpu: the mark of a hash that is nowhere any more stays.
DropCpuKeepingMark(w, gone) == [w EXCEPT !.cpu = Without(@, gone)]

DropCpu(w, gone) ==
  [w EXCEPT !.cpu = Without(@, gone),
            !.preserved = @ \ (gone \ Stored(w.device))]

\* Drop CPU snapshots until n are left.
ShrinkCpu(w, n) ==
  LET tidy == [w EXCEPT !.cpu = Normalized(@, w.preserved)]
  IN DropCpu(tidy, ToSet(Victims(tidy.cpu, n)))

\* A full CPU tier makes room for a batch: EvictPercent of it, at least one.
CpuTarget(limit) ==
  LET percent == (limit * EvictPercent + 99) \div 100
  IN limit - (IF percent = 0 THEN 1 ELSE percent)

MakeRoomForCpu(w, limit) ==
  ShrinkCpu(w, IF Size(w.cpu) < limit THEN limit ELSE CpuTarget(limit))

\* Mutants of Spilled: the CPU tier is not shrunk first; a build that cannot
\* spill leaves the mark of the evicted hash.
SpilledWithoutRoom(w, h, snap, limit, fails) ==
  IF limit > 0 /\ h \notin fails
  THEN [w EXCEPT !.cpu = Touched(With(@, h, snap), h, h \in w.preserved)]
  ELSE [w EXCEPT !.preserved = @ \ {h}]

SpilledKeepingMark(w, h, snap, limit, fails) ==
  LET room == MakeRoomForCpu(w, limit)
  IN IF limit > 0 /\ Size(room.cpu) < limit /\ h \notin fails
     THEN [room EXCEPT !.cpu = Touched(With(@, h, snap), h, h \in room.preserved)]
     ELSE w

\* The snapshot of h has left the device tier: copy it to the CPU tier.  A CPU
\* copy that is already there is kept as it is.
Spilled(w, h, snap, limit, fails) ==
  LET lost(v) == [v EXCEPT !.preserved = @ \ {h}]
      room    == MakeRoomForCpu(w, limit)
  IN CASE limit = 0 -> lost(w)
       [] limit > 0 /\ h \in Stored(w.cpu) ->
            [w EXCEPT !.cpu = Touched(@, h, h \in w.preserved)]
       [] limit > 0 /\ h \notin Stored(w.cpu) /\ Size(room.cpu) < limit /\ h \notin fails ->
            [room EXCEPT !.cpu = Touched(With(@, h, snap), h, h \in room.preserved)]
       [] OTHER -> lost(room)

EvictDevice(w, h, limit, fails) ==
  Spilled([w EXCEPT !.device = Without(@, {h})], h, w.device.snaps[h], limit, fails)

\* Evict device snapshots until n are left.
ShrinkDevice(w, n, limit, fails) ==
  LET tidy == [w EXCEPT !.device = Normalized(@, w.preserved)]
      victims == Victims(tidy.device, n)
      after[i \in 0..Len(victims)] ==
        IF i = 0 THEN tidy ELSE EvictDevice(after[i - 1], victims[i], limit, fails)
  IN after[Len(victims)]

\* Mutant of MakeRoom: evict down to the capacity, not below it.
MakeRoomToCapacity(w, fails) == ShrinkDevice(w, cap, CpuCapacityFor(cap), fails)

\* Room for one more device snapshot.
MakeRoom(w, fails) == ShrinkDevice(w, cap - 1, CpuCapacityFor(cap), fails)
HasRoom(w) == Size(w.device) < cap

\* Mutant of StoredOnDevice: a hash that is stored already is not moved up.
StoredOnDeviceUntouched(w, h, snap, preserve) ==
  LET keep == preserve \/ h \in w.preserved
  IN [w EXCEPT !.device = IF h \in Stored(@) THEN With(@, h, snap)
                          ELSE Touched(With(@, h, snap), h, keep),
               !.preserved = IF keep THEN @ \cup {h} ELSE @]

\* The snapshot of h is stored on the device and becomes its most recent one;
\* a hash that was preserved stays preserved.
StoredOnDevice(w, h, snap, preserve) ==
  LET keep == preserve \/ h \in w.preserved
  IN [w EXCEPT !.device = Touched(With(@, h, snap), h, keep),
               !.preserved = IF keep THEN @ \cup {h} ELSE @]
-------------------------------------------------------------------------------
(* Operations.                                                               *)

\* Mutants of SetPrefixCacheCapacity: the two capacities are mixed up; a smaller
\* capacity evicts nothing.
SetPrefixCacheCapacityToCpu(capacity, fails) ==
  /\ cap' = CpuCapacityFor(capacity)
  /\ UNCHANGED spills
  /\ UNCHANGED <<device, cpu, preserved>>

SetPrefixCacheCapacityLazily(capacity, fails) ==
  /\ cap' = capacity
  /\ UNCHANGED spills
  /\ IF capacity = 0
     THEN Becomes([device |-> EmptyTier, cpu |-> EmptyTier, preserved |-> {}])
     ELSE UNCHANGED <<device, cpu, preserved>>

SetPrefixCacheCapacity(capacity, fails) ==
  /\ cap' = capacity
  /\ UNCHANGED spills
  /\ IF capacity = 0
     THEN Becomes([device |-> EmptyTier, cpu |-> EmptyTier, preserved |-> {}])
     ELSE LET limit == CpuCapacityFor(capacity)
              start == [Now EXCEPT !.cpu = IF limit = 0 THEN EmptyTier ELSE @]
          IN Becomes(ShrinkCpu(ShrinkDevice(start, capacity, limit, fails), limit))

RemovePrefixState(h) ==
  /\ Becomes([device |-> Without(device, {h}), cpu |-> Without(cpu, {h}),
              preserved |-> preserved \ {h}])
  /\ UNCHANGED <<cap, spills>>

\* Mutant of ReadyToCapture: the CPU copy of a captured hash is kept.
ReadyToCaptureKeepingCpu(h, fails) ==
  IF h \in Stored(device) THEN Now ELSE MakeRoom(Now, fails)

\* The cache once capture_prefix_state has made room for h and dropped the CPU
\* copy of h, before it gathers the slot.
ReadyToCapture(h, fails) ==
  LET room == IF h \in Stored(device) THEN Now ELSE MakeRoom(Now, fails)
  IN [room EXCEPT !.cpu = Without(@, {h})]

CapturePrefixState(h, snap, preserve, fails) ==
  /\ cap > 0
  /\ LET ready == ReadyToCapture(h, fails)
     IN /\ h \in Stored(device) \/ HasRoom(ready)
        /\ Becomes(StoredOnDevice(ready, h, snap, preserve))
  /\ UNCHANGED <<cap, spills>>

\* Gathering the slot fails: the evictions and the dropped CPU copy stay.
CaptureFails(h, fails) ==
  /\ cap > 0
  /\ LET ready == ReadyToCapture(h, fails)
     IN /\ h \in Stored(device) \/ HasRoom(ready)
        /\ Becomes(ready)
  /\ UNCHANGED <<cap, spills>>

RestoreFromDevice(h) ==
  /\ cap > 0
  /\ h \in Stored(device)
  /\ Becomes(StoredOnDevice(Now, h, device.snaps[h], FALSE))
  /\ UNCHANGED <<cap, spills>>

\* promote_cpu_prefix_state, after it has taken h out of the CPU tier and made
\* room on the device.
ReadyToPromote(h, fails) == MakeRoom([Now EXCEPT !.cpu = Without(@, {h})], fails)

RestoreFromCpu(h, fails) ==
  /\ cap > 0
  /\ h \in Stored(cpu) \ Stored(device)
  /\ LET ready == ReadyToPromote(h, fails)
     IN /\ HasRoom(ready)
        /\ Becomes(StoredOnDevice(ready, h, cpu.snaps[h], FALSE))
  /\ UNCHANGED <<cap, spills>>

\* There is no room or the copy to the device fails: h goes back to the CPU
\* tier, the evictions stay.
RestoreFromCpuFails(h, fails) ==
  /\ cap > 0
  /\ h \in Stored(cpu) \ Stored(device)
  /\ LET ready == ReadyToPromote(h, fails)
     IN Becomes([ready EXCEPT
                   !.cpu = Touched(With(@, h, cpu.snaps[h]), h, h \in ready.preserved)])
  /\ UNCHANGED <<cap, spills>>

ResetPrefixes ==
  /\ Becomes([device |-> EmptyTier, cpu |-> EmptyTier, preserved |-> {}])
  /\ UNCHANGED <<cap, spills>>

\* The operations that store or return the snapshot of h ...
Use(h) ==
  \/ RestoreFromDevice(h)
  \/ \E fails \in SUBSET Stored(device) :
       \/ \E snap \in Snapshots, preserve \in BOOLEAN :
            CapturePrefixState(h, snap, preserve, fails)
       \/ RestoreFromCpu(h, fails)

\* ... and those that only remove snapshots.
Maintain ==
  \/ ResetPrefixes
  \/ \E h \in Hashes : RemovePrefixState(h)
  \/ \E fails \in SUBSET Stored(device) :
       \/ \E capacity \in Capacities : SetPrefixCacheCapacity(capacity, fails)
       \/ \E h \in Hashes : CaptureFails(h, fails)

PrefixNext ==
  \/ Maintain
  \/ \E h \in Hashes : Use(h)
  \/ \E h \in Hashes, fails \in SUBSET Stored(device) : RestoreFromCpuFails(h, fails)

PrefixSpec == PrefixInit /\ [][PrefixNext]_prefixVars
-------------------------------------------------------------------------------
(* Properties.                                                               *)

StoredAnywhere == Stored(device) \cup Stored(cpu)

\* The two queues of a tier list its snapshots exactly once, each in the queue
\* of its class, although nine operations edit the maps, the preserved set and
\* the queues separately and the normalize functions run only before evictions.
QueueListsTier(tier) ==
  /\ ToSet(tier.lru) = Stored(tier) \ preserved
  /\ ToSet(tier.plru) = Stored(tier) \cap preserved
  /\ Len(Queue(tier)) = Size(tier)
QueuesListTiers == QueueListsTier(device) /\ QueueListsTier(cpu)

\* A hash has a snapshot in one tier only, so an eviction never finds an older
\* CPU copy to refresh instead of the state it evicts.
TiersDisjoint == Stored(device) \cap Stored(cpu) = {}

\* The device tier never holds more than its capacity ("Evict before capture so
\* we never exceed capacity").
DeviceWithinCapacity == Size(device) <= cap

\* The CPU tier exceeds its capacity by at most the one snapshot a failed
\* promotion puts back.
CpuWithinCapacityPlusOne ==
  Size(cpu) <= CpuCapacityFor(cap) + (IF spills THEN 1 ELSE 0)

\* make_room_for_prefix_state always finds a snapshot to evict: a capture or a
\* promotion is never refused for want of room.
MakeRoomSucceeds ==
  cap > 0 => \A fails \in SUBSET Stored(device) : HasRoom(MakeRoom(Now, fails))

\* An eviction takes a preserved snapshot off the device only when it takes
\* every ordinary one with it.
PreservedLeaveDeviceLast ==
  [][\/ \E h \in Hashes : RemovePrefixState(h)
     \/ (\E h \in preserved : h \in Stored(device) \ Stored(device)')
          => Stored(device)' \cap (Stored(device) \ preserved) = {}]_prefixVars

\* A preserved mark without a snapshot is left behind only by a capture that
\* fails after it has dropped the CPU copy.
MarksOutliveOnlyFailedCaptures ==
  [][\A h \in preserved' \ StoredAnywhere' :
       \/ h \in preserved \ StoredAnywhere
       \/ \E fails \in SUBSET Stored(device) : CaptureFails(h, fails)]_prefixVars

\* A preserved snapshot is lost from the CPU tier only when no older ordinary one
\* stays there ("should survive decode-time churn when possible"): the exceptions
\* are its own failing recapture and the snapshot a failed promotion puts back.
PreservedLeaveCpuLast ==
  [][\A p \in preserved \cap Stored(cpu), o \in Stored(cpu) \ preserved :
       p \notin StoredAnywhere' /\ o \in Stored(cpu)' =>
         \/ RemovePrefixState(p)
         \/ \E fails \in SUBSET Stored(device) :
              CaptureFails(p, fails) \/ RestoreFromCpuFails(o, fails)]_prefixVars

\* A build that cannot spill forgets the mark of a snapshot with the snapshot:
\* a later ordinary capture of that prefix is ordinary again.
MarksAreStored == ~spills => preserved \subseteq StoredAnywhere
===============================================================================
