-------------------------- MODULE PrefixCacheHistory --------------------------
(***************************************************************************)
(* PrefixCache with history variables: used, the stored hashes in the      *)
(* order of their last capture or restore; putBack, the hashes that are in *)
(* the CPU tier because a promotion failed and returned them to it; and    *)
(* captured, what capture_prefix_state has just reported as captured.      *)
(***************************************************************************)
EXTENDS PrefixCache

VARIABLES used, putBack, captured

historyVars == <<cap, device, cpu, preserved, spills, used, putBack, captured>>

StillStored(q) == OnlyIn(q, StoredAnywhere')

HInit == PrefixInit /\ used = <<>> /\ putBack = {} /\ captured = None

MarkUsed(h) ==
  /\ used' = StillStored(Append(OnlyIn(used, Hashes \ {h}), h))
  /\ putBack' = putBack \cap Stored(cpu)'

HMaintain ==
  /\ Maintain
  /\ used' = StillStored(used)
  /\ putBack' = putBack \cap Stored(cpu)'
  /\ captured' = None

HCapture(h, snap) ==
  /\ \E preserve \in BOOLEAN, fails \in SUBSET Stored(device) :
       CapturePrefixState(h, snap, preserve, fails)
  /\ MarkUsed(h)
  /\ captured' = <<h, snap>>

HRestore(h) ==
  /\ \/ RestoreFromDevice(h)
     \/ \E fails \in SUBSET Stored(device) : RestoreFromCpu(h, fails)
  /\ MarkUsed(h)
  /\ captured' = None

HFailedUse(h) ==
  /\ \E fails \in SUBSET Stored(device) : RestoreFromCpuFails(h, fails)
  /\ used' = StillStored(used)
  /\ putBack' = (putBack \cup {h}) \cap Stored(cpu)'
  /\ captured' = None

HNext ==
  \/ HMaintain
  \/ \E h \in Hashes, snap \in Snapshots : HCapture(h, snap)
  \/ \E h \in Hashes : HRestore(h) \/ HFailedUse(h)

HSpec == HInit /\ [][HNext]_historyVars

InOrderOfUse(q) == q = OnlyIn(used, ToSet(q))
NotPutBack(q) == OnlyIn(q, Hashes \ putBack)

\* All four queues are in order of last use, so an eviction of either tier
\* takes the least recently used snapshot of its class.  It is so in the CPU
\* tier too, although there a hash is queued when it is spilled and not when it
\* is used; only a hash that a failed promotion has put back is out of order.
QueuesInOrderOfUse ==
  /\ InOrderOfUse(device.lru)
  /\ InOrderOfUse(device.plru)
  /\ InOrderOfUse(NotPutBack(cpu.lru))
  /\ InOrderOfUse(NotPutBack(cpu.plru))

\* Within a class the device tier holds the most recently used snapshots: none
\* there was used before one that was spilled to the CPU tier.
DeviceHoldsTheNewest ==
  \A i, j \in DOMAIN used :
    /\ used[i] \in Stored(device)
    /\ used[j] \in Stored(cpu) \ putBack
    /\ used[i] \in preserved <=> used[j] \in preserved
    => j < i

\* The refinement: whatever moves between the tiers, fails or is evicted, a hash
\* yields the snapshot of its last reported capture or nothing.
Store == INSTANCE SnapshotStore WITH
           store <- [h \in Hashes |-> IF h \in Stored(device) THEN device.snaps[h]
                                      ELSE IF h \in Stored(cpu) THEN cpu.snaps[h]
                                      ELSE None]
ImplementsSnapshotStore == Store!Spec
===============================================================================
