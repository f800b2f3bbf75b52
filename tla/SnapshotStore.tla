---------------------------- MODULE SnapshotStore ----------------------------
(***************************************************************************)
(* What the prefix cache of MambaCache promises: a lossy map from prefix   *)
(* hash to snapshot.  A hash holds the snapshot of its last capture or     *)
(* nothing; any operation may lose any snapshot, none can alter one or     *)
(* bring an older one back.  There are no tiers, queues or capacities.     *)
(* A capture that is reported as made has been made.                       *)
(***************************************************************************)
CONSTANTS Hashes,     \* prefix hashes
          Snapshots,  \* captured slot states
          None        \* no snapshot is stored

VARIABLES store,     \* hash -> None, or its snapshot
          captured   \* None, or the hash and snapshot the last step captured

Init ==
  /\ store = [h \in Hashes |-> None]
  /\ captured = None

\* Of the hashes outside changed, some may be lost; the others are as before.
OnlyLosesOutside(changed) ==
  /\ store' \in [Hashes -> Snapshots \cup {None}]
  /\ \A h \in Hashes \ changed : store'[h] \in {store[h], None}

Capture(h, snap) ==
  /\ captured' = <<h, snap>>
  /\ OnlyLosesOutside({h})
  /\ store'[h] = snap

Lose ==
  /\ captured' = None
  /\ OnlyLosesOutside({})

Next ==
  \/ \E h \in Hashes, snap \in Snapshots : Capture(h, snap)
  \/ Lose

Spec == Init /\ [][Next]_<<store, captured>>
===============================================================================
