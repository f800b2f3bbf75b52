---------------------------- MODULE RecurrentStates ----------------------------
(***************************************************************************)
(* What MambaCache as a whole promises: running sequences with private     *)
(* states (SequenceStates) and a lossy store of snapshots of them.  A      *)
(* capture that reports success has stored the sequence's state of that    *)
(* moment; a restore that reports success has replaced the sequence's      *)
(* state by all of what the hash holds.                                    *)
(***************************************************************************)
EXTENDS Naturals

CONSTANTS Seqs, Hashes, Buffers, Values, Zero, Absent, None

VARIABLES state,  \* sequence -> Absent, or the content of each buffer
          store,  \* hash -> None, or a captured state
          reply   \* what the last call has reported

Seq == INSTANCE SequenceStates

Init ==
  /\ Seq!Init
  /\ store = [h \in Hashes |-> None]
  /\ reply = <<"other">>

\* Of the hashes outside changed, some may be lost in any call; the others are
\* as before.
OnlyLosesOutside(changed) ==
  /\ store' \in [Hashes -> Seq!SeqState \cup {None}]
  /\ \A h \in Hashes \ changed : store'[h] \in {store[h], None}

Capture(s, h) ==
  /\ s \in Seq!Running
  /\ OnlyLosesOutside({h})
  /\ store'[h] = state[s]
  /\ reply' = <<"captured", s, h>>
  /\ UNCHANGED state

Restore(s, h) ==
  /\ store[h] # None
  /\ \E n \in Buffers : n + 1 \notin Buffers /\ Seq!Load(s, store[h], n)
  /\ OnlyLosesOutside({})
  /\ store'[h] = store[h]
  /\ reply' = <<"restored", s, h>>

\* Copying a buffer fails: the ones before it are loaded.
RestoreStopsAfter(s, h, n) ==
  /\ store[h] # None
  /\ n + 1 \in Buffers
  /\ Seq!Load(s, store[h], n)
  /\ OnlyLosesOutside({})
  /\ store'[h] = store[h]
  /\ reply' = <<"other">>

\* A call that touches no sequence: a failed capture or restore, or maintenance.
Idle ==
  /\ OnlyLosesOutside({})
  /\ reply' = <<"other">>
  /\ UNCHANGED state

\* A full reset ends all sequences and forgets all snapshots.
Clear ==
  /\ Seq!Clear
  /\ store' = [h \in Hashes |-> None]
  /\ reply' = <<"other">>

SequenceStep ==
  /\ \/ \E batch \in SUBSET Seqs : Seq!Start(batch)
     \/ \E b \in Buffers, batch \in SUBSET Seqs :
          \E val \in [batch -> Values] : Seq!Write(b, batch, val)
     \/ \E s \in Seqs : Seq!Finish(s)
     \/ \E n \in Buffers : Seq!ClearStopsAfter(n)
  /\ reply' = <<"other">>
  /\ UNCHANGED store

Next ==
  \/ SequenceStep
  \/ \E s \in Seqs, h \in Hashes :
       \/ Capture(s, h)
       \/ Restore(s, h)
       \/ \E n \in Buffers : RestoreStopsAfter(s, h, n)
  \/ Idle
  \/ Clear

Spec == Init /\ [][Next]_<<state, store, reply>>
===============================================================================
