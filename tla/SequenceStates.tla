---------------------------- MODULE SequenceStates ----------------------------
(***************************************************************************)
(* What the slots of MambaCache promise to the engine: every running       *)
(* sequence owns a private recurrent state, one part per buffer (the conv  *)
(* and the recurrent tensor of every layer).  There are no slots here: a   *)
(* state starts as zero, changes only by operations that name the sequence *)
(* or the whole cache, and is gone when the sequence is finished.          *)
(***************************************************************************)
EXTENDS Naturals, FiniteSets

CONSTANTS Seqs,     \* sequence identifiers
          Buffers,  \* the buffers in the order the per-layer loops visit them
          Values,   \* what a forward pass can write
          Zero,     \* the content of a freshly zeroed row
          Absent    \* the state of a sequence that is not running

VARIABLE state      \* sequence -> Absent, or the content of each buffer

Contents == Values \cup {Zero}
SeqState == [Buffers -> Contents]
ZeroState == [b \in Buffers |-> Zero]
Running == {s \in Seqs : state[s] # Absent}

TypeOK == state \in [Seqs -> SeqState \cup {Absent}]

Init == state = [s \in Seqs |-> Absent]

\* Sequences that were not running begin, each with a zero state.
Start(batch) ==
  /\ batch \cap Running = {}
  /\ state' = [s \in Seqs |-> IF s \in batch THEN ZeroState ELSE state[s]]

\* A forward pass stores a new value in one buffer of every sequence of a batch.
Write(b, batch, val) ==
  /\ batch \subseteq Running
  /\ state' = [s \in Seqs |-> IF s \in batch
                              THEN [state[s] EXCEPT ![b] = val[s]]
                              ELSE state[s]]

\* A snapshot replaces the first n buffers of one sequence (all, unless the
\* copy of a buffer fails).  There are no snapshots in this module: the step is
\* one of RecurrentStates.
Load(s, snap, n) ==
  /\ s \in Running
  /\ state' = [state EXCEPT ![s] =
                 [b \in Buffers |-> IF b <= n THEN snap[b] ELSE state[s][b]]]

Finish(s) ==
  /\ s \in Running
  /\ state' = [state EXCEPT ![s] = Absent]

\* The whole cache is reset: every sequence ends ...
Clear == state' = [s \in Seqs |-> Absent]

\* ... unless zeroing a buffer fails: the buffers before it are zero and
\* every sequence keeps running.
ClearStopsAfter(n) ==
  /\ n + 1 \in Buffers
  /\ state' = [s \in Seqs |->
                 IF s \in Running
                 THEN [b \in Buffers |-> IF b <= n THEN Zero ELSE state[s][b]]
                 ELSE Absent]

Next ==
  \/ \E batch \in SUBSET Seqs : Start(batch)
  \/ \E b \in Buffers, batch \in SUBSET Seqs :
       \E val \in [batch -> Values] : Write(b, batch, val)
  \/ \E s \in Seqs : Finish(s)
  \/ Clear
  \/ \E n \in Buffers : ClearStopsAfter(n)

Spec == Init /\ [][Next]_state
===============================================================================
