------------------------------- MODULE KvBlocks -------------------------------
(***************************************************************************)
(* One paged K or V cache tensor and what cache.rs does to it.  A tensor   *)
(* has blocks of BlockSize slots; a slot, the row of one token, stands for *)
(* one element of "width" bytes.  A slot is lost when any of its bytes is  *)
(* overwritten by something else than a row.                               *)
(***************************************************************************)
EXTENDS Integers

CONSTANTS BlockSize,  \* slots of a block
          Garbage     \* no token

ASSUME BlockSizeAssumption == BlockSize \in Nat \ {0}

\* What a slot holds: the row of a token, its format, the scale it was stored under.
NoCell == [tok |-> Garbage, fmt |-> "none", scale |-> 1]

BlockOf(slot) == slot \div BlockSize
SlotBytes(slot, width) == (slot * width)..(slot * width + width - 1)

\* Mutant of Swapped: source and destination offsets are exchanged.
SwappedBackwards(src, dst, mapping) ==
  [t \in DOMAIN dst |->
     IF BlockOf(t) \in DOMAIN mapping
     THEN LET v == mapping[BlockOf(t)] * BlockSize + (t % BlockSize)
          IN IF v \in DOMAIN src THEN src[v] ELSE NoCell
     ELSE dst[t]]

\* Each block b is copied to block mapping[b].  The map is iterated in an
\* arbitrary order, which no caller can see: the destinations are distinct.
Swapped(src, dst, mapping) ==
  [t \in DOMAIN dst |->
     IF \E b \in DOMAIN mapping : mapping[b] = BlockOf(t)
     THEN src[(CHOOSE b \in DOMAIN mapping : mapping[b] = BlockOf(t)) * BlockSize + (t % BlockSize)]
     ELSE dst[t]]

\* The bytes cleared for a block.  CUDA adds an offset counted in elements to a
\* byte address; Metal clears as many elements as the block has bytes.
ClearedOnCuda(b, width) == (b * BlockSize)..(b * BlockSize + BlockSize * width - 1)
ClearedOnMetal(b, width) ==
  (b * BlockSize * width)..(b * BlockSize * width + BlockSize * width * width - 1)

ClearedBlocks(mem, ids, width, metal) ==
  [t \in DOMAIN mem |->
     IF \E b \in ids : SlotBytes(t, width) \cap
                         (IF metal THEN ClearedOnMetal(b, width) ELSE ClearedOnCuda(b, width)) # {}
     THEN NoCell ELSE mem[t]]
===============================================================================
