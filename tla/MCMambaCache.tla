----------------------------- MODULE MCMambaCache -----------------------------
(* TLC instance of MambaCache.                                              *)
EXTENDS MambaCache

EverySnapshot == [Buffers -> Contents]

Symmetry == Permutations(Seqs) \cup Permutations(Hashes)
===============================================================================
