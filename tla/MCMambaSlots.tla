----------------------------- MODULE MCMambaSlots -----------------------------
(* TLC instance of MambaSlots.                                             *)
EXTENDS MambaSlots, TLC

Symmetry == Permutations(Seqs) \cup Permutations(Values)
===============================================================================
