----------------------------- MODULE MCExpertLru -----------------------------
(* TLC instance of ExpertLru.                                               *)
EXTENDS ExpertLru, TLC

Symmetry == Permutations(Experts)
===============================================================================
