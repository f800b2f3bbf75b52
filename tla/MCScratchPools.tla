----------------------------- MODULE MCScratchPools -----------------------------
(* TLC instance of ScratchPools.                                            *)
EXTENDS ScratchPools, FiniteSets, TLC

Symmetry == Permutations(Devices) \cup Permutations(Parts)

Used == {c \in Cells : made[c] # 0}

\* Bound: pools of different kinds share nothing but the domain, and interference
\* takes two cells, so two cells of one kind are used in a behaviour.
TwoCellsUsed == Cardinality(Used) <= 2 /\ \A c, d \in Used : c[1] = d[1]
===============================================================================
