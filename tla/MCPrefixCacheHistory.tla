------------------------- MODULE MCPrefixCacheHistory -------------------------
(* TLC instance of PrefixCacheHistory.                                      *)
EXTENDS PrefixCacheHistory, TLC

Symmetry == Permutations(Hashes) \cup Permutations(Snapshots)
===============================================================================
