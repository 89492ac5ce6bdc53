---------------------------- MODULE MCDbRegistry ----------------------------
(* Instance of DbRegistry and of its refinement for TLC. *)
EXTENDS StoreRefinement, TLC

Alike == Permutations(Threads) \cup Permutations(Keys)
=============================================================================
