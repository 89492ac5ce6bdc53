------------------------- MODULE MCTableRefinement --------------------------
(* Instance of TableRefinement for TLC. *)
EXTENDS TableRefinement, TLC

TwoLevels == {1, 2}
ThreeKeys == {<<1, 1, 0, 0>>, <<1, 2, 0, 0>>, <<2, 1, 0, 0>>}
Alike == Permutations(Threads) \cup Permutations(Values)
=============================================================================
