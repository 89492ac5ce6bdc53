--------------------------- MODULE MCSortedTable ----------------------------
(***************************************************************************)
(* Instance of SortedTable for TLC: one thread, and enough records for     *)
(* bisections of several iterations.                                       *)
(***************************************************************************)
EXTENDS SortedTable

\* Keys in both levels that order the table, and one that differs from
\* another only in a level the criteria do not order by.
OrderKeys == {<<1, 1, 0, 0>>, <<1, 2, 0, 0>>, <<1, 3, 0, 0>>, <<2, 1, 0, 0>>, <<1, 1, 1, 0>>}

PrimaryAndSecondary == {1, 2}
=============================================================================
