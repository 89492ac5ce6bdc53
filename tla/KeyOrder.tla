------------------------------ MODULE KeyOrder ------------------------------
(***************************************************************************)
(* Keys of a sorted table and their comparison (tvserver/CDbFactory/       *)
(* hsvsrtdb.h, and the comparison cascade repeated in mBinInsert and       *)
(* mBinSearch of hsvsrtdb.cpp).                                            *)
(*                                                                         *)
(* A key has four levels: primary, secondary, "teritiary", quaternary.  A  *)
(* sorting criterion, a bit mask in the code, is the set of levels whose   *)
(* bit is set.                                                             *)
(***************************************************************************)
EXTENDS Integers

Levels == 1 .. 4
Primary == 1                    \* PrimaryKeyMask

SmallerKey == 0
EqualKey   == 1
BiggerKey  == 2

(***************************************************************************)
(* HSVCOMPAREKEY: how the searched key relates to the record's field.      *)
(***************************************************************************)
CompareField(key, field) ==
    IF key < field THEN SmallerKey ELSE IF key = field THEN EqualKey ELSE BiggerKey

(***************************************************************************)
(* A level is looked at only when all earlier ones are equal, and the      *)
(* cascade stops at the first level whose bit is not set.                  *)
(***************************************************************************)
CompareKeys(criteria, k, r) ==
    IF k[1] # r[1] \/ 2 \notin criteria THEN CompareField(k[1], r[1])
    ELSE IF k[2] # r[2] \/ 3 \notin criteria THEN CompareField(k[2], r[2])
    ELSE IF k[3] # r[3] \/ 4 \notin criteria THEN CompareField(k[3], r[3])
    ELSE CompareField(k[4], r[4])

\* The levels the cascade can reach under these criteria.
Reached(criteria) == {l \in Levels : \A j \in 2 .. l : j \in criteria}

\* The part of a key that the table can tell apart from others.
SortKey(criteria, k) == [l \in Reached(criteria) |-> k[l]]
=============================================================================
