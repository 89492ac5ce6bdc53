-------------------------- MODULE TableRefinement ---------------------------
(***************************************************************************)
(* SortedTable implements TableMap: the map is what the positions in use   *)
(* point to, and an update's step is where its thread stands.              *)
(***************************************************************************)
EXTENDS SortedTable

mapBar == [r \in {SortKey(SortingCriteria, RecordAt(i).key) : i \in Slots} |->
             RecordAt(CHOOSE i \in Slots : SortKey(SortingCriteria, RecordAt(i).key) = r)]

updateBar == [t \in Threads |->
    IF ~updating[t] THEN [at |-> "none"]
    ELSE IF pc[t] = "relock"
         THEN [at |-> "return", key |-> call[t].key, data |-> call[t].data, ok |-> ret[t]]
         ELSE [at   |-> IF call[t].op = "DeleteRecord" THEN "remove" ELSE "put",
               key  |-> call[t].key, data |-> call[t].data]]

Abstract == INSTANCE TableMap WITH
    map <- mapBar, update <- updateBar, MaxRecords <- MaxElements

(***************************************************************************)
(* Every behaviour of the array, the pool and the bisections, under any    *)
(* interleaving of the threads, is one of the map: in particular a record  *)
(* never changes except by the call that names its key.                    *)
(***************************************************************************)
ImplementsMap == Abstract!MapSpec
=============================================================================
