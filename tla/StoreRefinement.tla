-------------------------- MODULE StoreRefinement ---------------------------
(***************************************************************************)
(* DbRegistry implements KeyedStore: under an id are the keys of the table *)
(* that m_dbs has for it, and an update's step is where its thread stands. *)
(***************************************************************************)
EXTENDS DbRegistry

ASSUME NoStoreAssumption ==
    /\ \A keys \in SUBSET Keys : keys # NULL
    /\ \A at \in {"remove", "put"}, id \in Ids, key \in Keys : [at |-> at, id |-> id, key |-> key] # NULL

dbBar == [id \in Ids |-> IF m_dbs[id] = NULL THEN NULL ELSE rows[m_dbs[id]]]

updateBar == [t \in Threads |->
    IF pc[t] \in {"remove", "put"} THEN [at |-> pc[t], id |-> call[t].id, key |-> call[t].key]
    ELSE NULL]

Store == INSTANCE KeyedStore WITH
    db <- dbBar, update <- updateBar, broken <- undefined \/ contested # {}

(***************************************************************************)
(* The unlocked registry keeps the promise of KeyedStore for as long as no *)
(* two Inits create the same id at once, no look-up meets a store in the   *)
(* map, and no table of no records is opened again: in particular what an  *)
(* Insert was told is there is found until it is deleted or cleared.       *)
(***************************************************************************)
ImplementsStore == Store!StoreSpec
=============================================================================
