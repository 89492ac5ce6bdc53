----------------------------- MODULE KeyedStore -----------------------------
(***************************************************************************)
(* What CDbFactory promises: under each table id at most one set of keys,  *)
(* which Init opens or empties, and on which every other call acts in one  *)
(* step, but Update, which looks, removes and puts.  A call with an id     *)
(* that was never opened fails.  What may be opened twice is left to the   *)
(* caller: once the store is broken it promises nothing.                   *)
(***************************************************************************)
EXTENDS FiniteSets, Integers

CONSTANTS Threads, Keys, Ids, Lookups, NullId, Empty, MaxRecords, NULL, NoAnswer

VARIABLES db, update, broken, answer

storeVars == <<db, update, broken, answer>>

StoreInit ==
    /\ db = [id \in Ids |-> NULL]
    /\ update = [t \in Threads |-> NULL]
    /\ broken = FALSE /\ answer = NoAnswer

Answers(t, op, id, key, ok) == answer' = [by |-> t, op |-> op, id |-> id, key |-> key, ok |-> ok]
Sets(id, keys) == db' = [db EXCEPT ![id] = keys]
Opened(id) == db[id] # NULL
Holds(id, key) == Opened(id) /\ key \in db[id]
Takes(id, key) ==
    /\ Opened(id) /\ id \notin Empty
    /\ key \notin db[id] /\ Cardinality(db[id]) < MaxRecords

Open(t, id) ==
    /\ Answers(t, "Init", id, NULL, TRUE)
    /\ IF id = NullId THEN UNCHANGED db ELSE Sets(id, {})
    /\ UNCHANGED update

Insert(t, id, key) ==
    /\ Answers(t, "Insert", id, key, Takes(id, key))
    /\ IF Takes(id, key) THEN Sets(id, db[id] \cup {key}) ELSE UNCHANGED db
    /\ UNCHANGED update

Delete(t, id, key) ==
    /\ Answers(t, "Delete", id, key, Holds(id, key))
    /\ IF Holds(id, key) THEN Sets(id, db[id] \ {key}) ELSE UNCHANGED db
    /\ UNCHANGED update

Ask(t, op, id, key) ==
    /\ Answers(t, op, id, key,
               IF op = "GetNoOfRecords" THEN Opened(id) /\ db[id] # {} ELSE Holds(id, key))
    /\ UNCHANGED <<db, update>>

UpdateFails(t, id, key) ==
    /\ Answers(t, "Update", id, key, FALSE) /\ ~Holds(id, key)
    /\ UNCHANGED <<db, update>>

UpdateFinds(t, id, key) ==
    /\ Holds(id, key)
    /\ update' = [update EXCEPT ![t] = [at |-> "remove", id |-> id, key |-> key]]
    /\ answer' = NoAnswer /\ UNCHANGED db

UpdateRemoves(t) ==
    /\ update[t] # NULL /\ update[t].at = "remove"
    /\ Sets(update[t].id, db[update[t].id] \ {update[t].key})
    /\ update' = [update EXCEPT ![t].at = "put"]
    /\ answer' = NoAnswer

UpdatePuts(t) ==
    LET u == update[t] IN
    /\ u # NULL /\ u.at = "put"
    /\ Answers(t, "Update", u.id, u.key, Takes(u.id, u.key))
    /\ IF Takes(u.id, u.key) THEN Sets(u.id, db[u.id] \cup {u.key}) ELSE UNCHANGED db
    /\ update' = [update EXCEPT ![t] = NULL]

Promised == \E t \in Threads :
    \/ UpdateRemoves(t) \/ UpdatePuts(t)
    \/ /\ update[t] = NULL
       /\ \E id \in Ids :
             \/ Open(t, id)
             \/ \E key \in Keys :
                   \/ Insert(t, id, key) \/ Delete(t, id, key)
                   \/ UpdateFails(t, id, key) \/ UpdateFinds(t, id, key)
                   \/ \E op \in Lookups : Ask(t, op, id, key)

\* A step inside a call.
Works == answer' = NoAnswer /\ UNCHANGED <<db, update>>

StoreNext == broken' \/ ((Promised \/ Works) /\ UNCHANGED broken)

StoreSpec == StoreInit /\ [][StoreNext]_storeVars
=============================================================================
