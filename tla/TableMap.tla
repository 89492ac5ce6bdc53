------------------------------ MODULE TableMap ------------------------------
(***************************************************************************)
(* What a table of tvserver/CDbFactory promises its callers: a map from    *)
(* sort keys to records, of at most MaxRecords records, whose keys can     *)
(* also be asked for by rank.  Every call takes effect in one step, except *)
(* UpdateRecord: it looks, removes, puts and returns in four steps, and    *)
(* between them any other call may come in.                                *)
(*                                                                         *)
(* Nothing here speaks of arrays, positions of memory or searches; module  *)
(* TableRefinement shows that SortedTable implements it.                   *)
(***************************************************************************)
EXTENDS KeyOrder, FiniteSets

CONSTANTS Keys, Values, Threads, SortingCriteria, MaxRecords, NoData, NoAnswer

VARIABLES
    map,        \* the records, by sort key
    update,     \* the UpdateRecord each thread is in, by the step it is at
    answer      \* the call that the last step completed, if any

mapVars == <<map, update, answer>>

KeyOf(k) == SortKey(SortingCriteria, k)
Present(k) == KeyOf(k) \in DOMAIN map
RecordOf(k) == map[KeyOf(k)]

NoUpdate == [at |-> "none"]

\* The order is descending: rank 0 is the biggest key.
Comes(k, j) == CompareKeys(SortingCriteria, k, j) = BiggerKey
Above(k) == Cardinality({r \in DOMAIN map : Comes(map[r].key, k)})
Below(k) == Cardinality({r \in DOMAIN map : Comes(k, map[r].key)})
Rank(r) == Above(map[r].key)

Answers(t, op, key, arg, given, ok, from, to, data) ==
    answer' = [by |-> t, op |-> op, key |-> key, arg |-> arg, given |-> given,
               ok |-> ok, from |-> from, to |-> to, data |-> data]

Quiet == answer' = NoAnswer

Put(k, d) ==
    map' = [r \in DOMAIN map \cup {KeyOf(k)} |->
              IF r = KeyOf(k) THEN [key |-> k, data |-> d] ELSE map[r]]

Remove(k) == map' = [r \in DOMAIN map \ {KeyOf(k)} |-> map[r]]

\* Insert and delete, up to what they return.  A table that its primary
\* level does not order takes no record.
Inserts(k, d, ok) ==
    /\ ok <=> /\ Cardinality(DOMAIN map) < MaxRecords /\ ~Present(k) /\ d # NoData
              /\ Primary \in SortingCriteria
    /\ IF ok THEN Put(k, d) ELSE UNCHANGED map

Deletes(k, ok) ==
    /\ ok <=> Present(k)
    /\ IF ok THEN Remove(k) ELSE UNCHANGED map

-----------------------------------------------------------------------------
MapInit ==
    /\ map = [r \in {} |-> NoData]
    /\ update = [t \in Threads |-> NoUpdate]
    /\ answer = NoAnswer

Free(t) == update[t] = NoUpdate

Insert(t) == \E k \in Keys, d \in Values \cup {NoData}, ok \in BOOLEAN :
    /\ Free(t) /\ Answers(t, "InsertRecord", k, 0, d, ok, 0, 0, NoData)
    /\ Inserts(k, d, ok) /\ UNCHANGED update

Delete(t) == \E k \in Keys, ok \in BOOLEAN :
    /\ Free(t) /\ Answers(t, "DeleteRecord", k, 0, NoData, ok, 0, 0, NoData)
    /\ Deletes(k, ok) /\ UNCHANGED update

Clear(t) ==
    /\ Free(t) /\ answer' = [by |-> t, op |-> "ClearTable", ok |-> TRUE]
    /\ map' = [r \in {} |-> NoData] /\ UNCHANGED update

(***************************************************************************)
(* The steps of an update: it fails at once if the key is absent; else it  *)
(* goes on whatever the others do, and returns what its put returned.      *)
(***************************************************************************)
UpdateFails(t) == \E k \in Keys, d \in Values \cup {NoData} :
    /\ Free(t) /\ Answers(t, "UpdateRecord", k, 0, d, FALSE, 0, 0, NoData)
    /\ ~Present(k) /\ UNCHANGED <<map, update>>

UpdateBegins(t) == \E k \in Keys, d \in Values \cup {NoData} :
    /\ Free(t) /\ Quiet /\ Present(k)
    /\ update' = [update EXCEPT ![t] = [at |-> "remove", key |-> k, data |-> d]]
    /\ UNCHANGED map

UpdateRemoves(t) == \E ok \in BOOLEAN :
    /\ update[t].at = "remove" /\ Deletes(update[t].key, ok)
    /\ update' = [update EXCEPT ![t] = [at |-> "put", key |-> @.key, data |-> @.data]]
    /\ Quiet

UpdatePuts(t) == \E ok \in BOOLEAN :
    /\ update[t].at = "put" /\ Inserts(update[t].key, update[t].data, ok)
    /\ update' = [update EXCEPT ![t] =
                    [at |-> "return", key |-> @.key, data |-> @.data, ok |-> ok]]
    /\ Quiet

UpdateReturns(t) ==
    LET u == update[t] IN
    /\ u.at = "return"
    /\ Answers(t, "UpdateRecord", u.key, 0, u.data, u.ok, 0, 0, NoData)
    /\ update' = [update EXCEPT ![t] = NoUpdate] /\ UNCHANGED map

(***************************************************************************)
(* Questions, answered by the map as it is at that step.                   *)
(***************************************************************************)
Asks(t) == Free(t) /\ UNCHANGED <<map, update>>

Query(t) == \E k \in Keys :
    /\ Asks(t)
    /\ Answers(t, "QueryOnKey", k, 0, NoData, Present(k), 0, 0,
               IF Present(k) THEN RecordOf(k).data ELSE NoData)

QueryRank(t) == \E i \in 0 .. MaxRecords :
    /\ Asks(t)
    /\ answer' = [by |-> t, op |-> "QueryOnIndex", ok |-> i < Cardinality(DOMAIN map),
                  from |-> i, to |-> i,
                  data |-> IF i < Cardinality(DOMAIN map)
                           THEN map[CHOOSE r \in DOMAIN map : Rank(r) = i].data ELSE NoData]

\* The ranks from..to hold the records asked for, none if found is FALSE.
AnswersRange(t, op, k, arg, found, from, to) ==
    Answers(t, op, k, arg, NoData, found, IF found THEN from ELSE 0, IF found THEN to ELSE 0, NoData)

Search(t) == \E k \in Keys :
    Asks(t) /\ AnswersRange(t, "SearchOnKey", k, 0, Present(k), Above(k), Above(k))

\* The record with this key or else the next one in the direction asked for.
\* 2 and 4 are the code's operators "smaller" and "greater".
SearchNearest(t) == \E k \in Keys :
    /\ Asks(t)
    /\ \/ AnswersRange(t, "SearchOnKey2", k, 2, Present(k) \/ Below(k) > 0, Above(k), Above(k))
       \/ LET rank == IF Present(k) THEN Above(k) ELSE Above(k) - 1
          IN  AnswersRange(t, "SearchOnKey2", k, 4, Present(k) \/ Above(k) > 0, rank, rank)

\* All the records that agree with k on the first n levels that order the table.
SearchPrefix(t) == \E k \in Keys, n \in 1 .. 3 :
    LET Agrees(j) == CompareKeys(SortingCriteria \cap 1 .. n, k, j) = EqualKey
        before(j) == CompareKeys(SortingCriteria \cap 1 .. n, k, j) = SmallerKey
        hits  == {r \in DOMAIN map : Agrees(map[r].key)}
        first == Cardinality({r \in DOMAIN map : before(map[r].key)})
    IN  /\ Asks(t)
        /\ AnswersRange(t, "SearchOnPrefix", k, n, hits # {}, first, first + Cardinality(hits) - 1)

\* A step inside a call, of no effect yet.
Works == Quiet /\ UNCHANGED <<map, update>>

MapNext ==
    \/ Works
    \/ \E t \in Threads :
          \/ Insert(t) \/ Delete(t) \/ Clear(t)
          \/ UpdateFails(t) \/ UpdateBegins(t) \/ UpdateRemoves(t) \/ UpdatePuts(t)
          \/ UpdateReturns(t)
          \/ Query(t) \/ QueryRank(t) \/ Search(t) \/ SearchNearest(t) \/ SearchPrefix(t)

MapSpec == MapInit /\ [][MapNext]_mapVars
=============================================================================
