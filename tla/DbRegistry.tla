----------------------------- MODULE DbRegistry -----------------------------
(***************************************************************************)
(* CDbFactory (tvserver/CDbFactory/CDbFactory.cpp): the registry m_dbs of  *)
(* tables by id, and the calls it forwards to them.  The registry has no   *)
(* lock: a call looks its table up and then calls it, Init looks up and    *)
(* then creates and stores.  Storing a new id restructures the std::map,   *)
(* so it takes from StoreBegins to StoreEnds, and a look-up or another     *)
(* store in between is undefined behaviour, where the model ends.          *)
(*                                                                         *)
(* A table is known by its order of creation and is here only the set of   *)
(* its keys; SortedTable has the rest.  Its methods are single steps, as   *)
(* TableMap justifies, but UpdateRecord, which looks, removes and puts.    *)
(***************************************************************************)
EXTENDS Integers, FiniteSets

CONSTANTS
    Threads, Keys,
    Ids,            \* table ids, which are pointers to configurations
    NullId,         \* the id 0, no configuration
    Empty,          \* ids whose configuration asks for no records
    MaxRecords,     \* records that the other tables hold
    MaxTables,      \* bound: tables ever created
    NULL, NoAnswer

Tables == 1 .. MaxTables

ASSUME IdsAssumption == NullId \in Ids /\ Empty \subseteq Ids
ASSUME SizesAssumption == MaxRecords \in Nat \ {0} /\ MaxTables \in Nat
ASSUME NullAssumption == NULL \notin Tables /\ NULL \notin Ids

VARIABLES
    m_dbs,          \* the table of each id
    rows,           \* the keys in each table
    of,             \* the id each table was created for
    made,           \* tables created so far
    pc, call,       \* where each thread is in a call, and in which
    undefined,      \* the map or a null pointer has been misused
    contested,      \* history: ids created by two Inits at once
    answer          \* the call that the last step completed, if any

vars == <<m_dbs, rows, of, made, pc, call, undefined, contested, answer>>

Lookups == {"GetNoOfRecords", "Search", "Query"}    \* the methods that change nothing
Ops     == {"Insert", "Delete", "Update"} \cup Lookups
Call    == [op : Ops \cup {"Init"}, id : Ids, key : Keys \cup {NULL}, tb : Tables \cup {NULL}]

Init ==
    /\ m_dbs = [id \in Ids |-> NULL]
    /\ rows = [tb \in Tables |-> {}]
    /\ of = [tb \in Tables |-> NULL]
    /\ made = 0
    /\ pc = [t \in Threads |-> "idle"]
    /\ call = [t \in Threads |-> NULL]
    /\ undefined = FALSE /\ contested = {} /\ answer = NoAnswer

At(t, from) == ~undefined /\ pc[t] = from
Goes(t, from, to) == At(t, from) /\ pc' = [pc EXCEPT ![t] = to]
Starts(t, to, op, id, key, tb) ==
    /\ Goes(t, "idle", to)
    /\ call' = [call EXCEPT ![t] = [op |-> op, id |-> id, key |-> key, tb |-> tb]]

Answers(t, op, id, key, ok) == answer' = [by |-> t, op |-> op, id |-> id, key |-> key, ok |-> ok]
Returns(t, ok) ==
    /\ pc' = [pc EXCEPT ![t] = "idle"] /\ call' = [call EXCEPT ![t] = NULL]
    /\ Answers(t, call[t].op, call[t].id, call[t].key, ok)
Quiet == answer' = NoAnswer

\* Another thread is changing the structure of the map.
Restructured(t) == \E u \in Threads \ {t} : pc[u] = "store"

-----------------------------------------------------------------------------
(***************************************************************************)
(* Init: clear the table of an id that has one; else create it and store   *)
(* it, which replaces a table stored in the meantime.                      *)
(***************************************************************************)
InitFinds(t, id) ==
    /\ ~Restructured(t) /\ m_dbs[id] # NULL
    /\ Starts(t, "clear", "Init", id, NULL, m_dbs[id])
    /\ Quiet
    /\ UNCHANGED <<m_dbs, rows, of, made, undefined, contested>>

\* Mutations of Creates: without the test of the configuration.
CreatesAny(id) == m_dbs[id] = NULL

\* A table that is there is made anew.
CreatesAlways(id) == id # NullId

Creates(id) == m_dbs[id] = NULL /\ id # NullId

InitCreates(t, id) ==
    /\ ~Restructured(t) /\ Creates(id)
    /\ made < MaxTables /\ made' = made + 1
    /\ of' = [of EXCEPT ![made'] = id]
    /\ Starts(t, "create", "Init", id, NULL, made')
    /\ contested' = IF \E u \in Threads : pc[u] \in {"create", "store"} /\ call[u].id = id
                    THEN contested \cup {id} ELSE contested
    /\ Quiet
    /\ UNCHANGED <<m_dbs, rows, undefined>>

InitNothing(t) ==
    /\ At(t, "idle") /\ ~Restructured(t)
    /\ Answers(t, "Init", NullId, NULL, TRUE)
    /\ UNCHANGED <<m_dbs, rows, of, made, pc, call, undefined, contested>>

StoreBegins(t) ==
    /\ Goes(t, "create", "store")
    /\ ~Restructured(t) /\ m_dbs[call[t].id] = NULL
    /\ Quiet
    /\ UNCHANGED <<m_dbs, rows, of, made, call, undefined, contested>>

Stores(t) == m_dbs' = [m_dbs EXCEPT ![call[t].id] = call[t].tb]

StoreEnds(t) ==
    /\ At(t, "store")
    /\ Stores(t) /\ Returns(t, TRUE)
    /\ UNCHANGED <<rows, of, made, undefined, contested>>

StoreReplaces(t) ==
    /\ At(t, "create")
    /\ ~Restructured(t) /\ m_dbs[call[t].id] # NULL
    /\ Stores(t) /\ Returns(t, TRUE)
    /\ UNCHANGED <<rows, of, made, undefined, contested>>

\* Mutation of Clears: Init leaves the records of a table that is there.
ClearsNothing(t) ==
    /\ At(t, "clear") /\ call[t].id \notin Empty
    /\ Returns(t, TRUE)
    /\ UNCHANGED <<m_dbs, rows, of, made, undefined, contested>>

\* ClearTable; a table of no records has no pool to reset.
Clears(t) ==
    /\ At(t, "clear") /\ call[t].id \notin Empty
    /\ rows' = [rows EXCEPT ![call[t].tb] = {}]
    /\ Returns(t, TRUE)
    /\ UNCHANGED <<m_dbs, of, made, undefined, contested>>

Undefines == undefined' = TRUE /\ Quiet /\ UNCHANGED <<m_dbs, rows, of, made, pc, call, contested>>

ClearsNull(t) == At(t, "clear") /\ call[t].id \in Empty /\ Undefines

\* A look-up or a store meets a store.
Collides(t) == (At(t, "idle") \/ At(t, "create")) /\ Restructured(t) /\ Undefines

-----------------------------------------------------------------------------
(***************************************************************************)
(* The forwarding methods: GET_TABLE, then the table's method.             *)
(***************************************************************************)
Finds(t, op, id, key) ==
    /\ ~Restructured(t) /\ m_dbs[id] # NULL
    /\ Starts(t, "table", op, id, key, m_dbs[id])
    /\ Quiet
    /\ UNCHANGED <<m_dbs, rows, of, made, undefined, contested>>

FindsNothing(t, op, id, key) ==
    /\ At(t, "idle")
    /\ ~Restructured(t) /\ m_dbs[id] = NULL
    /\ Answers(t, op, id, key, FALSE)
    /\ UNCHANGED <<m_dbs, rows, of, made, pc, call, undefined, contested>>

RoomFor(id, keys) == id \notin Empty /\ Cardinality(keys) < MaxRecords

\* What a method returns, and the keys it leaves, given those it finds.  Of the
\* searches only whether the key itself is found matters here.
Ok(op, id, key, keys) ==
    CASE op = "Insert" -> key \notin keys /\ RoomFor(id, keys)
      [] op = "GetNoOfRecords" -> keys # {}
      [] OTHER -> key \in keys
After(op, id, key, keys) ==
    CASE op = "Insert" /\ Ok(op, id, key, keys) -> keys \cup {key}
      [] op = "Delete" -> keys \ {key}
      [] OTHER -> keys

Forwards(t) ==
    LET c == call[t] IN
    /\ At(t, "table") /\ c.op # "Update"
    /\ rows' = [rows EXCEPT ![c.tb] = After(c.op, c.id, c.key, @)]
    /\ Returns(t, Ok(c.op, c.id, c.key, rows[c.tb]))
    /\ UNCHANGED <<m_dbs, of, made, undefined, contested>>

UpdateLooks(t) ==
    /\ At(t, "table") /\ call[t].op = "Update"
    /\ IF call[t].key \in rows[call[t].tb]
       THEN Goes(t, "table", "remove") /\ Quiet /\ UNCHANGED call
       ELSE Returns(t, FALSE)
    /\ UNCHANGED <<m_dbs, rows, of, made, undefined, contested>>

UpdateRemoves(t) ==
    /\ Goes(t, "remove", "put")
    /\ rows' = [rows EXCEPT ![call[t].tb] = @ \ {call[t].key}]
    /\ Quiet
    /\ UNCHANGED <<m_dbs, of, made, call, undefined, contested>>

UpdatePuts(t) ==
    LET c == call[t] IN
    /\ At(t, "put")
    /\ rows' = [rows EXCEPT ![c.tb] = After("Insert", c.id, c.key, @)]
    /\ Returns(t, Ok("Insert", c.id, c.key, rows[c.tb]))
    /\ UNCHANGED <<m_dbs, of, made, undefined, contested>>

Next == \E t \in Threads :
    \/ InitNothing(t) \/ StoreBegins(t) \/ StoreEnds(t) \/ StoreReplaces(t)
    \/ Clears(t) \/ ClearsNull(t) \/ Collides(t)
    \/ Forwards(t) \/ UpdateLooks(t) \/ UpdateRemoves(t) \/ UpdatePuts(t)
    \/ \E id \in Ids :
          \/ InitFinds(t, id) \/ InitCreates(t, id)
          \/ \E op \in Ops, key \in Keys : Finds(t, op, id, key) \/ FindsNothing(t, op, id, key)

Spec == Init /\ [][Next]_vars

-----------------------------------------------------------------------------
\* Types; no table is ever made of the id 0.
TypeOK ==
    /\ m_dbs \in [Ids -> Tables \cup {NULL}] /\ m_dbs[NullId] = NULL
    /\ rows \in [Tables -> SUBSET Keys]
    /\ of \in [Tables -> Ids \cup {NULL}]
    /\ made \in 0 .. MaxTables
    /\ pc \in [Threads -> {"idle", "clear", "create", "store", "table", "remove", "put"}]
    /\ call \in [Threads -> Call \cup {NULL}]
    /\ undefined \in BOOLEAN /\ contested \subseteq Ids

(***************************************************************************)
(* No table is lost: each one made is the one its id leads to, or its Init *)
(* has yet to store it, unless two Inits created the id at once and one    *)
(* replaced the other's (CDbFactory.cpp:15-28).                            *)
(***************************************************************************)
NoTableLost ==
    \A tb \in 1 .. made :
        \/ m_dbs[of[tb]] = tb
        \/ \E t \in Threads : pc[t] \in {"create", "store"} /\ call[t].tb = tb
        \/ of[tb] \in contested
=============================================================================
