-------------------------- MODULE DbRegistryProofs --------------------------
(***************************************************************************)
(* Theorems about DbRegistry, for any threads, ids, keys and sizes, and    *)
(* its refinement of KeyedStore.                                           *)
(*                                                                         *)
(* That no table is lost is not inductive: that a store replaces nothing   *)
(* depends on what the other Inits of its id have done since it looked.    *)
(* CreatesOK says it: until two Inits create an id, it leads nowhere while *)
(* one is creating it.  LooksOK and FreshOK are what the refinement needs  *)
(* besides: the table a call has found is still the one its id leads to,   *)
(* and a table that is not in the registry yet is empty.                   *)
(***************************************************************************)
EXTENDS StoreRefinement, TLAPS

Creating == {"create", "store"}
Working  == {"clear", "table", "remove", "put"}

\* What a thread's place in a call says of the call.
CallsOK == \A t \in Threads : pc[t] # "idle" =>
    /\ call[t] \in Call
    /\ call[t].tb \in 1 .. made /\ of[call[t].tb] = call[t].id
    /\ pc[t] \in Creating \cup {"clear"} => call[t].op = "Init" /\ call[t].id # NullId /\ call[t].key = NULL
    /\ pc[t] = "table" => call[t].op \in Ops /\ call[t].key \in Keys
    /\ pc[t] \in {"remove", "put"} => call[t].op = "Update" /\ call[t].key \in Keys

\* A table is found under the id it was created for.
TablesOK ==
    /\ \A tb \in 1 .. made : of[tb] \in Ids
    /\ \A id \in Ids : m_dbs[id] # NULL => m_dbs[id] \in 1 .. made /\ of[m_dbs[id]] = id

\* Where an id is created by one Init at a time, that Init finds it as it was.
CreatesOK == \A t \in Threads : pc[t] \in Creating /\ call[t].id \notin contested =>
    /\ m_dbs[call[t].id] = NULL
    /\ \A u \in Threads : pc[u] \in Creating /\ call[u].id = call[t].id => u = t

\* The table a call has found is the one its id leads to.
LooksOK == \A t \in Threads : pc[t] \in Working /\ call[t].id \notin contested =>
    m_dbs[call[t].id] = call[t].tb

\* A table that is not in the registry yet has no keys.
FreshOK ==
    /\ \A tb \in Tables : tb > made => rows[tb] = {}
    /\ \A t \in Threads : pc[t] \in Creating /\ call[t].id \notin contested => rows[call[t].tb] = {}

IInv == TypeOK /\ CallsOK /\ TablesOK /\ CreatesOK /\ LooksOK /\ FreshOK /\ NoTableLost

-----------------------------------------------------------------------------
\* The empty registry satisfies the invariant.
LEMMA InitIInv == Init => IInv
<1> SUFFICES ASSUME Init PROVE IInv
    OBVIOUS
<1>1. TypeOK
    <2>1. 0 \in 0 .. MaxTables
        BY SizesAssumption
    <2> QED BY <2>1, IdsAssumption DEF Init, TypeOK
<1>2. CallsOK /\ CreatesOK /\ LooksOK
    BY DEF Init, CallsOK, CreatesOK, LooksOK, Creating, Working
<1>3. TablesOK /\ FreshOK /\ NoTableLost
    BY SizesAssumption DEF Init, TablesOK, FreshOK, NoTableLost, Creating, Tables
<1> QED BY <1>1, <1>2, <1>3 DEF IInv

\* A table number is not NULL.
LEMMA TableNumbers ==
    ASSUME IInv
    PROVE  /\ made \in Nat /\ \A tb \in 1 .. made : tb \in Tables /\ tb # NULL
           /\ \A id \in Ids : m_dbs[id] # NULL => m_dbs[id] \in Tables
BY SizesAssumption, NullAssumption DEF IInv, TypeOK, TablesOK, Tables

(***************************************************************************)
(* A step that leaves the registry as it is and moves one thread from a    *)
(* place where it creates nothing to another such place.                   *)
(***************************************************************************)
LEMMA WorkKeeps ==
    ASSUME IInv, NEW t \in Threads, NEW to \in {"idle"} \cup Working, NEW keys \in SUBSET Keys,
           pc[t] \notin Creating, pc' = [pc EXCEPT ![t] = to],
           (rows' = [rows EXCEPT ![call[t].tb] = keys] /\ pc[t] # "idle") \/ rows' = rows,
           \A u \in Threads \ {t} : call'[u] = call[u],
           call' \in [Threads -> Call \cup {NULL}],
           to # "idle" =>
              /\ \/ call'[t] \in Call /\ call'[t].tb = m_dbs[call'[t].id] /\ m_dbs[call'[t].id] # NULL
                 \/ pc[t] \in Working /\ call'[t] = call[t]
              /\ to = "clear" => call'[t].op = "Init" /\ call'[t].id # NullId /\ call'[t].key = NULL
              /\ to = "table" => call'[t].op \in Ops /\ call'[t].key \in Keys
              /\ to \in {"remove", "put"} => call'[t].op = "Update" /\ call'[t].key \in Keys,
           UNCHANGED <<m_dbs, of, made, undefined, contested>>
    PROVE  IInv'
<1>1. /\ m_dbs' = m_dbs /\ of' = of /\ made' = made /\ undefined' = undefined /\ contested' = contested
      /\ pc'[t] = to /\ \A u \in Threads \ {t} : pc'[u] = pc[u] /\ call'[u] = call[u]
    BY DEF IInv, TypeOK
<1>2. /\ rows' \in [Tables -> SUBSET Keys]
      /\ \A tb \in Tables : rows'[tb] # rows[tb] => pc[t] # "idle" /\ tb = call[t].tb
    BY DEF IInv, TypeOK
<1>3. pc' \in [Threads -> {"idle", "clear", "create", "store", "table", "remove", "put"}]
    BY DEF IInv, TypeOK, Working
<1>4. TypeOK'
    BY <1>1, <1>2, <1>3 DEF IInv, TypeOK
<1>5. to # "idle" =>
         /\ call'[t] \in Call /\ call'[t].tb \in 1 .. made /\ of[call'[t].tb] = call'[t].id
         /\ call'[t].id \notin contested => m_dbs[call'[t].id] = call'[t].tb
    <2>1. CASE pc[t] \in Working /\ call'[t] = call[t]
        BY <2>1 DEF IInv, CallsOK, LooksOK, Working
    <2>2. CASE call'[t] \in Call /\ call'[t].tb = m_dbs[call'[t].id] /\ m_dbs[call'[t].id] # NULL
        BY <2>2 DEF IInv, TablesOK, Call
    <2> QED BY <2>1, <2>2
<1>6. CallsOK'
    BY <1>1, <1>5 DEF IInv, CallsOK, Creating, Working
<1>7. TablesOK'
    BY <1>1 DEF IInv, TablesOK
<1>8. CreatesOK'
    BY <1>1 DEF IInv, CreatesOK, Creating, Working
<1>9. LooksOK'
    BY <1>1, <1>5 DEF IInv, LooksOK, Working
<1>10. FreshOK'
    <2>1. ASSUME NEW tb \in Tables, tb > made PROVE rows'[tb] = {}
        BY <1>2, <2>1, TableNumbers DEF IInv, FreshOK, CallsOK
    <2>2. ASSUME NEW u \in Threads, pc'[u] \in Creating, call'[u].id \notin contested'
          PROVE  rows'[call'[u].tb] = {}
        <3>1. u # t /\ pc[u] \in Creating /\ call'[u] = call[u] /\ call[u].id \notin contested
            BY <1>1, <2>2 DEF Creating, Working
        <3>2. /\ call[u].tb \in 1 .. made /\ of[call[u].tb] = call[u].id /\ call[u].id \in Ids
              /\ m_dbs[call[u].id] = NULL /\ rows[call[u].tb] = {}
            BY <3>1 DEF IInv, CallsOK, CreatesOK, FreshOK, Creating, Call
        <3>3. pc[t] # "idle" => call[t].tb # call[u].tb
            <4>1. ASSUME pc[t] # "idle", call[t].tb = call[u].tb PROVE FALSE
                <5>1. pc[t] \in Working
                    BY <4>1 DEF IInv, TypeOK, Creating, Working
                <5>2. call[t].id = call[u].id
                    BY <3>2, <4>1 DEF IInv, CallsOK
                <5>3. m_dbs[call[t].id] = call[t].tb
                    BY <3>1, <5>1, <5>2 DEF IInv, LooksOK
                <5> QED BY <3>2, <4>1, <5>2, <5>3, TableNumbers
            <4> QED BY <4>1
        <3> QED BY <1>2, <3>1, <3>2, <3>3, TableNumbers
    <2> QED BY <1>1, <2>1, <2>2 DEF FreshOK
<1>11. NoTableLost'
    <2> SUFFICES ASSUME NEW tb \in 1 .. made, m_dbs[of[tb]] # tb, of[tb] \notin contested
                 PROVE  \E u \in Threads : pc'[u] \in Creating /\ call'[u].tb = tb
        BY <1>1 DEF NoTableLost, Creating
    <2>1. PICK u \in Threads : pc[u] \in Creating /\ call[u].tb = tb
        BY DEF IInv, NoTableLost, Creating
    <2> QED BY <1>1, <2>1
<1> QED BY <1>4, <1>6, <1>7, <1>8, <1>9, <1>10, <1>11 DEF IInv

\* A call that returns at once, or that the undefined map stops, changes none of this.
LEMMA NothingKeeps ==
    ASSUME IInv, undefined' \in BOOLEAN, UNCHANGED <<m_dbs, rows, of, made, pc, call, contested>>
    PROVE  IInv'
BY DEF IInv, TypeOK, CallsOK, TablesOK, CreatesOK, LooksOK, FreshOK, NoTableLost

\* An Init that creates takes a table of its own; the id is contested from then on if
\* another Init is creating it.
LEMMA CreateKeeps ==
    ASSUME IInv, NEW t \in Threads, NEW id \in Ids, InitCreates(t, id)
    PROVE  IInv'
<1> DEFINE c == [op |-> "Init", id |-> id, key |-> NULL, tb |-> made + 1]
<1>1. /\ pc[t] = "idle" /\ pc' = [pc EXCEPT ![t] = "create"] /\ call' = [call EXCEPT ![t] = c]
      /\ m_dbs[id] = NULL /\ id # NullId
      /\ made < MaxTables /\ made' = made + 1 /\ of' = [of EXCEPT ![made + 1] = id]
      /\ UNCHANGED <<m_dbs, rows, undefined>>
    BY DEF InitCreates, Creates, Starts, Goes, At
<1>2. contested' = IF \E u \in Threads : pc[u] \in Creating /\ call[u].id = id
                   THEN contested \cup {id} ELSE contested
    BY DEF InitCreates, Creating
<1>3. made \in Nat /\ made + 1 \in Tables /\ made + 1 # NULL
    BY <1>1, SizesAssumption, NullAssumption DEF IInv, TypeOK, Tables
<1>4. c \in Call /\ c.op = "Init" /\ c.id = id /\ c.key = NULL /\ c.tb = made + 1
    BY <1>3 DEF Call
<1> HIDE DEF c
<1>5. /\ pc'[t] = "create" /\ call'[t] = c
      /\ \A u \in Threads \ {t} : pc'[u] = pc[u] /\ call'[u] = call[u]
      /\ of'[made + 1] = id /\ \A tb \in 1 .. made : of'[tb] = of[tb] /\ tb # made + 1
    BY <1>1, <1>3 DEF IInv, TypeOK, Tables
<1>6. TypeOK'
    <2>1. pc' \in [Threads -> {"idle", "clear", "create", "store", "table", "remove", "put"}]
        BY <1>1 DEF IInv, TypeOK
    <2>2. call' \in [Threads -> Call \cup {NULL}]
        BY <1>1, <1>4 DEF IInv, TypeOK
    <2>3. of' \in [Tables -> Ids \cup {NULL}] /\ made' \in 0 .. MaxTables
        BY <1>1, <1>3, SizesAssumption DEF IInv, TypeOK
    <2> QED BY <1>1, <1>2, <2>1, <2>2, <2>3 DEF IInv, TypeOK
<1>7. CallsOK'
    BY <1>1, <1>3, <1>4, <1>5 DEF IInv, CallsOK, Creating
<1>8. TablesOK'
    BY <1>1, <1>3, <1>5 DEF IInv, TypeOK, TablesOK
<1>9. CreatesOK'
    <2> SUFFICES ASSUME NEW u \in Threads, pc'[u] \in Creating, call'[u].id \notin contested'
                 PROVE  /\ m_dbs[call'[u].id] = NULL
                        /\ \A v \in Threads : pc'[v] \in Creating /\ call'[v].id = call'[u].id => v = u
        BY <1>1 DEF CreatesOK
    <2>1. CASE u = t
        BY <1>1, <1>2, <1>4, <1>5, <2>1
    <2>2. CASE u # t
        BY <1>1, <1>2, <1>4, <1>5, <2>2 DEF IInv, CreatesOK
    <2> QED BY <2>1, <2>2
<1>10. LooksOK'
    BY <1>1, <1>2, <1>5 DEF IInv, LooksOK, Working
<1>11. FreshOK'
    <2>1. \A b \in Tables : b > made' => rows'[b] = {}
        BY <1>1, <1>3 DEF IInv, FreshOK, Tables
    <2>2. rows[made + 1] = {}
        BY <1>3 DEF IInv, FreshOK
    <2>3. ASSUME NEW u \in Threads \ {t}, pc'[u] \in Creating, call'[u].id \notin contested'
          PROVE  rows'[call'[u].tb] = {}
        BY <1>1, <1>2, <1>5, <2>3 DEF IInv, FreshOK
    <2> QED BY <1>1, <1>4, <1>5, <2>1, <2>2, <2>3 DEF FreshOK
<1>12. NoTableLost'
    <2> SUFFICES ASSUME NEW tb \in 1 .. made + 1, m_dbs[of'[tb]] # tb, of'[tb] \notin contested'
                 PROVE  \E u \in Threads : pc'[u] \in Creating /\ call'[u].tb = tb
        BY <1>1 DEF NoTableLost, Creating
    <2>1. CASE tb = made + 1
        BY <1>4, <1>5, <2>1 DEF Creating
    <2>2. CASE tb \in 1 .. made
        <3>1. PICK u \in Threads : pc[u] \in Creating /\ call[u].tb = tb
            BY <1>2, <1>5, <2>2 DEF IInv, NoTableLost, Creating
        <3> QED BY <1>1, <1>5, <3>1 DEF Creating
    <2> QED BY <1>3, <2>1, <2>2
<1> QED BY <1>6, <1>7, <1>8, <1>9, <1>10, <1>11, <1>12 DEF IInv

\* An Init that begins to store is where it was, but in the map.
LEMMA BeginsKeeps ==
    ASSUME IInv, NEW t \in Threads, StoreBegins(t)
    PROVE  IInv'
<1>1. /\ pc[t] = "create" /\ pc' = [pc EXCEPT ![t] = "store"]
      /\ UNCHANGED <<m_dbs, rows, of, made, call, undefined, contested>>
    BY DEF StoreBegins, Goes, At
<1>2. /\ pc'[t] = "store" /\ \A u \in Threads \ {t} : pc'[u] = pc[u]
      /\ \A u \in Threads : (pc'[u] \in Creating <=> pc[u] \in Creating)
      /\ \A u \in Threads : (pc'[u] \in Working <=> pc[u] \in Working)
    BY <1>1 DEF IInv, TypeOK, Creating, Working
<1>3. TypeOK'
    BY <1>1 DEF IInv, TypeOK
<1>4. CallsOK'
    BY <1>1, <1>2 DEF IInv, CallsOK, Creating
<1>5. TablesOK' /\ CreatesOK' /\ LooksOK' /\ FreshOK'
    BY <1>1, <1>2 DEF IInv, TablesOK, CreatesOK, LooksOK, FreshOK
<1>6. NoTableLost'
    BY <1>1, <1>2 DEF IInv, NoTableLost, Creating
<1> QED BY <1>3, <1>4, <1>5, <1>6 DEF IInv

\* A store makes its id lead to its table; what it led to before, if anything, was
\* of an id created twice.
LEMMA StoreKeeps ==
    ASSUME IInv, NEW t \in Threads, pc[t] \in Creating, Stores(t),
           pc' = [pc EXCEPT ![t] = "idle"], call' = [call EXCEPT ![t] = NULL],
           UNCHANGED <<rows, of, made, undefined, contested>>
    PROVE  IInv'
<1> DEFINE id == call[t].id
           tb == call[t].tb
<1>1. /\ id \in Ids /\ id # NullId /\ tb \in 1 .. made /\ of[tb] = id /\ tb \in Tables /\ tb # NULL
    BY TableNumbers DEF IInv, CallsOK, Creating, Call
<1>2. /\ pc'[t] = "idle" /\ \A u \in Threads \ {t} : pc'[u] = pc[u] /\ call'[u] = call[u]
      /\ m_dbs'[id] = tb /\ \A i \in Ids \ {id} : m_dbs'[i] = m_dbs[i]
    BY <1>1 DEF Stores, IInv, TypeOK
<1>3. id \notin contested => m_dbs[id] = NULL
    BY DEF IInv, CreatesOK
<1> HIDE DEF id, tb
<1>4. TypeOK'
    <2>1. m_dbs' \in [Ids -> Tables \cup {NULL}] /\ m_dbs'[NullId] = NULL
        BY <1>1, <1>2, IdsAssumption DEF Stores, IInv, TypeOK, id, tb
    <2> QED BY <2>1 DEF IInv, TypeOK
<1>5. CallsOK'
    BY <1>2 DEF IInv, CallsOK
<1>6. TablesOK'
    BY <1>1, <1>2 DEF IInv, TablesOK
<1>7. CreatesOK'
    <2> SUFFICES ASSUME NEW u \in Threads, pc'[u] \in Creating, call'[u].id \notin contested
                 PROVE  /\ m_dbs'[call'[u].id] = NULL
                        /\ \A v \in Threads : pc'[v] \in Creating /\ call'[v].id = call'[u].id => v = u
        BY DEF CreatesOK
    <2>1. u # t /\ pc[u] \in Creating /\ call'[u] = call[u] /\ call[u].id \in Ids
        BY <1>2 DEF IInv, CallsOK, Call, Creating
    <2>2. call[u].id # id
        BY <2>1 DEF IInv, CreatesOK, id
    <2> QED BY <1>2, <2>1, <2>2 DEF IInv, CreatesOK, Creating
<1>8. LooksOK'
    <2> SUFFICES ASSUME NEW u \in Threads, pc'[u] \in Working, call'[u].id \notin contested
                 PROVE  m_dbs'[call'[u].id] = call'[u].tb
        BY DEF LooksOK
    <2>1. u # t /\ pc[u] \in Working /\ call'[u] = call[u] /\ call[u].id \in Ids
        BY <1>2 DEF IInv, CallsOK, Call, Working
    <2>2. m_dbs[call[u].id] = call[u].tb /\ call[u].tb # NULL
        BY <2>1, TableNumbers DEF IInv, LooksOK, CallsOK, Working
    <2> QED BY <1>2, <1>3, <2>1, <2>2
<1>9. FreshOK'
    BY <1>2 DEF IInv, FreshOK, Creating
<1>10. NoTableLost'
    <2> SUFFICES ASSUME NEW b \in 1 .. made, m_dbs'[of[b]] # b, of[b] \notin contested
                 PROVE  \E u \in Threads : pc'[u] \in Creating /\ call'[u].tb = b
        BY DEF NoTableLost, Creating
    <2>1. of[b] \in Ids /\ b # NULL
        BY TableNumbers DEF IInv, TablesOK
    <2>2. m_dbs[of[b]] # b
        BY <1>2, <1>3, <2>1
    <2>3. PICK u \in Threads : pc[u] \in Creating /\ call[u].tb = b
        BY <2>2 DEF IInv, NoTableLost, Creating
    <2>4. u # t
        BY <1>1, <1>2, <2>3 DEF tb
    <2> QED BY <1>2, <2>3, <2>4
<1> QED BY <1>4, <1>5, <1>6, <1>7, <1>8, <1>9, <1>10 DEF IInv

\* A call that finds a table.
LEMMA LookKeeps ==
    ASSUME IInv, NEW t \in Threads, NEW id \in Ids, NEW key \in Keys \cup {NULL}, 
           NEW op \in Ops \cup {"Init"}, NEW to \in {"clear", "table"},
           Starts(t, to, op, id, key, m_dbs[id]), m_dbs[id] # NULL,
           to = "clear" => op = "Init" /\ key = NULL, to = "table" => op \in Ops /\ key \in Keys,
           UNCHANGED <<m_dbs, rows, of, made, undefined, contested>>
    PROVE  IInv'
<1> DEFINE c == [op |-> op, id |-> id, key |-> key, tb |-> m_dbs[id]]
<1>1. /\ pc[t] = "idle" /\ pc' = [pc EXCEPT ![t] = to] /\ call' = [call EXCEPT ![t] = c]
      /\ id # NullId
    BY DEF Starts, Goes, At, IInv, TypeOK
<1>2. c \in Call /\ c.op = op /\ c.id = id /\ c.key = key /\ c.tb = m_dbs[id]
    BY TableNumbers DEF Call
<1> HIDE DEF c
<1>3. /\ call'[t] = c /\ \A u \in Threads \ {t} : call'[u] = call[u]
      /\ call' \in [Threads -> Call \cup {NULL}]
    BY <1>1, <1>2 DEF IInv, TypeOK
<1>4. /\ to \in {"idle"} \cup Working /\ pc[t] \notin Creating /\ {} \in SUBSET Keys
      /\ (rows' = [rows EXCEPT ![call[t].tb] = {}] /\ pc[t] # "idle") \/ rows' = rows
    BY <1>1 DEF Working, Creating
<1>5. to # "idle" =>
         /\ \/ call'[t] \in Call /\ call'[t].tb = m_dbs[call'[t].id] /\ m_dbs[call'[t].id] # NULL
            \/ pc[t] \in Working /\ call'[t] = call[t]
         /\ to = "clear" => call'[t].op = "Init" /\ call'[t].id # NullId /\ call'[t].key = NULL
         /\ to = "table" => call'[t].op \in Ops /\ call'[t].key \in Keys
         /\ to \in {"remove", "put"} => call'[t].op = "Update" /\ call'[t].key \in Keys
    <2>1. call'[t] \in Call /\ call'[t].op = op /\ call'[t].id = id /\ call'[t].key = key /\ call'[t].tb = m_dbs[id]
        BY <1>2, <1>3
    <2> QED BY <1>1, <2>1
<1> QED BY <1>1, <1>3, <1>4, <1>5, WorkKeeps

\* The end of a call that works on a table, whatever keys it leaves.
LEMMA ReturnKeeps ==
    ASSUME IInv, NEW t \in Threads, NEW keys \in SUBSET Keys, pc[t] \in Working,
           pc' = [pc EXCEPT ![t] = "idle"], call' = [call EXCEPT ![t] = NULL],
           rows' = [rows EXCEPT ![call[t].tb] = keys],
           UNCHANGED <<m_dbs, of, made, undefined, contested>>
    PROVE  IInv'
<1>1. pc[t] \notin Creating /\ pc[t] # "idle"
    BY DEF Working, Creating
<1>2. /\ \A u \in Threads \ {t} : call'[u] = call[u]
      /\ call' \in [Threads -> Call \cup {NULL}]
    BY DEF IInv, TypeOK
<1> QED BY <1>1, <1>2, WorkKeeps

\* The next step of an update.
LEMMA MoveKeeps ==
    ASSUME IInv, NEW t \in Threads, NEW to \in {"remove", "put"}, NEW keys \in SUBSET Keys,
           pc[t] \in Working, pc' = [pc EXCEPT ![t] = to],
           call[t].op = "Update" /\ call[t].key \in Keys,
           rows' = [rows EXCEPT ![call[t].tb] = keys],
           UNCHANGED <<m_dbs, of, made, call, undefined, contested>>
    PROVE  IInv'
<1>1. pc[t] \notin Creating /\ pc[t] # "idle"
    BY DEF Working, Creating
<1>2. /\ \A u \in Threads \ {t} : call'[u] = call[u]
      /\ call' \in [Threads -> Call \cup {NULL}] /\ call'[t] = call[t]
    BY DEF IInv, TypeOK
<1> QED BY <1>1, <1>2, WorkKeeps DEF Working

\* What a method leaves of keys are keys.
LEMMA AfterType ==
    ASSUME NEW op, NEW id, NEW key \in Keys, NEW keys \in SUBSET Keys
    PROVE  After(op, id, key, keys) \in SUBSET Keys
BY DEF After

\* Every step of every thread keeps the invariant.
LEMMA NextIInv == IInv /\ [Next]_vars => IInv'
<1> SUFFICES ASSUME IInv, [Next]_vars PROVE IInv'
    OBVIOUS
<1>1. CASE UNCHANGED vars
    BY <1>1 DEF vars, IInv, TypeOK, CallsOK, TablesOK, CreatesOK, LooksOK, FreshOK, NoTableLost
<1>2. ASSUME NEW t \in Threads,
             InitNothing(t) \/ ClearsNull(t) \/ Collides(t)
             \/ \E id \in Ids, op \in Ops, key \in Keys : FindsNothing(t, op, id, key)
      PROVE  IInv'
    <2>1. undefined' \in BOOLEAN /\ UNCHANGED <<m_dbs, rows, of, made, pc, call, contested>>
        BY <1>2 DEF InitNothing, ClearsNull, Collides, Undefines, FindsNothing, IInv, TypeOK
    <2> QED BY <2>1, NothingKeeps
<1>3. ASSUME NEW t \in Threads, NEW id \in Ids, InitFinds(t, id) PROVE IInv'
    <2>1. /\ Starts(t, "clear", "Init", id, NULL, m_dbs[id]) /\ m_dbs[id] # NULL
          /\ UNCHANGED <<m_dbs, rows, of, made, undefined, contested>>
        BY <1>3 DEF InitFinds
    <2>2. /\ NULL \in Keys \cup {NULL} /\ "Init" \in Ops \cup {"Init"} /\ "clear" \in {"clear", "table"}
          /\ "clear" # "table"
        OBVIOUS
    <2> QED BY <2>1, <2>2, LookKeeps
<1>4. ASSUME NEW t \in Threads, NEW id \in Ids, NEW op \in Ops, NEW key \in Keys, Finds(t, op, id, key)
      PROVE  IInv'
    <2>1. /\ Starts(t, "table", op, id, key, m_dbs[id]) /\ m_dbs[id] # NULL
          /\ UNCHANGED <<m_dbs, rows, of, made, undefined, contested>>
        BY <1>4 DEF Finds
    <2>2. key \in Keys \cup {NULL} /\ op \in Ops \cup {"Init"} /\ "table" \in {"clear", "table"}
          /\ "clear" # "table"
        OBVIOUS
    <2> QED BY <2>1, <2>2, LookKeeps
<1>5. ASSUME NEW t \in Threads, StoreEnds(t) \/ StoreReplaces(t) PROVE IInv'
    <2>1. /\ pc[t] \in Creating /\ Stores(t)
          /\ pc' = [pc EXCEPT ![t] = "idle"] /\ call' = [call EXCEPT ![t] = NULL]
          /\ UNCHANGED <<rows, of, made, undefined, contested>>
        BY <1>5 DEF StoreEnds, StoreReplaces, Returns, At, Creating
    <2> QED BY <2>1, StoreKeeps
<1>6. ASSUME NEW t \in Threads, Clears(t) PROVE IInv'
    <2>1. /\ pc[t] \in Working
          /\ pc' = [pc EXCEPT ![t] = "idle"] /\ call' = [call EXCEPT ![t] = NULL]
          /\ rows' = [rows EXCEPT ![call[t].tb] = {}]
          /\ UNCHANGED <<m_dbs, of, made, undefined, contested>>
        BY <1>6 DEF Clears, Returns, At, Working
    <2>2. {} \in SUBSET Keys
        OBVIOUS
    <2> QED BY <2>1, <2>2, ReturnKeeps
<1>7. ASSUME NEW t \in Threads, pc[t] \in Working \ {"clear"}
      PROVE  call[t].key \in Keys /\ call[t].tb \in Tables /\ rows[call[t].tb] \in SUBSET Keys
    BY <1>7, TableNumbers DEF IInv, TypeOK, CallsOK, Working
<1>8. ASSUME NEW t \in Threads, Forwards(t) PROVE IInv'
    <2>1. /\ pc[t] = "table"
          /\ pc' = [pc EXCEPT ![t] = "idle"] /\ call' = [call EXCEPT ![t] = NULL]
          /\ rows' = [rows EXCEPT ![call[t].tb] = After(call[t].op, call[t].id, call[t].key, rows[call[t].tb])]
          /\ UNCHANGED <<m_dbs, of, made, undefined, contested>>
        BY <1>8, Zenon DEF Forwards, Returns, At
    <2>2. pc[t] \in Working /\ pc[t] # "clear"
        BY <2>1 DEF Working
    <2>3. After(call[t].op, call[t].id, call[t].key, rows[call[t].tb]) \in SUBSET Keys
        BY <1>7, <2>2, AfterType
    <2> QED BY <2>1, <2>2, <2>3, ReturnKeeps
<1>9. ASSUME NEW t \in Threads, UpdateLooks(t) PROVE IInv'
    <2>1. /\ pc[t] = "table" /\ call[t].op = "Update"
          /\ \/ pc' = [pc EXCEPT ![t] = "remove"] /\ UNCHANGED call
             \/ pc' = [pc EXCEPT ![t] = "idle"] /\ call' = [call EXCEPT ![t] = NULL]
          /\ UNCHANGED <<m_dbs, rows, of, made, undefined, contested>>
        BY <1>9 DEF UpdateLooks, Goes, Returns, At
    <2>2. pc[t] \in Working /\ pc[t] # "clear"
        BY <2>1 DEF Working
    <2>3. rows' = [rows EXCEPT ![call[t].tb] = rows[call[t].tb]]
        BY <1>7, <2>1, <2>2 DEF IInv, TypeOK
    <2>4. /\ call[t].key \in Keys /\ rows[call[t].tb] \in SUBSET Keys
          /\ UNCHANGED <<m_dbs, of, made, undefined, contested>>
        BY <1>7, <2>1, <2>2
    <2>5. CASE pc' = [pc EXCEPT ![t] = "remove"] /\ UNCHANGED call
        BY <2>1, <2>2, <2>3, <2>4, <2>5, MoveKeeps
    <2>6. CASE pc' = [pc EXCEPT ![t] = "idle"] /\ call' = [call EXCEPT ![t] = NULL]
        BY <2>2, <2>3, <2>4, <2>6, ReturnKeeps
    <2> QED BY <2>1, <2>5, <2>6
<1>10. ASSUME NEW t \in Threads, UpdateRemoves(t) PROVE IInv'
    <2>1. /\ pc[t] = "remove" /\ pc' = [pc EXCEPT ![t] = "put"]
          /\ rows' = [rows EXCEPT ![call[t].tb] = rows[call[t].tb] \ {call[t].key}]
          /\ UNCHANGED <<m_dbs, of, made, call, undefined, contested>>
        BY <1>10, Zenon DEF UpdateRemoves, Goes, At
    <2>2. pc[t] \in Working /\ pc[t] # "clear"
        BY <2>1 DEF Working
    <2>3. /\ call[t].op = "Update" /\ call[t].key \in Keys
          /\ rows[call[t].tb] \ {call[t].key} \in SUBSET Keys
        BY <1>7, <2>1, <2>2 DEF IInv, CallsOK
    <2> QED BY <2>1, <2>2, <2>3, MoveKeeps
<1>11. ASSUME NEW t \in Threads, UpdatePuts(t) PROVE IInv'
    <2>1. /\ pc[t] = "put"
          /\ pc' = [pc EXCEPT ![t] = "idle"] /\ call' = [call EXCEPT ![t] = NULL]
          /\ rows' = [rows EXCEPT ![call[t].tb] = After("Insert", call[t].id, call[t].key, rows[call[t].tb])]
          /\ UNCHANGED <<m_dbs, of, made, undefined, contested>>
        BY <1>11, Zenon DEF UpdatePuts, Returns, At
    <2>2. pc[t] \in Working /\ pc[t] # "clear"
        BY <2>1 DEF Working
    <2>3. After("Insert", call[t].id, call[t].key, rows[call[t].tb]) \in SUBSET Keys
        BY <1>7, <2>2, AfterType
    <2> QED BY <2>1, <2>2, <2>3, ReturnKeeps
<1> QED BY <1>1, <1>2, <1>3, <1>4, <1>5, <1>6, <1>8, <1>9, <1>10, <1>11, CreateKeeps, BeginsKeeps DEF Next

-----------------------------------------------------------------------------
\* The invariant holds in every state of every run of the registry.
THEOREM RegistryIsSound == Spec => []IInv
BY InitIInv, NextIInv, PTL DEF Spec

(***************************************************************************)
(* The types hold, and no interleaving of Inits makes a table of the id 0. *)
(***************************************************************************)
THEOREM RegistryTypesCorrect == Spec => []TypeOK
BY RegistryIsSound, PTL DEF IInv

(***************************************************************************)
(* A table that Init has made is found under its id, or is about to be     *)
(* stored there, for as long as no two Inits create the id at once.        *)
(***************************************************************************)
THEOREM RegistryKeepsTables == Spec => []NoTableLost
BY RegistryIsSound, PTL DEF IInv

-----------------------------------------------------------------------------
(***************************************************************************)
(* The refinement.  While the store is not broken, the table that a call   *)
(* works on is the one of its id, and of that id only.                     *)
(***************************************************************************)
LEMMA KeysChange ==
    ASSUME IInv, contested = {}, NEW t \in Threads, pc[t] \in Working,
           UNCHANGED m_dbs, NEW keys, rows' = [rows EXCEPT ![call[t].tb] = keys]
    PROVE  /\ call[t].id \in Ids /\ dbBar[call[t].id] = rows[call[t].tb]
           /\ rows[call[t].tb] # NULL
           /\ dbBar' = [dbBar EXCEPT ![call[t].id] = keys]
<1> DEFINE id == call[t].id
           tb == call[t].tb
<1>1. id \in Ids /\ tb \in Tables /\ tb # NULL /\ m_dbs[id] = tb /\ of[tb] = id
    BY TableNumbers DEF IInv, CallsOK, LooksOK, Call, Working
<1>2. DOMAIN rows = Tables /\ rows[tb] \in SUBSET Keys
    BY <1>1 DEF IInv, TypeOK
<1>3. \A i \in Ids : m_dbs[i] # NULL => m_dbs[i] \in Tables /\ of[m_dbs[i]] = i
    BY TableNumbers DEF IInv, TablesOK
<1> HIDE DEF id, tb
<1>4. rows'[tb] = keys /\ \A b \in Tables \ {tb} : rows'[b] = rows[b]
    BY <1>1, <1>2 DEF tb
<1>5. dbBar[id] = rows[tb] /\ rows[tb] # NULL
    BY <1>1, <1>2, NoStoreAssumption DEF dbBar
<1>6. dbBar' = [dbBar EXCEPT ![id] = keys]
    <2>1. DOMAIN dbBar = Ids /\ DOMAIN dbBar' = Ids
        BY DEF dbBar
    <2>2. dbBar' = [i \in Ids |-> IF m_dbs[i] = NULL THEN NULL ELSE rows'[m_dbs[i]]]
        BY DEF dbBar
    <2>3. ASSUME NEW i \in Ids PROVE dbBar'[i] = IF i = id THEN keys ELSE dbBar[i]
        <3>1. CASE i = id
            BY <1>1, <1>4, <2>2, <3>1
        <3>2. CASE i # id
            BY <1>1, <1>3, <1>4, <2>2, <3>2 DEF dbBar
        <3> QED BY <3>1, <3>2
    <2>4. [dbBar EXCEPT ![id] = keys] = [i \in Ids |-> IF i = id THEN keys ELSE dbBar[i]]
        BY <2>1
    <2>5. dbBar' = [i \in Ids |-> dbBar'[i]]
        BY <2>2
    <2> QED BY <2>3, <2>4, <2>5
<1> QED BY <1>1, <1>5, <1>6 DEF id, tb

\* A store opens its id, with no keys.
LEMMA StoreOpens ==
    ASSUME IInv, contested = {}, NEW t \in Threads, pc[t] \in Creating, Stores(t), UNCHANGED rows
    PROVE  /\ call[t].id \in Ids /\ call[t].id # NullId
           /\ dbBar' = [dbBar EXCEPT ![call[t].id] = {}]
<1> DEFINE id == call[t].id
           tb == call[t].tb
<1>1. id \in Ids /\ id # NullId /\ tb # NULL /\ rows[tb] = {}
    BY TableNumbers DEF IInv, CallsOK, FreshOK, Call, Creating
<1>2. m_dbs' = [m_dbs EXCEPT ![id] = tb] /\ DOMAIN m_dbs = Ids
    BY DEF Stores, IInv, TypeOK
<1> HIDE DEF id, tb
<1>3. m_dbs'[id] = tb /\ \A i \in Ids \ {id} : m_dbs'[i] = m_dbs[i]
    BY <1>1, <1>2
<1>4. dbBar' = [i \in Ids |-> IF m_dbs'[i] = NULL THEN NULL ELSE rows[m_dbs'[i]]]
    BY DEF dbBar
<1>5. [dbBar EXCEPT ![id] = {}] = [i \in Ids |-> IF i = id THEN {} ELSE dbBar[i]]
    BY DEF dbBar
<1>6. \A i \in Ids : dbBar'[i] = IF i = id THEN {} ELSE dbBar[i]
    BY <1>1, <1>3, <1>4 DEF dbBar
<1>7. dbBar' = [i \in Ids |-> dbBar'[i]]
    BY <1>4
<1>8. dbBar' = [dbBar EXCEPT ![id] = {}]
    BY <1>5, <1>6, <1>7
<1> QED BY <1>1, <1>8 DEF id

\* A thread that is in no update, and enters none, leaves the updates as they are.
LEMMA UpdatesStay ==
    ASSUME IInv, NEW t \in Threads, NEW to, to \notin {"remove", "put"},
           pc[t] \notin {"remove", "put"}, pc' = [pc EXCEPT ![t] = to],
           \A u \in Threads \ {t} : call'[u] = call[u]
    PROVE  updateBar[t] = NULL /\ updateBar' = updateBar
<1>1. pc'[t] = to /\ \A u \in Threads \ {t} : pc'[u] = pc[u]
    BY DEF IInv, TypeOK
<1>2. \A u \in Threads :
         (IF pc'[u] \in {"remove", "put"} THEN [at |-> pc'[u], id |-> call'[u].id, key |-> call'[u].key] ELSE NULL)
         = (IF pc[u] \in {"remove", "put"} THEN [at |-> pc[u], id |-> call[u].id, key |-> call[u].key] ELSE NULL)
    BY <1>1
<1> QED BY <1>2 DEF updateBar

\* A thread's update, when it is at to.
LEMMA UpdateMoves ==
    ASSUME IInv, NEW t \in Threads, NEW to \in {"remove", "put"},
           pc' = [pc EXCEPT ![t] = to], UNCHANGED call
    PROVE  updateBar' = [updateBar EXCEPT ![t] = [at |-> to, id |-> call[t].id, key |-> call[t].key]]
<1> DEFINE u1 == [at |-> to, id |-> call[t].id, key |-> call[t].key]
<1>1. pc'[t] = to /\ \A u \in Threads \ {t} : pc'[u] = pc[u]
    BY DEF IInv, TypeOK
<1>2. \A u \in Threads :
         (IF pc'[u] \in {"remove", "put"} THEN [at |-> pc'[u], id |-> call[u].id, key |-> call[u].key] ELSE NULL)
         = IF u = t THEN u1 ELSE updateBar[u]
    BY <1>1 DEF updateBar
<1> HIDE DEF u1
<1>3. [updateBar EXCEPT ![t] = u1] = [u \in Threads |-> IF u = t THEN u1 ELSE updateBar[u]]
    BY DEF updateBar
<1>4. updateBar' = [u \in Threads |-> IF u = t THEN u1 ELSE updateBar[u]]
    BY <1>2 DEF updateBar
<1>5. updateBar' = [updateBar EXCEPT ![t] = u1]
    BY <1>3, <1>4
<1> QED BY <1>5, Zenon DEF u1

\* Once broken, the store stays broken.
LEMMA BrokenForGood ==
    ASSUME [Next]_vars, undefined \/ contested # {}
    PROVE  (undefined \/ contested # {})'
<1>1. CASE UNCHANGED vars
    BY <1>1 DEF vars
<1>2. ASSUME NEW t \in Threads, InitNothing(t) \/ StoreBegins(t) \/ StoreEnds(t) \/ StoreReplaces(t)
             \/ Clears(t) \/ ClearsNull(t) \/ Collides(t)
      PROVE  (undefined \/ contested # {})'
    BY <1>2 DEF InitNothing, StoreBegins, StoreEnds, StoreReplaces, Clears, ClearsNull, Collides, Undefines
<1>3. ASSUME NEW t \in Threads, Forwards(t) \/ UpdateLooks(t) \/ UpdateRemoves(t) \/ UpdatePuts(t)
      PROVE  (undefined \/ contested # {})'
    BY <1>3 DEF Forwards, UpdateLooks, UpdateRemoves, UpdatePuts
<1>4. ASSUME NEW t \in Threads, NEW id \in Ids, InitFinds(t, id) \/ InitCreates(t, id)
      PROVE  (undefined \/ contested # {})'
    BY <1>4 DEF InitFinds, InitCreates
<1>5. ASSUME NEW t \in Threads, NEW id \in Ids, NEW op \in Ops, NEW key \in Keys,
             Finds(t, op, id, key) \/ FindsNothing(t, op, id, key)
      PROVE  (undefined \/ contested # {})'
    BY <1>5 DEF Finds, FindsNothing
<1> QED BY <1>1, <1>2, <1>3, <1>4, <1>5 DEF Next

(***************************************************************************)
(* Calls that find nothing, and steps inside calls.                        *)
(***************************************************************************)
LEMMA NothingFound ==
    ASSUME IInv, NEW t \in Threads, NEW id \in Ids, NEW op \in Ops, NEW key \in Keys,
           FindsNothing(t, op, id, key)
    PROVE  Store!Promised
<1>1. /\ pc[t] = "idle" /\ m_dbs[id] = NULL /\ Answers(t, op, id, key, FALSE)
      /\ UNCHANGED <<m_dbs, rows, pc, call>>
    BY DEF FindsNothing, At
<1>2. dbBar[id] = NULL /\ updateBar[t] = NULL
    BY <1>1 DEF dbBar, updateBar
<1>3. UNCHANGED <<dbBar, updateBar>>
    BY <1>1 DEF dbBar, updateBar
<1>4. Store!Answers(t, op, id, key, FALSE)
    BY <1>1 DEF Answers, Store!Answers
<1>5. ~Store!Opened(id)
    BY <1>2 DEF Store!Opened
<1>6. CASE op = "Insert"
    <2>1. Store!Insert(t, id, key)
        BY <1>3, <1>4, <1>5, <1>6 DEF Store!Insert, Store!Takes
    <2> QED BY <1>2, <2>1 DEF Store!Promised
<1>7. CASE op = "Delete"
    <2>1. Store!Delete(t, id, key)
        BY <1>3, <1>4, <1>5, <1>7 DEF Store!Delete, Store!Holds
    <2> QED BY <1>2, <2>1 DEF Store!Promised
<1>8. CASE op = "Update"
    <2>1. Store!UpdateFails(t, id, key)
        BY <1>3, <1>4, <1>5, <1>8 DEF Store!UpdateFails, Store!Holds
    <2> QED BY <1>2, <2>1 DEF Store!Promised
<1>9. CASE op \in Lookups
    <2>1. Store!Ask(t, op, id, key)
        BY <1>3, <1>4, <1>5 DEF Store!Ask, Store!Holds
    <2> QED BY <1>2, <1>9, <2>1 DEF Store!Promised
<1> QED BY <1>6, <1>7, <1>8, <1>9 DEF Ops

\* Init opens or empties an id; with the id 0 it does nothing.
LEMMA InitsOpen ==
    ASSUME IInv, contested = {}, NEW t \in Threads,
           InitNothing(t) \/ StoreEnds(t) \/ StoreReplaces(t) \/ Clears(t)
    PROVE  Store!Promised
<1>1. ASSUME NEW id \in Ids, updateBar[t] = NULL, updateBar' = updateBar,
             Answers(t, "Init", id, NULL, TRUE),
             IF id = NullId THEN dbBar' = dbBar ELSE dbBar' = [dbBar EXCEPT ![id] = {}]
      PROVE  Store!Promised
    <2>1. Store!Answers(t, "Init", id, NULL, TRUE)
        BY <1>1 DEF Answers, Store!Answers
    <2>2. Store!Open(t, id)
        BY <1>1, <2>1 DEF Store!Open, Store!Sets
    <2> QED BY <1>1, <2>2 DEF Store!Promised
<1>2. CASE InitNothing(t)
    <2>1. Answers(t, "Init", NullId, NULL, TRUE) /\ updateBar[t] = NULL /\ UNCHANGED <<dbBar, updateBar>>
        BY <1>2 DEF InitNothing, At, dbBar, updateBar
    <2> QED BY <1>1, <2>1, IdsAssumption
<1>3. CASE StoreEnds(t) \/ StoreReplaces(t)
    <2>1. /\ pc[t] \in Creating /\ Stores(t) /\ Returns(t, TRUE) /\ UNCHANGED rows
        BY <1>3 DEF StoreEnds, StoreReplaces, At, Creating
    <2>2. /\ call[t].id \in Ids /\ call[t].id # NullId
          /\ dbBar' = [dbBar EXCEPT ![call[t].id] = {}]
        BY <2>1, StoreOpens
    <2>3. call[t].op = "Init" /\ call[t].key = NULL
        BY <2>1 DEF IInv, CallsOK, Creating
    <2>4. Answers(t, "Init", call[t].id, NULL, TRUE)
        BY <2>1, <2>3 DEF Returns
    <2>5. /\ pc[t] \notin {"remove", "put"} /\ "idle" \notin {"remove", "put"}
          /\ pc' = [pc EXCEPT ![t] = "idle"] /\ \A u \in Threads \ {t} : call'[u] = call[u]
        BY <2>1 DEF Returns, Creating, IInv, TypeOK
    <2>6. updateBar[t] = NULL /\ updateBar' = updateBar
        BY <2>5, UpdatesStay
    <2> QED BY <1>1, <2>2, <2>4, <2>6
<1>4. CASE Clears(t)
    <2>1. /\ pc[t] = "clear" /\ rows' = [rows EXCEPT ![call[t].tb] = {}] /\ Returns(t, TRUE) /\ UNCHANGED m_dbs
        BY <1>4 DEF Clears, At
    <2>2. pc[t] \in Working /\ call[t].op = "Init" /\ call[t].key = NULL /\ call[t].id # NullId
        BY <2>1 DEF IInv, CallsOK, Working
    <2>3. call[t].id \in Ids /\ dbBar' = [dbBar EXCEPT ![call[t].id] = {}]
        BY <2>1, <2>2, KeysChange
    <2>4. Answers(t, "Init", call[t].id, NULL, TRUE)
        BY <2>1, <2>2 DEF Returns
    <2>5. /\ pc[t] \notin {"remove", "put"} /\ "idle" \notin {"remove", "put"}
          /\ pc' = [pc EXCEPT ![t] = "idle"] /\ \A u \in Threads \ {t} : call'[u] = call[u]
        BY <2>1 DEF Returns, IInv, TypeOK
    <2>6. updateBar[t] = NULL /\ updateBar' = updateBar
        BY <2>5, UpdatesStay
    <2> QED BY <1>1, <2>2, <2>3, <2>4, <2>6
<1> QED BY <1>2, <1>3, <1>4

\* The number of keys is counted alike on both sides.
LEMMA SameCardinality == \A S : Store!Cardinality(S) = Cardinality(S)
BY Zenon DEF Store!Cardinality, Cardinality

\* A forwarded call takes effect at once, on the keys of its id.
LEMMA ForwardsActs ==
    ASSUME IInv, contested = {}, NEW t \in Threads, Forwards(t)
    PROVE  Store!Promised
<1> DEFINE op   == call[t].op
           id   == call[t].id
           key  == call[t].key
           keys == rows[call[t].tb]
<1>1. /\ pc[t] = "table" /\ op # "Update" /\ Returns(t, Ok(op, id, key, keys))
      /\ rows' = [rows EXCEPT ![call[t].tb] = After(op, id, key, keys)] /\ UNCHANGED m_dbs
    BY Zenon DEF Forwards, At
<1>2. pc[t] \in Working /\ op \in Ops /\ key \in Keys
    BY <1>1 DEF IInv, CallsOK, Working
<1>3. /\ id \in Ids /\ dbBar[id] = keys /\ keys # NULL
      /\ dbBar' = [dbBar EXCEPT ![id] = After(op, id, key, keys)]
    BY <1>1, <1>2, KeysChange
<1>4. Answers(t, op, id, key, Ok(op, id, key, keys))
    BY <1>1 DEF Returns
<1>5. updateBar[t] = NULL /\ updateBar' = updateBar
    <2>1. /\ pc[t] \notin {"remove", "put"} /\ "idle" \notin {"remove", "put"}
          /\ pc' = [pc EXCEPT ![t] = "idle"] /\ \A u \in Threads \ {t} : call'[u] = call[u]
        BY <1>1 DEF Returns, IInv, TypeOK
    <2> QED BY <2>1, UpdatesStay
<1>6. [dbBar EXCEPT ![id] = keys] = dbBar
    BY <1>3 DEF dbBar
<1> HIDE DEF op, id, key, keys
<1>7. Store!Opened(id) /\ (Store!Holds(id, key) <=> key \in keys)
    BY <1>3 DEF Store!Opened, Store!Holds
<1>8. Store!Takes(id, key) <=> key \notin keys /\ RoomFor(id, keys)
    <2>1. dbBar[id] = keys /\ Store!Opened(id)
        BY <1>3, <1>7
    <2>2. Store!Takes(id, key)
             <=> Store!Opened(id) /\ id \notin Empty /\ key \notin dbBar[id] /\ Cardinality(dbBar[id]) < MaxRecords
        BY SameCardinality, Zenon DEF Store!Takes
    <2> QED BY <2>1, <2>2, Zenon DEF RoomFor
<1>9. Store!Answers(t, op, id, key, Ok(op, id, key, keys))
    BY <1>4 DEF Answers, Store!Answers
<1>10. CASE op = "Insert"
    <2>1. Ok(op, id, key, keys) = Store!Takes(id, key)
        BY <1>8, <1>10 DEF Ok, Store!Takes, Store!Opened, RoomFor
    <2>2. After(op, id, key, keys) = IF Store!Takes(id, key) THEN keys \cup {key} ELSE keys
        BY <1>10, <2>1 DEF After
    <2>3. Store!Insert(t, id, key)
        BY <1>3, <1>5, <1>6, <1>9, <1>10, <2>1, <2>2 DEF Store!Insert, Store!Sets
    <2> QED BY <1>2, <1>3, <1>5, <2>3 DEF Store!Promised
<1>11. CASE op = "Delete"
    <2>1. Ok(op, id, key, keys) = Store!Holds(id, key)
        BY <1>7, <1>11 DEF Ok, Store!Holds, Store!Opened
    <2>2. After(op, id, key, keys) = keys \ {key}
        BY <1>11 DEF After
    <2>3. key \notin keys => keys \ {key} = keys
        OBVIOUS
    <2>4. Store!Delete(t, id, key)
        BY <1>3, <1>5, <1>6, <1>7, <1>9, <1>11, <2>1, <2>2, <2>3 DEF Store!Delete, Store!Sets
    <2> QED BY <1>2, <1>3, <1>5, <2>4 DEF Store!Promised
<1>12. CASE op \in Lookups
    <2>1. Ok(op, id, key, keys) = IF op = "GetNoOfRecords" THEN Store!Opened(id) /\ dbBar[id] # {} ELSE Store!Holds(id, key)
        BY <1>3, <1>7, <1>12 DEF Ok, Lookups, Store!Holds, Store!Opened
    <2>2. After(op, id, key, keys) = keys
        BY <1>12 DEF After, Lookups
    <2>3. Store!Ask(t, op, id, key)
        BY <1>3, <1>5, <1>6, <1>9, <2>1, <2>2 DEF Store!Ask
    <2> QED BY <1>2, <1>3, <1>5, <1>12, <2>3 DEF Store!Promised
<1> QED BY <1>1, <1>2, <1>10, <1>11, <1>12 DEF Ops, op

\* The steps of an update act on the keys of its id.
LEMMA UpdatesAct ==
    ASSUME IInv, contested = {}, NEW t \in Threads,
           UpdateLooks(t) \/ UpdateRemoves(t) \/ UpdatePuts(t)
    PROVE  Store!Promised
<1> DEFINE id   == call[t].id
           key  == call[t].key
           keys == rows[call[t].tb]
<1>1. /\ pc[t] \in {"table", "remove", "put"} /\ call[t].op = "Update" /\ UNCHANGED m_dbs
      /\ pc[t] \in Working /\ key \in Keys
    BY DEF UpdateLooks, UpdateRemoves, UpdatePuts, Goes, At, IInv, CallsOK, Working
<1>2. ASSUME NEW after, rows' = [rows EXCEPT ![call[t].tb] = after]
      PROVE  /\ id \in Ids /\ dbBar[id] = keys /\ keys # NULL
             /\ dbBar' = [dbBar EXCEPT ![id] = after]
    BY <1>1, <1>2, KeysChange
<1>3. CASE UpdateLooks(t)
    <2>1. pc[t] = "table" /\ rows' = rows
        BY <1>3 DEF UpdateLooks, At
    <2>2. rows = [rows EXCEPT ![call[t].tb] = keys] /\ pc[t] \notin {"remove", "put"}
        BY <2>1 DEF IInv, TypeOK
    <2>3. /\ id \in Ids /\ dbBar[id] = keys /\ keys # NULL
          /\ dbBar' = [dbBar EXCEPT ![id] = keys]
        BY <1>2, <2>1, <2>2
    <2>4. dbBar' = dbBar /\ updateBar[t] = NULL
        BY <2>1, <2>2, <2>3 DEF dbBar, updateBar
    <2>5. Store!Holds(id, key) <=> key \in keys
        BY <2>3 DEF Store!Holds, Store!Opened
    <2>6. CASE key \in keys
        <3>1. "remove" \in {"remove", "put"} /\ pc' = [pc EXCEPT ![t] = "remove"] /\ Quiet /\ UNCHANGED call
            BY <1>3, <2>6 DEF UpdateLooks, Goes
        <3>2. updateBar' = [updateBar EXCEPT ![t] = [at |-> "remove", id |-> id, key |-> key]]
            BY <3>1, UpdateMoves
        <3>3. Store!UpdateFinds(t, id, key)
            BY <2>4, <2>5, <2>6, <3>1, <3>2 DEF Store!UpdateFinds, Quiet
        <3> QED BY <1>1, <2>3, <2>4, <3>3 DEF Store!Promised
    <2>7. CASE key \notin keys
        <3>1. Returns(t, FALSE)
            BY <1>3, <2>7 DEF UpdateLooks
        <3>2. /\ "idle" \notin {"remove", "put"}
              /\ pc' = [pc EXCEPT ![t] = "idle"] /\ \A u \in Threads \ {t} : call'[u] = call[u]
            BY <3>1 DEF Returns, IInv, TypeOK
        <3>3. updateBar' = updateBar
            BY <2>2, <3>2, UpdatesStay
        <3>4. Store!Answers(t, "Update", id, key, FALSE)
            BY <1>1, <3>1 DEF Returns, Answers, Store!Answers
        <3>5. Store!UpdateFails(t, id, key)
            BY <2>4, <2>5, <2>7, <3>3, <3>4 DEF Store!UpdateFails
        <3> QED BY <1>1, <2>3, <2>4, <3>5 DEF Store!Promised
    <2> QED BY <2>6, <2>7
<1>4. CASE UpdateRemoves(t)
    <2>1. /\ pc[t] = "remove" /\ pc' = [pc EXCEPT ![t] = "put"] /\ "put" \in {"remove", "put"}
          /\ rows' = [rows EXCEPT ![call[t].tb] = keys \ {key}] /\ Quiet /\ UNCHANGED call
        BY <1>4, Zenon DEF UpdateRemoves, Goes, At
    <2>2. /\ id \in Ids /\ dbBar[id] = keys
          /\ dbBar' = [dbBar EXCEPT ![id] = keys \ {key}]
        BY <1>2, <2>1
    <2>3. updateBar' = [updateBar EXCEPT ![t] = [at |-> "put", id |-> id, key |-> key]]
        BY <2>1, UpdateMoves
    <2>4. updateBar[t] = [at |-> "remove", id |-> id, key |-> key] /\ updateBar[t] # NULL
        BY <1>1, <2>1, <2>2, NoStoreAssumption DEF updateBar
    <2>5. /\ updateBar[t].at = "remove" /\ updateBar[t].id = id /\ updateBar[t].key = key
          /\ [updateBar[t] EXCEPT !.at = "put"] = [at |-> "put", id |-> id, key |-> key]
        BY <2>4
    <2>6. [updateBar EXCEPT ![t].at = "put"] = [updateBar EXCEPT ![t] = [at |-> "put", id |-> id, key |-> key]]
        BY <2>5
    <2>7. Store!Sets(id, keys \ {key})
        BY <2>2 DEF Store!Sets
    <2>8. Store!UpdateRemoves(t)
        BY <2>1, <2>2, <2>3, <2>4, <2>5, <2>6, <2>7 DEF Store!UpdateRemoves, Quiet
    <2> QED BY <2>8 DEF Store!Promised
<1>5. CASE UpdatePuts(t)
    <2>1. /\ pc[t] = "put" /\ Returns(t, Ok("Insert", id, key, keys))
          /\ rows' = [rows EXCEPT ![call[t].tb] = After("Insert", id, key, keys)]
        BY <1>5, Zenon DEF UpdatePuts, At
    <2>2. /\ id \in Ids /\ dbBar[id] = keys /\ keys # NULL
          /\ dbBar' = [dbBar EXCEPT ![id] = After("Insert", id, key, keys)]
        BY <1>2, <2>1
    <2>3. updateBar[t] = [at |-> "put", id |-> id, key |-> key] /\ updateBar[t] # NULL
        BY <1>1, <2>1, <2>2, NoStoreAssumption DEF updateBar
    <2>4. updateBar[t].at = "put" /\ updateBar[t].id = id /\ updateBar[t].key = key
        BY <2>3
    <2>5. updateBar' = [updateBar EXCEPT ![t] = NULL]
        <3>1. pc'[t] = "idle" /\ \A u \in Threads \ {t} : pc'[u] = pc[u] /\ call'[u] = call[u]
            BY <2>1 DEF Returns, IInv, TypeOK
        <3> QED BY <3>1 DEF updateBar
    <2>6. Ok("Insert", id, key, keys) = Store!Takes(id, key)
        <3>1. Store!Takes(id, key) = (dbBar[id] # NULL /\ id \notin Empty /\ key \notin dbBar[id] /\ Cardinality(dbBar[id]) < MaxRecords)
            BY SameCardinality, Zenon DEF Store!Takes, Store!Opened
        <3>2. Ok("Insert", id, key, keys) = (key \notin keys /\ id \notin Empty /\ Cardinality(keys) < MaxRecords)
            BY DEF Ok, RoomFor
        <3> QED BY <2>2, <3>1, <3>2
    <2>7. After("Insert", id, key, keys) = IF Store!Takes(id, key) THEN keys \cup {key} ELSE keys
        BY <2>6 DEF After
    <2>8. [dbBar EXCEPT ![id] = keys] = dbBar
        BY <2>2 DEF dbBar
    <2>9. IF Store!Takes(id, key) THEN dbBar' = [dbBar EXCEPT ![id] = dbBar[id] \cup {key}] ELSE dbBar' = dbBar
        BY <2>2, <2>7, <2>8
    <2>10. Store!Answers(t, "Update", id, key, Store!Takes(id, key))
        BY <1>1, <2>1, <2>6 DEF Returns, Answers, Store!Answers
    <2>11. Store!UpdatePuts(t)
        BY <2>3, <2>4, <2>5, <2>9, <2>10, Zenon DEF Store!UpdatePuts, Store!Sets
    <2> QED BY <2>11 DEF Store!Promised
<1> QED BY <1>3, <1>4, <1>5

\* The empty registry is the empty store.
LEMMA InitRefines == Init => Store!StoreInit
<1> SUFFICES ASSUME Init PROVE Store!StoreInit
    OBVIOUS
<1>1. dbBar = [id \in Ids |-> NULL]
    BY DEF Init, dbBar
<1>2. updateBar = [t \in Threads |-> NULL]
    BY DEF Init, updateBar
<1>3. (undefined \/ contested # {}) = FALSE /\ answer = NoAnswer
    BY DEF Init
<1> QED BY <1>1, <1>2, <1>3 DEF Store!StoreInit

\* Every step of the registry is one of the store, or none.
LEMMA NextRefines == IInv /\ [Next]_vars => [Store!StoreNext]_(Store!storeVars)
<1> SUFFICES ASSUME IInv, [Next]_vars PROVE Store!StoreNext \/ UNCHANGED Store!storeVars
    OBVIOUS
<1>1. CASE (undefined \/ contested # {})'
    BY <1>1 DEF Store!StoreNext
<1>2. CASE UNCHANGED vars
    BY <1>2 DEF vars, Store!storeVars, dbBar, updateBar
<1>3. CASE Next /\ ~(undefined \/ contested # {})'
    <2>1. ~undefined /\ ~undefined' /\ contested = {} /\ contested' = {}
        BY <1>3, BrokenForGood
    <2>2. (undefined \/ contested # {})' = (undefined \/ contested # {})
        BY <2>1
    <2>3. ASSUME Store!Promised \/ Store!Works PROVE Store!StoreNext
        BY <2>2, <2>3 DEF Store!StoreNext
    <2>4. ASSUME answer' = NoAnswer, dbBar' = dbBar, updateBar' = updateBar PROVE Store!Works
        BY <2>4 DEF Store!Works
    <2>5. ASSUME NEW t \in Threads, NEW id \in Ids, NEW op \in Ops, NEW key \in Keys, Finds(t, op, id, key)
          PROVE  Store!Works
        <3>1. /\ Quiet /\ UNCHANGED <<m_dbs, rows>>
              /\ pc' = [pc EXCEPT ![t] = "table"] /\ \A u \in Threads \ {t} : call'[u] = call[u]
              /\ "table" \notin {"remove", "put"} /\ pc[t] \notin {"remove", "put"}
            BY <2>5 DEF Finds, Starts, Goes, At, IInv, TypeOK
        <3>2. updateBar' = updateBar
            BY <3>1, UpdatesStay
        <3>3. dbBar' = dbBar
            BY <3>1 DEF dbBar
        <3> QED BY <2>4, <3>1, <3>2, <3>3 DEF Quiet
    <2>6. ASSUME NEW t \in Threads, InitNothing(t) \/ StoreEnds(t) \/ StoreReplaces(t) \/ Clears(t)
          PROVE  Store!Promised
        BY <2>1, <2>6, InitsOpen
    <2>7. ASSUME NEW t \in Threads, Forwards(t) PROVE Store!Promised
        BY <2>1, <2>7, ForwardsActs
    <2>8. ASSUME NEW t \in Threads, UpdateLooks(t) \/ UpdateRemoves(t) \/ UpdatePuts(t) PROVE Store!Promised
        BY <2>1, <2>8, UpdatesAct
    <2>9. ASSUME NEW t \in Threads, ClearsNull(t) \/ Collides(t) PROVE FALSE
        BY <2>1, <2>9 DEF ClearsNull, Collides, Undefines
    <2>10. ASSUME NEW t \in Threads, NEW id \in Ids, NEW op \in Ops, NEW key \in Keys, FindsNothing(t, op, id, key)
           PROVE  Store!Promised
        BY <2>10, NothingFound
    <2>11. ASSUME NEW t \in Threads, StoreBegins(t) PROVE Store!Works
        <3>1. Quiet /\ UNCHANGED <<m_dbs, rows>> /\ pc' = [pc EXCEPT ![t] = "store"] /\ pc[t] = "create" /\ UNCHANGED call
            BY <2>11 DEF StoreBegins, Goes, At
        <3>2. "store" \notin {"remove", "put"} /\ pc[t] \notin {"remove", "put"}
            BY <3>1
        <3>3. updateBar' = updateBar
            BY <3>1, <3>2, UpdatesStay
        <3>4. dbBar' = dbBar
            BY <3>1 DEF dbBar
        <3> QED BY <2>4, <3>1, <3>3, <3>4 DEF Quiet
    <2>12. ASSUME NEW t \in Threads, NEW id \in Ids, InitFinds(t, id) \/ InitCreates(t, id)
           PROVE  Store!Works
        <3>1. Quiet /\ UNCHANGED <<m_dbs, rows>> /\ pc[t] = "idle"
            BY <2>12 DEF InitFinds, InitCreates, Starts, Goes, At
        <3>2. PICK to \in {"clear", "create"} : pc' = [pc EXCEPT ![t] = to]
            BY <2>12 DEF InitFinds, InitCreates, Starts, Goes
        <3>3. /\ to \notin {"remove", "put"} /\ pc[t] \notin {"remove", "put"}
              /\ \A u \in Threads \ {t} : call'[u] = call[u]
            BY <2>12, <3>1, <3>2 DEF InitFinds, InitCreates, Starts, IInv, TypeOK
        <3>4. updateBar' = updateBar
            BY <3>2, <3>3, UpdatesStay
        <3>5. dbBar' = dbBar
            BY <3>1 DEF dbBar
        <3> QED BY <2>4, <3>1, <3>4, <3>5 DEF Quiet
    <2> QED BY <1>3, <2>3, <2>5, <2>6, <2>7, <2>8, <2>9, <2>10, <2>11, <2>12 DEF Next
<1> QED BY <1>1, <1>2, <1>3

(***************************************************************************)
(* The unlocked registry implements the keyed store: until two Inits       *)
(* create an id at once, or the map or a null pointer is misused, every    *)
(* call acts in one step on the keys of its id (CDbFactory.cpp:12-125).    *)
(***************************************************************************)
THEOREM RegistryImplementsStore == Spec => ImplementsStore
<1>1. Spec => Store!StoreInit /\ [][Store!StoreNext]_(Store!storeVars)
    BY RegistryIsSound, InitRefines, NextRefines, PTL DEF Spec
<1> QED BY <1>1 DEF ImplementsStore, Store!StoreSpec
=============================================================================
