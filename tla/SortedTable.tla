---------------------------- MODULE SortedTable -----------------------------
(***************************************************************************)
(* SortedTable of tvserver/CDbFactory/hsvsrtdb.{h,cpp}, built as in the    *)
(* repository with BIN_SEARCH defined: an array of pointers into a         *)
(* MemoryPool, kept in descending key order and searched by bisection, and *)
(* called by several threads.                                              *)
(*                                                                         *)
(* Every method takes srtdb_mutex first, and only the holder touches the   *)
(* table, so a call is split at the points that matter: taking the mutex,  *)
(* every iteration of a bisection, and the rest of the body up to the      *)
(* unlock.  UpdateRecord is the exception the code makes: it gives the     *)
(* mutex up, calls DeleteRecord and InsertRecord, which each take it       *)
(* again, and takes it once more.                                          *)
(***************************************************************************)
EXTENDS KeyOrder, MemoryPool

CONSTANTS Keys,             \* the keys callers use
          Values,           \* payloads of a record besides its key
          Threads,
          SortingCriteria,  \* the table's configuration: levels that order it
          NoThread,         \* nobody holds the mutex
          NoData,           \* a NULL data argument
          Unused,           \* contents of a pool element that holds no record
          NoCall,           \* the call of a thread that is in no method
          NoAnswer          \* the last step completed no call

ASSUME KeysAssumption == Keys \subseteq [Levels -> Nat]
ASSUME CriteriaAssumption == SortingCriteria \subseteq Levels
ASSUME DistinctAssumption ==
    /\ NoThread \notin Threads
    /\ NoData \notin Values

VARIABLES
    TotNoOfRecords,     \* records in the table
    Data,               \* the sorted array of pointers into the pool
    Buffers,            \* what the pool's elements hold, past the end included
    srtdb_mutex,        \* the thread that holds it, or NoThread
    pc,                 \* where each thread is
    call,               \* the method each thread is in, and its arguments
    updating,           \* is that method called from within UpdateRecord?
    ret,                \* what UpdateRecord's inner calls have returned
    low, hi, index,     \* the holder's bisection locals, and its result
    disturbed,          \* history: the table changed under an UpdateRecord
    answer              \* the call that the last step completed, if any

tableVars == <<FreePtr, FreeList, TotNoOfRecords, Data, Buffers>>
locals    == <<low, hi, index>>
vars == <<FreePtr, FreeList, TotNoOfRecords, Data, Buffers, srtdb_mutex, pc, call,
          updating, ret, low, hi, index, disturbed, answer>>

MaxRecords    == MaxElements    \* the pool is made for MaxRecords (hsvsrtdb.h:87)
INVALID_INDEX == -1
NULL          == -1             \* a NULL pointer in Data
NotWritten    == -2             \* an array cell that `new` left uninitialised

Positions == 0 .. MaxRecords - 1
Record    == [key : Keys, data : Values]

Smaller == 2    \* OperatorSmallerMask
Greater == 4    \* OperatorGreaterMask

(***************************************************************************)
(* Calls.  `arg` is the operator of SearchOnKey2 and the number of leading *)
(* key levels of a SearchOnPrimary... call.  The callers pass data whose   *)
(* key fields are the key arguments, as the table's interface intends.     *)
(***************************************************************************)
Writers == [op : {"InsertRecord", "UpdateRecord"}, key : Keys,
            data : Values \cup {NoData}, arg : {0}]
Lookups ==
    [op : {"DeleteRecord", "QueryOnKey", "SearchOnKey"}, key : Keys, data : {NoData}, arg : {0}]
    \cup [op : {"SearchOnKey2"}, key : Keys, data : {NoData}, arg : {Smaller, Greater}]
    \cup [op : {"SearchOnPrefix"}, key : Keys, data : {NoData}, arg : 1 .. 3]
Calls == Writers \cup Lookups

\* UpdateRecord's inner calls carry its own key and data.
Methods == {"InsertRecord", "UpdateRecord", "DeleteRecord", "QueryOnKey", "SearchOnKey",
            "SearchOnKey2", "SearchOnPrefix"}
AnyCall == [op : Methods, key : Keys, data : Values \cup {NoData}, arg : 0 .. 4]

Init ==
    /\ PoolInit
    /\ TotNoOfRecords = 0
    /\ Data = [i \in Positions |-> NotWritten]
    /\ Buffers = [n \in Nodes |-> Unused]
    /\ srtdb_mutex = NoThread
    /\ pc = [t \in Threads |-> "idle"]
    /\ call = [t \in Threads |-> NoCall]
    /\ updating = [t \in Threads |-> FALSE]
    /\ ret = [t \in Threads |-> FALSE]
    /\ low = 0 /\ hi = 0 /\ index = INVALID_INDEX
    /\ disturbed = [t \in Threads |-> FALSE]
    /\ answer = NoAnswer

-----------------------------------------------------------------------------
(***************************************************************************)
(* Reading the table.                                                      *)
(***************************************************************************)
RecordAt(i) == Buffers[Data[i]]

\* Comparison with the record GetTableDataBuffer(i) points to; it is NULL
\* beyond the last record, and HSVCOMPAREKEY calls any key bigger than NULL.
Compare(criteria, key, i) ==
    IF i < TotNoOfRecords THEN CompareKeys(criteria, key, RecordAt(i).key) ELSE BiggerKey

\* The criteria a call searches with (the masks at hsvsrtdb.cpp:729,791,855).
CriteriaOf(c) ==
    IF c.op = "SearchOnPrefix" THEN SortingCriteria \cap 1 .. c.arg ELSE SortingCriteria

\* Mutation of AgreesAt: the last level is not compared.
AgreesButLast(key, n, i) == \A l \in 1 .. n - 1 : key[l] = RecordAt(i).key[l]

\* Do the first n key levels agree?  The walks of the SearchOnPrimary...
\* methods compare them all, whatever the criteria.
AgreesAt(key, n, i) == \A l \in 1 .. n : key[l] = RecordAt(i).key[l]

-----------------------------------------------------------------------------
(***************************************************************************)
(* Control: entering a method, leaving it.                                 *)
(***************************************************************************)

\* The call c that thread t may start now: any call when it is idle, the
\* one UpdateRecord makes next when it is inside UpdateRecord.
Starts(t, c) ==
    /\ srtdb_mutex = NoThread
    /\ \/ pc[t] = "idle" /\ c \in Calls
       \/ pc[t] = "enter" /\ c = call[t]

\* Take the mutex and begin the bisection `loop` over the whole table, or
\* go straight to `after` when the loop body never runs.
Search(t, c, loop, after, criteria, result) ==
    /\ srtdb_mutex' = t
    /\ call' = [call EXCEPT ![t] = c]
    /\ low' = 0
    /\ hi' = TotNoOfRecords - 1
    /\ index' = result
    /\ pc' = [pc EXCEPT ![t] = IF Primary \in criteria /\ TotNoOfRecords > 0
                               THEN loop ELSE after]

DropLocals == low' = 0 /\ hi' = 0 /\ index' = INVALID_INDEX

\* Thread t's call returns to the caller with this answer.
Reply(t, c, ok, from, to, data) ==
    /\ answer' = [by |-> t, op |-> c.op, key |-> c.key, arg |-> c.arg, given |-> c.data,
                  ok |-> ok, from |-> from, to |-> to, data |-> data]
    /\ pc' = [pc EXCEPT ![t] = "idle"]
    /\ call' = [call EXCEPT ![t] = NoCall]

Fails(t, c) == Reply(t, c, FALSE, 0, 0, NoData)

\* Inside UpdateRecord, go on to `at` for method op with the same arguments.
GoOn(t, op, at) ==
    /\ answer' = NoAnswer
    /\ pc' = [pc EXCEPT ![t] = at]
    /\ call' = [call EXCEPT ![t].op = op]

\* InsertRecord returns ok: to the caller, or to UpdateRecord.
InsertReturns(t, c, ok) ==
    \/ /\ updating[t]
       /\ GoOn(t, "UpdateRecord", "relock")
       /\ ret' = [ret EXCEPT ![t] = ok]
    \/ /\ ~updating[t]
       /\ Reply(t, c, ok, 0, 0, NoData)
       /\ UNCHANGED ret

DeleteReturns(t, c, ok) ==
    \/ /\ updating[t]
       /\ GoOn(t, "InsertRecord", "enter")
       /\ ret' = [ret EXCEPT ![t] = ok]
    \/ /\ ~updating[t]
       /\ Reply(t, c, ok, 0, 0, NoData)
       /\ UNCHANGED ret

Unlock(t) == srtdb_mutex = t /\ srtdb_mutex' = NoThread /\ DropLocals

\* Every UpdateRecord in progress elsewhere sees the table change.
Disturb(t) == disturbed' = [u \in Threads |-> disturbed[u] \/ (u # t /\ updating[u])]

-----------------------------------------------------------------------------
(***************************************************************************)
(* Taking the mutex.                                                       *)
(***************************************************************************)

\* What mBinInsert finds without a loop: the one position of an empty table.
FirstPlace ==
    IF Primary \in SortingCriteria /\ TotNoOfRecords = 0 THEN 0 ELSE INVALID_INDEX

\* Mutation of InsertRecord: the check against MaxRecords is off by one.
InsertOneTooMany(t, c) ==
    /\ Starts(t, c) /\ c.op = "InsertRecord"
    /\ TotNoOfRecords <= MaxRecords
    /\ Search(t, c, "mBinInsert", "placed", SortingCriteria, FirstPlace)
    /\ answer' = NoAnswer
    /\ UNCHANGED <<tableVars, updating, ret, disturbed>>

InsertRecord(t, c) ==
    /\ Starts(t, c) /\ c.op = "InsertRecord"
    /\ TotNoOfRecords < MaxRecords
    /\ Search(t, c, "mBinInsert", "placed", SortingCriteria, FirstPlace)
    /\ answer' = NoAnswer
    /\ UNCHANGED <<tableVars, updating, ret, disturbed>>

\* Mutation of InsertIntoFull: the last place is never used.
InsertOneTooFew(t, c) ==
    /\ Starts(t, c) /\ c.op = "InsertRecord"
    /\ TotNoOfRecords >= MaxRecords - 1
    /\ InsertReturns(t, c, FALSE)
    /\ UNCHANGED <<tableVars, srtdb_mutex, locals, updating, disturbed>>

InsertIntoFull(t, c) ==
    /\ Starts(t, c) /\ c.op = "InsertRecord"
    /\ TotNoOfRecords >= MaxRecords
    /\ InsertReturns(t, c, FALSE)
    /\ UNCHANGED <<tableVars, srtdb_mutex, locals, updating, disturbed>>

\* SearchOnKey2 looks for the insertion position, without InsertRecord's guard.
SearchOnKey2(t, c) ==
    /\ Starts(t, c) /\ c.op = "SearchOnKey2"
    /\ Search(t, c, "mBinInsert", "placed", SortingCriteria, FirstPlace)
    /\ answer' = NoAnswer
    /\ UNCHANGED <<tableVars, updating, ret, disturbed>>

\* All others begin with mBinSearch; UpdateRecord and DeleteRecord skip it
\* on an empty table, where it would find nothing anyway.
SearchFirst(t, c) ==
    /\ Starts(t, c) /\ c.op \notin {"InsertRecord", "SearchOnKey2"}
    /\ Search(t, c, "mBinSearch", "searched", CriteriaOf(c), INVALID_INDEX)
    /\ answer' = NoAnswer
    /\ UNCHANGED <<tableVars, updating, ret, disturbed>>

-----------------------------------------------------------------------------
(***************************************************************************)
(* The bisections: one iteration each.  They compare the same three or one *)
(* records the code does, and leave the loop on an equal key.              *)
(***************************************************************************)
Loops(t, loop, after) ==
    pc' = [pc EXCEPT ![t] = IF low' <= hi' /\ index' = INVALID_INDEX THEN loop ELSE after]

\* Mutation of BinInsertIteration: a key smaller than the last record of the
\* window is placed before that record instead of after it.
BinInsertBeforeLast(t) ==
    LET mid == (low + hi) \div 2
        At(i) == Compare(SortingCriteria, call[t].key, i)
    IN  /\ pc[t] = "mBinInsert"
        /\ IF EqualKey \in {At(low), At(hi), At(mid)}
           THEN index' = INVALID_INDEX /\ pc' = [pc EXCEPT ![t] = "placed"] /\ UNCHANGED <<low, hi>>
           ELSE /\ index' = IF At(hi) = SmallerKey THEN hi
                            ELSE IF At(low) = BiggerKey THEN low ELSE INVALID_INDEX
                /\ low' = IF At(mid) = SmallerKey THEN mid + 1 ELSE low
                /\ hi' = IF At(mid) = BiggerKey THEN mid - 1 ELSE hi
                /\ Loops(t, "mBinInsert", "placed")
        /\ answer' = NoAnswer
        /\ UNCHANGED <<tableVars, srtdb_mutex, call, updating, ret, disturbed>>

BinInsertIteration(t) ==
    LET c   == call[t]
        mid == (low + hi) \div 2
        At(i) == Compare(SortingCriteria, c.key, i)
    IN  /\ pc[t] = "mBinInsert"
        /\ IF EqualKey \in {At(low), At(hi), At(mid)}
           THEN /\ index' = INVALID_INDEX
                /\ pc' = [pc EXCEPT ![t] = "placed"]
                /\ UNCHANGED <<low, hi>>
           ELSE /\ index' = IF At(hi) = SmallerKey THEN hi + 1
                            ELSE IF At(low) = BiggerKey THEN low ELSE INVALID_INDEX
                /\ low' = IF At(mid) = SmallerKey THEN mid + 1 ELSE low
                /\ hi' = IF At(mid) = BiggerKey THEN mid - 1 ELSE hi
                /\ Loops(t, "mBinInsert", "placed")
        /\ answer' = NoAnswer
        /\ UNCHANGED <<tableVars, srtdb_mutex, call, updating, ret, disturbed>>

\* Mutations of BinSearchIteration: the window keeps its middle; the window
\* is halved as if the records stood in ascending order.
BinSearchKeepsMiddle(t) ==
    LET mid == (low + hi) \div 2
        At(i) == Compare(CriteriaOf(call[t]), call[t].key, i)
    IN  /\ pc[t] = "mBinSearch"
        /\ index' = IF At(mid) = EqualKey THEN mid ELSE INVALID_INDEX
        /\ low' = IF At(mid) = SmallerKey THEN mid ELSE low
        /\ hi' = IF At(mid) = BiggerKey THEN mid ELSE hi
        /\ Loops(t, "mBinSearch", "searched")
        /\ answer' = NoAnswer
        /\ UNCHANGED <<tableVars, srtdb_mutex, call, updating, ret, disturbed>>

BinSearchAscending(t) ==
    LET mid == (low + hi) \div 2
        At(i) == Compare(CriteriaOf(call[t]), call[t].key, i)
    IN  /\ pc[t] = "mBinSearch"
        /\ index' = IF At(mid) = EqualKey THEN mid ELSE INVALID_INDEX
        /\ low' = IF At(mid) = BiggerKey THEN mid + 1 ELSE low
        /\ hi' = IF At(mid) = SmallerKey THEN mid - 1 ELSE hi
        /\ Loops(t, "mBinSearch", "searched")
        /\ answer' = NoAnswer
        /\ UNCHANGED <<tableVars, srtdb_mutex, call, updating, ret, disturbed>>

BinSearchIteration(t) ==
    LET c   == call[t]
        mid == (low + hi) \div 2
        At(i) == Compare(CriteriaOf(c), c.key, i)
    IN  /\ pc[t] = "mBinSearch"
        /\ index' = IF At(mid) = EqualKey THEN mid ELSE INVALID_INDEX
        /\ low' = IF At(mid) = SmallerKey THEN mid + 1 ELSE low
        /\ hi' = IF At(mid) = BiggerKey THEN mid - 1 ELSE hi
        /\ Loops(t, "mBinSearch", "searched")
        /\ answer' = NoAnswer
        /\ UNCHANGED <<tableVars, srtdb_mutex, call, updating, ret, disturbed>>

-----------------------------------------------------------------------------
(***************************************************************************)
(* The bodies after the bisection, up to the unlock.                       *)
(***************************************************************************)
After(t, at, op) == pc[t] = at /\ call[t].op = op

Inserts(c) == index # INVALID_INDEX /\ c.data # NoData /\ ~Exhausted

InsertCommits(t) ==
    LET c == call[t] IN
    /\ After(t, "placed", "InsertRecord") /\ Inserts(c)
    /\ \E ptr \in Nodes :
          /\ Malloc(ptr)
          /\ Data' = [i \in Positions |->
                        IF i < index \/ i > TotNoOfRecords THEN Data[i]
                        ELSE IF i = index THEN ptr ELSE Data[i - 1]]
          /\ Buffers' = [Buffers EXCEPT ![ptr] = [key |-> c.key, data |-> c.data]]
    /\ TotNoOfRecords' = TotNoOfRecords + 1
    /\ InsertReturns(t, c, TRUE)
    /\ Unlock(t) /\ Disturb(t) /\ UNCHANGED updating

InsertRefused(t) ==
    LET c == call[t] IN
    /\ After(t, "placed", "InsertRecord") /\ ~Inserts(c)
    /\ InsertReturns(t, c, FALSE)
    /\ Unlock(t) /\ UNCHANGED <<tableVars, updating, disturbed>>

\* The freed element's bytes stay in memory; the model forgets them, so that
\* a later read through a stale pointer would show.
DeleteCommits(t) ==
    LET c == call[t] IN
    /\ After(t, "searched", "DeleteRecord") /\ index # INVALID_INDEX
    /\ Free(Data[index])
    /\ Buffers' = [Buffers EXCEPT ![Data[index]] = Unused]
    /\ TotNoOfRecords' = TotNoOfRecords - 1
    /\ Data' = [i \in Positions |->
                  IF i < index \/ i >= TotNoOfRecords THEN Data[i]
                  ELSE IF i < TotNoOfRecords - 1 THEN Data[i + 1] ELSE NULL]
    /\ DeleteReturns(t, c, TRUE)
    /\ Unlock(t) /\ Disturb(t) /\ UNCHANGED updating

DeleteNotFound(t) ==
    /\ After(t, "searched", "DeleteRecord") /\ index = INVALID_INDEX
    /\ DeleteReturns(t, call[t], FALSE)
    /\ Unlock(t) /\ UNCHANGED <<tableVars, updating, disturbed>>

\* UpdateRecord has found the record: it unlocks and calls DeleteRecord.
UpdateFound(t) ==
    /\ After(t, "searched", "UpdateRecord") /\ index # INVALID_INDEX
    /\ updating' = [updating EXCEPT ![t] = TRUE]
    /\ GoOn(t, "DeleteRecord", "enter")
    /\ Unlock(t) /\ UNCHANGED <<tableVars, ret, disturbed>>

UpdateNotFound(t) ==
    /\ After(t, "searched", "UpdateRecord") /\ index = INVALID_INDEX
    /\ Fails(t, call[t])
    /\ Unlock(t) /\ UNCHANGED <<tableVars, updating, ret, disturbed>>

\* UpdateRecord takes the mutex a last time, only to release it, and returns
\* what InsertRecord returned.
UpdateReturns(t) ==
    /\ pc[t] = "relock" /\ srtdb_mutex = NoThread
    /\ Reply(t, call[t], ret[t], 0, 0, NoData)
    /\ updating' = [updating EXCEPT ![t] = FALSE]
    /\ ret' = [ret EXCEPT ![t] = FALSE]
    /\ disturbed' = [disturbed EXCEPT ![t] = FALSE]
    /\ UNCHANGED <<tableVars, srtdb_mutex, locals>>

QueryReturns(t) ==
    LET c == call[t] IN
    /\ After(t, "searched", "QueryOnKey")
    /\ IF index # INVALID_INDEX
       THEN Reply(t, c, TRUE, 0, 0, RecordAt(index).data) ELSE Fails(t, c)
    /\ Unlock(t) /\ UNCHANGED <<tableVars, updating, ret, disturbed>>

SearchReturns(t) ==
    LET c == call[t] IN
    /\ After(t, "searched", "SearchOnKey")
    /\ IF index # INVALID_INDEX THEN Reply(t, c, TRUE, index, index, NoData) ELSE Fails(t, c)
    /\ Unlock(t) /\ UNCHANGED <<tableVars, updating, ret, disturbed>>

\* SearchOnPrimaryKey, ...AndSecondaryKey, ...SecondaryAndTeritiaryKey: from
\* the record found, walk up and down while the key levels agree.
PrefixReturns(t) ==
    LET c == call[t]
        Agrees(i) == AgreesAt(c.key, c.arg, i)
        from == CHOOSE f \in 0 .. index :
                  (\A i \in f .. index - 1 : Agrees(i)) /\ (f = 0 \/ ~Agrees(f - 1))
        to   == CHOOSE e \in index .. TotNoOfRecords - 1 :
                  /\ \A i \in index + 1 .. e : Agrees(i)
                  /\ e = TotNoOfRecords - 1 \/ ~Agrees(e + 1)
    IN  /\ After(t, "searched", "SearchOnPrefix")
        /\ IF index # INVALID_INDEX THEN Reply(t, c, TRUE, from, to, NoData) ELSE Fails(t, c)
        /\ Unlock(t) /\ UNCHANGED <<tableVars, updating, ret, disturbed>>

\* SearchOnKey2 got no insertion position: the key is there (or the table
\* has no primary key); find it.
Key2SearchesAgain(t) ==
    /\ After(t, "placed", "SearchOnKey2") /\ index = INVALID_INDEX
    /\ Search(t, call[t], "mBinSearch", "searched", SortingCriteria, INVALID_INDEX)
    /\ answer' = NoAnswer
    /\ UNCHANGED <<tableVars, updating, ret, disturbed>>

Key2Returns(t) ==
    LET c == call[t]
        result == IF pc[t] = "placed"
                  THEN IF c.arg = Greater THEN index - 1 ELSE index
                  ELSE IF index # INVALID_INDEX THEN index
                       ELSE IF c.arg = Greater THEN index - 1 ELSE index + 1
    IN  /\ \/ After(t, "searched", "SearchOnKey2")
           \/ After(t, "placed", "SearchOnKey2") /\ index # INVALID_INDEX
        /\ IF result \in 0 .. TotNoOfRecords - 1
           THEN Reply(t, c, TRUE, result, result, NoData) ELSE Fails(t, c)
        /\ Unlock(t) /\ UNCHANGED <<tableVars, updating, ret, disturbed>>

\* QueryOnIndex needs no search: one section of its own.
QueryOnIndex(t, i) ==
    /\ srtdb_mutex = NoThread /\ pc[t] = "idle"
    /\ answer' = [by |-> t, op |-> "QueryOnIndex", ok |-> i < TotNoOfRecords, from |-> i, to |-> i,
                  data |-> IF i < TotNoOfRecords THEN RecordAt(i).data ELSE NoData]
    /\ UNCHANGED <<tableVars, srtdb_mutex, pc, call, updating, ret, locals, disturbed>>

-----------------------------------------------------------------------------
\* Mutation of ClearTable: the pool is not reset.
ClearKeepsPool(t) ==
    /\ srtdb_mutex = NoThread /\ pc[t] = "idle"
    /\ TotNoOfRecords' = 0
    /\ Data' = [i \in Positions |-> NULL]
    /\ Buffers' = [n \in Nodes |-> Unused]
    /\ answer' = [by |-> t, op |-> "ClearTable", ok |-> TRUE]
    /\ Disturb(t)
    /\ UNCHANGED <<poolVars, srtdb_mutex, pc, call, updating, ret, locals>>

(***************************************************************************)
(* ClearTable, called by CDbFactory::Init on a table it has made before.   *)
(***************************************************************************)
ClearTable(t) ==
    /\ srtdb_mutex = NoThread /\ pc[t] = "idle"
    /\ TotNoOfRecords' = 0
    /\ Reset
    /\ Data' = [i \in Positions |-> NULL]
    /\ Buffers' = [n \in Nodes |-> Unused]
    /\ answer' = [by |-> t, op |-> "ClearTable", ok |-> TRUE]
    /\ Disturb(t)
    /\ UNCHANGED <<srtdb_mutex, pc, call, updating, ret, locals>>

Enters(t) == \E c \in Calls \cup {call[t]} :
    InsertRecord(t, c) \/ InsertIntoFull(t, c) \/ SearchOnKey2(t, c) \/ SearchFirst(t, c)

Iterates(t) == BinInsertIteration(t) \/ BinSearchIteration(t)

Leaves(t) ==
    \/ InsertCommits(t) \/ InsertRefused(t) \/ DeleteCommits(t) \/ DeleteNotFound(t)
    \/ UpdateFound(t) \/ UpdateNotFound(t) \/ QueryReturns(t) \/ SearchReturns(t)
    \/ PrefixReturns(t) \/ Key2SearchesAgain(t) \/ Key2Returns(t)

Whole(t) == UpdateReturns(t) \/ ClearTable(t) \/ \E i \in 0 .. MaxRecords : QueryOnIndex(t, i)

Next == \E t \in Threads : Enters(t) \/ Iterates(t) \/ Leaves(t) \/ Whole(t)

\* A thread that holds the mutex keeps running.  Nothing is assumed about
\* who gets a free mutex, or about callers calling at all.
Fairness == \A t \in Threads : WF_vars(Iterates(t) \/ Leaves(t))

Spec == Init /\ [][Next]_vars /\ Fairness

-----------------------------------------------------------------------------
(***************************************************************************)
(* Properties.                                                             *)
(***************************************************************************)
Slots == 0 .. TotNoOfRecords - 1    \* the positions in use

Pcs == {"idle", "enter", "mBinInsert", "mBinSearch", "placed", "searched", "relock"}

(***************************************************************************)
(* Types.                                                                  *)
(***************************************************************************)
TypeOK ==
    /\ PoolTypeOK
    /\ TotNoOfRecords \in 0 .. MaxRecords
    /\ Data \in [Positions -> Nodes \cup {NULL, NotWritten}]
    /\ Buffers \in [Nodes -> Record \cup {Unused}]
    /\ srtdb_mutex \in Threads \cup {NoThread}
    /\ pc \in [Threads -> Pcs]
    /\ call \in [Threads -> AnyCall \cup {NoCall}]
    /\ updating \in [Threads -> BOOLEAN]
    /\ ret \in [Threads -> BOOLEAN]
    /\ low \in 0 .. MaxRecords
    /\ hi \in -1 .. MaxRecords
    /\ index \in -1 .. MaxRecords
    /\ disturbed \in [Threads -> BOOLEAN]

(***************************************************************************)
(* The array and the pool agree: the positions in use point to different   *)
(* elements, all inside Buffers, and those are exactly the elements marked *)
(* as handed out.  No record is lost, doubled or freed under the table by  *)
(* any interleaving of insert, delete, update and clear.                   *)
(***************************************************************************)
NoLeakNoAlias ==
    /\ \A i \in Slots : Data[i] \in Elements /\ HandedOut(Data[i])
    /\ \A i, j \in Slots : Data[i] = Data[j] => i = j
    /\ \A e \in Elements : HandedOut(e) => \E i \in Slots : Data[i] = e

(***************************************************************************)
(* The pool's terminal node, whose address lies past the end of Buffers,   *)
(* is never handed to the table: InsertRecord's check against MaxRecords   *)
(* (hsvsrtdb.cpp:361) covers for MemoryPool::Malloc, which has none.       *)
(***************************************************************************)
NeverPastEnd == ~HandedOut(PastEnd) /\ Buffers[PastEnd] = Unused

(***************************************************************************)
(* Records stand in strictly descending key order: the bisections of       *)
(* insert and search agree on the order, and no key occurs twice.          *)
(***************************************************************************)
StrictlySorted ==
    \A i, j \in Slots : i < j =>
        CompareKeys(SortingCriteria, RecordAt(i).key, RecordAt(j).key) = BiggerKey

(***************************************************************************)
(* The window of a bisection always contains what it looks for: every      *)
(* record left of low is bigger than the key, every record right of hi is  *)
(* smaller, so neither bisection misses a record or a position.            *)
(***************************************************************************)
Window(t) ==
    /\ 0 <= low /\ low <= hi /\ hi < TotNoOfRecords /\ index = INVALID_INDEX
    /\ \A i \in 0 .. low - 1 : Compare(CriteriaOf(call[t]), call[t].key, i) = SmallerKey
    /\ \A i \in hi + 1 .. TotNoOfRecords - 1 :
          Compare(CriteriaOf(call[t]), call[t].key, i) = BiggerKey

WindowSound == \A t \in Threads : pc[t] \in {"mBinInsert", "mBinSearch"} => Window(t)

\* The positions a call is about: those of equal keys, or of keys not on the
\* other side of SearchOnKey2's.
Hits(c) == {i \in Slots :
    LET comparison == Compare(CriteriaOf(c), c.key, i) IN
    IF c.op # "SearchOnKey2" THEN comparison = EqualKey
    ELSE IF c.arg = Greater THEN comparison # BiggerKey ELSE comparison # SmallerKey}

(***************************************************************************)
(* Every answer is exact at the moment it is given: a query finds a record *)
(* if and only if there is one; a range covers all the records that agree  *)
(* on the key levels compared, and only those; SearchOnKey2 returns the    *)
(* nearest record that is not smaller (greater operator) or not bigger     *)
(* (smaller operator) than the key.                                        *)
(***************************************************************************)
AnswersExact ==
    answer # NoAnswer /\ answer.op \in {"QueryOnKey", "SearchOnKey", "SearchOnKey2", "SearchOnPrefix"} =>
        LET hits == Hits(answer) IN
        /\ answer.ok <=> hits # {}
        /\ answer.ok =>
              CASE answer.op = "QueryOnKey" -> \E i \in hits : hits = {i} /\ RecordAt(i).data = answer.data
                [] answer.op = "SearchOnKey2" ->
                     /\ answer.from \in hits
                     /\ \A i \in hits : IF answer.arg = Greater THEN i <= answer.from
                                                              ELSE i >= answer.from
                [] OTHER -> hits = answer.from .. answer.to

(***************************************************************************)
(* An UpdateRecord that found its record, and under which no other thread  *)
(* changed the table while it had given the mutex up, puts the new record  *)
(* in its place.  (If the table did change, the update may fail after its  *)
(* delete, and the record is gone; with NULL data it always is.)           *)
(***************************************************************************)
LoneUpdateSucceeds ==
    \A t \in Threads :
        pc[t] = "relock" /\ ~disturbed[t] => (ret[t] <=> call[t].data # NoData)

(***************************************************************************)
(* A thread that takes the mutex releases it: both bisections terminate.   *)
(***************************************************************************)
MutexReleased == srtdb_mutex # NoThread ~> srtdb_mutex = NoThread
=============================================================================
