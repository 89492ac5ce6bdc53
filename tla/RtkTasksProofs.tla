--------------------------- MODULE RtkTasksProofs ---------------------------
(***************************************************************************)
(* Theorems about RtkTasks, for any callers, slots, tasks and halts.       *)
(***************************************************************************)
EXTENDS RtkTasks, WellFoundedInduction, TLAPS

\* Where a thread uses `this`, and where it has claimed a task and not joined it.
UsesThis == {"test", "set", "lock", "unlock", "claim", "claimed", "passed", "kill", "join"}
Claims(u, o) == pc[u] \in {"claimed", "kill", "join"} /\ This(u) = o

\* Only a thread that has begun is in a call, and its locals are set.
CallsOK == \A t \in Threads :
    /\ pc[t] = "idle" => local[t] = NoLocals
    /\ pc[t] # "idle" /\ t \in Tasks => at[t] \in {"running", "ended"}
    /\ pc[t] \in InCreate => local[t].new \in 1 .. made /\ Slot(t) \in Slots
    /\ pc[t] \in InCreate \ {"store"} => m_threads[Slot(t)] # NULL
    /\ pc[t] \in UsesThis => This(t) \in Tasks
    /\ pc[t] \in InHalt \ {"visit"} => Slot(t) \in Slots

\* An object that is not yet in the table is in its initial state, and only its maker has it.
Unstored(o) == o > made \/ \E t \in Threads : pc[t] = "store" /\ local[t].new = o

FreshOK ==
    /\ \A o \in Tasks : Unstored(o) =>
          /\ at[o] = "none" /\ m_state[o] = "RUN_STATE_INIT" /\ m_runnable[o] = NULL
          /\ \A i \in Slots : m_threads[i] # o
          /\ \A t \in Threads : pc[t] \in UsesThis => This(t) # o
    /\ \A t, u \in Threads :
          pc[t] \in InCreate /\ pc[u] \in InCreate /\ local[t].new = local[u].new => t = u

\* A TaskCreate without a rival finds its slot and its object as it left them.
AloneOK == \A t \in Threads : Creating(t) /\ local[t].alone =>
    /\ \A u \in Threads : Creating(u) => u = t
    /\ m_threads[Slot(t)] = IF pc[t] = "store" THEN NULL ELSE local[t].new
    /\ pc[t] \in {"test", "set", "lock", "unlock"} => This(t) = local[t].new
    /\ pc[t] \in {"post", "test", "set"} => m_runnable[local[t].new] = NULL
    /\ pc[t] \in {"post", "test", "set", "lock"} => m_state[local[t].new] = "RUN_STATE_INIT"
    /\ pc[t] \in {"lock", "unlock"} => m_runnable[local[t].new] = local[t].new
    /\ pc[t] = "unlock" => at[local[t].new] # "none"

\* No TaskCreate under way is about to change what a handle names.
CreatedOK ==
    /\ HandleNamesTask
    /\ \A c \in created, t \in Threads : Creating(t) =>
          /\ pc[t] = "store" => Slot(t) # c.handle
          /\ pc[t] = "set" => This(t) # c.task

\* Without a handler no thread has got past installing it, and only then the process ends.
SignalsOK ==
    /\ ~armed => \A o \in Tasks : at[o] \in {"none", "created"}
    /\ aborted => ~armed

\* A task that runs has been started, and one that is halted has ended or is about to be joined.
StatesOK == \A o \in Tasks :
    /\ at[o] # "none" => m_state[o] # "RUN_STATE_INIT"
    /\ m_state[o] = "RUN_STATE_HALTED" => at[o] = "ended" \/ \E u \in Threads : Claims(u, o)

\* What a Halt is to end and finds at its slot is what it works on.
DueOK == \A t \in Threads : pc[t] \in InHalt =>
    /\ \A d \in local[t].due : at[d] # "none"
    /\ pc[t] # "visit" /\ m_threads[Slot(t)] \in local[t].due => This(t) = m_threads[Slot(t)]
    /\ pc[t] = "passed" /\ This(t) \in local[t].due => m_state[This(t)] = "RUN_STATE_HALTED"

IInv ==
    /\ TypeOK /\ CallsOK /\ FreshOK /\ AloneOK /\ CreatedOK /\ SignalsOK
    /\ StatesOK /\ DueOK /\ HaltEndsAll

-----------------------------------------------------------------------------
\* The least of some natural numbers is one of them.
LEMMA MinIn ==
    ASSUME NEW S, S \subseteq Nat, S # {}
    PROVE  Min(S) \in S /\ \A y \in S : Min(S) =< y
<1> DEFINE R == {p \in Nat \X Nat : p[1] < p[2]}
<1>1. IsWellFoundedOn(R, Nat)
    BY NatLessThanWellFounded DEF OpToRel
<1>2. \A x, y \in Nat : y < x => <<y, x>> \in R
    OBVIOUS
<1>3. \E x \in S : \A y \in S : <<y, x>> \notin R
    <2> HIDE DEF R
    <2> QED BY <1>1, WFMin
<1>4. \E x \in S : \A y \in S : x =< y
    <2> HIDE DEF R
    <2>1. PICK x \in S : \A y \in S : <<y, x>> \notin R
        BY <1>3
    <2>2. \A y \in S : ~ (y < x) /\ x \in Nat /\ y \in Nat
        BY <1>2, <2>1
    <2> QED BY <2>2
<1> QED BY <1>4 DEF Min

\* A thread outside TaskCreate and Halt has no locals; in them it sets one at a time.
LEMMA LocalsSet ==
    /\ NoLocals \in Locals
    /\ NoLocals.i = 0 /\ NoLocals.new = NULL /\ NoLocals.this = NULL
    /\ NoLocals.alone = TRUE /\ NoLocals.due = {}
    /\ \A l \in Locals :
          /\ l.i \in 0 .. MAX_THREADS /\ l.new \in Tasks \cup {NULL} /\ l.this \in Tasks \cup {NULL}
          /\ l.alone \in BOOLEAN /\ l.due \in SUBSET Tasks
          /\ [l EXCEPT !.alone = FALSE] \in Locals
          /\ \A i \in 0 .. MAX_THREADS : [l EXCEPT !.i = i] \in Locals
          /\ \A o \in Tasks \cup {NULL} : [l EXCEPT !.this = o] \in Locals
          /\ \A d \in SUBSET Tasks : [l EXCEPT !.due = d] \in Locals
<1>1. NoLocals \in Locals
    BY BoundsAssumption DEF NoLocals, Locals
<1>2. /\ NoLocals.i = 0 /\ NoLocals.new = NULL /\ NoLocals.this = NULL
      /\ NoLocals.alone = TRUE /\ NoLocals.due = {}
    BY DEF NoLocals
<1>3. ASSUME NEW l \in Locals
      PROVE  /\ l.i \in 0 .. MAX_THREADS /\ l.new \in Tasks \cup {NULL} /\ l.this \in Tasks \cup {NULL}
             /\ l.alone \in BOOLEAN /\ l.due \in SUBSET Tasks
             /\ [l EXCEPT !.alone = FALSE] \in Locals
    BY DEF Locals
<1>4. ASSUME NEW l \in Locals, NEW i \in 0 .. MAX_THREADS PROVE [l EXCEPT !.i = i] \in Locals
    BY DEF Locals
<1>5. ASSUME NEW l \in Locals, NEW o \in Tasks \cup {NULL} PROVE [l EXCEPT !.this = o] \in Locals
    BY DEF Locals
<1>6. ASSUME NEW l \in Locals, NEW d \in SUBSET Tasks PROVE [l EXCEPT !.due = d] \in Locals
    BY DEF Locals
<1> QED BY <1>1, <1>2, <1>3, <1>4, <1>5, <1>6

\* TaskCreate takes a free slot and a new object; of the other threads it changes
\* only whether they are alone.
LEMMA TaskCreateLocals ==
    ASSUME TypeOK, NEW t \in Threads, TaskCreate(t)
    PROVE  /\ local' \in [Threads -> Locals]
           /\ local'[t].i \in Slots /\ m_threads[local'[t].i] = NULL
           /\ local'[t].new = made + 1 /\ made + 1 \in Tasks
           /\ local'[t].this = NULL /\ local'[t].due = {}
           /\ local'[t].alone => \A u \in Threads : Creating(u) => u = t
           /\ \A u \in Threads \ {t} :
                 /\ local'[u].i = local[u].i /\ local'[u].new = local[u].new
                 /\ local'[u].this = local[u].this /\ local'[u].due = local[u].due
                 /\ Creating(u) => ~ local'[u].alone
                 /\ ~ Creating(u) => local'[u] = local[u]
<1> DEFINE alone == ~ \E v \in Threads : v # t /\ Creating(v)
           first == [i |-> Min(FreeSlots), new |-> made', this |-> NULL, alone |-> alone, due |-> {}]
<1>0. FreeSlots # {} /\ made < MaxTasks /\ made' = made + 1
    BY Zenon DEF TaskCreate
<1>1. Min(FreeSlots) \in Slots /\ m_threads[Min(FreeSlots)] = NULL
    <2>1. FreeSlots \subseteq Nat
        BY BoundsAssumption DEF FreeSlots, Slots
    <2>2. Min(FreeSlots) \in FreeSlots
        BY <1>0, <2>1, MinIn
    <2> QED BY <2>2 DEF FreeSlots
<1>2. made' = made + 1 /\ made + 1 \in Tasks
    BY <1>0, BoundsAssumption DEF TypeOK, Tasks
<1>3. /\ first \in Locals
      /\ first.i = Min(FreeSlots) /\ first.new = made' /\ first.alone = alone
      /\ first.this = NULL /\ first.due = {}
    <2>1. alone \in BOOLEAN
        OBVIOUS
    <2>2. Min(FreeSlots) \in 0 .. MAX_THREADS
        BY <1>1, BoundsAssumption DEF Slots
    <2> HIDE DEF alone
    <2> QED BY <1>2, <2>1, <2>2 DEF Locals
<1> HIDE DEF first
<1>4. local' = [u \in Threads |-> IF u = t THEN first
                ELSE IF u # t /\ Creating(u) THEN [local[u] EXCEPT !.alone = FALSE] ELSE local[u]]
    BY DEF TaskCreate, first
<1>5. local'[t] = first
    BY <1>4
<1>6. \A u \in Threads : local[u] \in Locals
    BY DEF TypeOK
<1>7. ASSUME NEW u \in Threads \ {t}
      PROVE  /\ local'[u] \in Locals
             /\ local'[u].i = local[u].i /\ local'[u].new = local[u].new
             /\ local'[u].this = local[u].this /\ local'[u].due = local[u].due
             /\ Creating(u) => ~ local'[u].alone
             /\ ~ Creating(u) => local'[u] = local[u]
    <2>1. CASE Creating(u)
        <3>1. local'[u] = [local[u] EXCEPT !.alone = FALSE]
            BY <1>4, <2>1
        <3> QED BY <1>6, <2>1, <3>1 DEF Locals
    <2>2. CASE ~ Creating(u)
        BY <1>4, <1>6, <2>2
    <2> QED BY <2>1, <2>2
<1>8. local' \in [Threads -> Locals]
    BY <1>3, <1>4, <1>5, <1>7
<1> QED BY <1>1, <1>2, <1>3, <1>5, <1>7, <1>8

-----------------------------------------------------------------------------
\* Nothing has begun.
LEMMA InitIInv ==
    Init => IInv
<1> SUFFICES ASSUME Init PROVE IInv
    OBVIOUS
<1>1. TypeOK
    <2>1. local \in [Threads -> Locals]
        BY LocalsSet DEF Init
    <2>2. made \in 0 .. MaxTasks /\ halts \in 0 .. MaxHalts
        BY BoundsAssumption DEF Init
    <2> QED BY <2>1, <2>2 DEF Init, TypeOK
<1>2. CallsOK /\ FreshOK /\ AloneOK /\ DueOK /\ HaltEndsAll
    BY BoundsAssumption, CallersAssumption
       DEF Init, CallsOK, FreshOK, AloneOK, DueOK, HaltEndsAll, InCreate, InHalt, UsesThis, Creating,
           Threads, Tasks, Slots
<1>3. CreatedOK /\ SignalsOK /\ StatesOK
    BY DEF Init, CreatedOK, HandleNamesTask, SignalsOK, StatesOK
<1> QED BY <1>1, <1>2, <1>3 DEF IInv

\* TaskCreate takes a slot and an object nobody else has.
LEMMA TaskCreateKeeps ==
    ASSUME IInv, NEW t \in Threads, TaskCreate(t)
    PROVE  IInv'
<1>0. /\ local' \in [Threads -> Locals]
      /\ local'[t].i \in Slots /\ m_threads[local'[t].i] = NULL
      /\ local'[t].new = made + 1 /\ made + 1 \in Tasks
      /\ local'[t].this = NULL /\ local'[t].due = {}
      /\ local'[t].alone => \A u \in Threads : Creating(u) => u = t
      /\ \A u \in Threads \ {t} :
            /\ local'[u].i = local[u].i /\ local'[u].new = local[u].new
            /\ local'[u].this = local[u].this /\ local'[u].due = local[u].due
            /\ Creating(u) => ~ local'[u].alone
            /\ ~ Creating(u) => local'[u] = local[u]
      /\ Runs(t) /\ pc[t] = "idle" /\ pc' = [pc EXCEPT ![t] = "store"] /\ made' = made + 1
      /\ UNCHANGED <<m_threads, m_mutex, m_state, m_runnable, at, armed, signalled, aborted, halts, created>>
    BY TaskCreateLocals, Zenon DEF TaskCreate, Goes, objects, signals, IInv
<1>1. TypeOK'
    BY <1>0, BoundsAssumption DEF InCreate, objects, signals, IInv, TypeOK, Tasks
<1>2. CallsOK'
    <2> SUFFICES ASSUME NEW u \in Threads
                 PROVE  CallsOK!(u)'
        BY DEF CallsOK
    <2>1. CASE u = t
        BY <1>0, <2>1, BoundsAssumption DEF Runs, InCreate, InHalt, UsesThis, Slot, IInv, TypeOK, Tasks
    <2>2. CASE u # t
        BY <1>0, <2>2 DEF CallsOK, Creating, Runs, InCreate, InHalt, UsesThis, Slot, This, IInv, TypeOK
    <2> QED BY <2>1, <2>2
<1>3. FreshOK'
    <2>1. \A o \in Tasks : Unstored(o)' => Unstored(o) 
        <3>1. \A u \in Threads \ {t} : pc'[u] = pc[u] /\ local'[u].new = local[u].new
            BY <1>0
        <3>2. made \in Nat /\ made' = made + 1 /\ local'[t].new = made + 1
            BY <1>0, BoundsAssumption DEF IInv, TypeOK
        <3> QED BY <3>1, <3>2 DEF Unstored, Tasks
    <2>2. \A u \in Threads : pc'[u] \in UsesThis => pc[u] \in UsesThis /\ This(u)' = This(u)
        BY <1>0 DEF UsesThis, This
    <2>3. ASSUME NEW u \in Threads, pc[u] \in InCreate
          PROVE  u # t /\ local'[u].new = local[u].new /\ local'[u].new # local'[t].new
        BY <1>0, <2>3, BoundsAssumption DEF CallsOK, InCreate, IInv, TypeOK
    <2>4. \A u \in Threads : pc'[u] \in InCreate => u = t \/ pc[u] \in InCreate
        BY <1>0
    <2>5. \A u, v \in Threads :
             pc'[u] \in InCreate /\ pc'[v] \in InCreate /\ local'[u].new = local'[v].new => u = v
        BY <2>3, <2>4 DEF FreshOK, IInv
    <2>6. UNCHANGED <<m_threads, m_state, m_runnable, at>>
        BY <1>0
    <2> QED BY <2>1, <2>2, <2>5, <2>6 DEF FreshOK, IInv
<1>4. AloneOK'
    <2> SUFFICES ASSUME NEW u \in Threads, Creating(u)', local'[u].alone
                 PROVE  AloneOK!(u)!2'
        BY DEF AloneOK
    <2>1. u = t
        BY <1>0 DEF Creating, Runs
    <2>2. \A v \in Threads : Creating(v)' => v = t
        BY <1>0, <2>1 DEF Creating, Runs
    <2>3. pc'[t] = "store" /\ m_threads'[local'[t].i] = NULL
        BY <1>0 DEF IInv, TypeOK
    <2> QED BY <2>1, <2>2, <2>3 DEF Slot
<1>5. CreatedOK'
    <2>1. HandleNamesTask'
        BY <1>0 DEF CreatedOK, HandleNamesTask, IInv
    <2>2. ASSUME NEW c \in created, NEW u \in Threads, Creating(u)'
          PROVE  /\ pc'[u] = "store" => Slot(u)' # c.handle
                 /\ pc'[u] = "set" => This(u)' # c.task
        <3>1. CASE u = t
            <4>1. m_threads[c.handle] # NULL
                BY CallersAssumption DEF CreatedOK, HandleNamesTask, IInv, TypeOK, Threads
            <4> QED BY <1>0, <3>1, <4>1 DEF Slot
        <3>2. CASE u # t
            BY <1>0, <2>2, <3>2 DEF CreatedOK, Creating, Runs, Slot, This, IInv
        <3> QED BY <3>1, <3>2
    <2> QED BY <1>0, <2>1, <2>2 DEF CreatedOK
<1>6. SignalsOK'
    BY <1>0 DEF SignalsOK, IInv
<1>7. StatesOK'
    BY <1>0 DEF StatesOK, Claims, This, IInv
<1>8. DueOK'
    BY <1>0 DEF DueOK, InHalt, Slot, This, IInv
<1>9. HaltEndsAll'
    BY <1>0 DEF HaltEndsAll, InHalt, Slot, This, IInv
<1> QED BY <1>1, <1>2, <1>3, <1>4, <1>5, <1>6, <1>7, <1>8, <1>9 DEF IInv

\* The object goes into the slot; with a rival both may take the same one.
LEMMA StoreNewKeeps ==
    ASSUME IInv, NEW t \in Threads, StoreNew(t)
    PROVE  IInv'
<1>1. TypeOK'
    BY DEF StoreNew, Goes, TypeOK, CallsOK, Locals, InCreate, objects, signals, bounds, IInv
<1>2. CallsOK'
    <2>1. local[t].new # NULL /\ Slot(t) \in Slots
        BY BoundsAssumption, CallersAssumption
           DEF StoreNew, Goes, CallsOK, InCreate, Threads, Tasks, IInv, TypeOK
    <2>2. \A i \in Slots : m_threads'[i] # NULL \/ m_threads'[i] = m_threads[i]
        BY <2>1 DEF StoreNew, IInv, TypeOK
    <2>3. m_threads'[Slot(t)] # NULL
        BY <2>1 DEF StoreNew, IInv, TypeOK
    <2> QED BY <2>2, <2>3
            DEF StoreNew, Goes, Runs, CallsOK, Slot, This, InCreate, InHalt, UsesThis, IInv, TypeOK,
                objects, signals, bounds
<1>3. FreshOK'
    BY DEF StoreNew, Goes, TypeOK, CallsOK, FreshOK, Unstored, InCreate, UsesThis, This,
           objects, bounds, IInv
<1>4. AloneOK'
    <2> SUFFICES ASSUME NEW u \in Threads, Creating(u)', local'[u].alone
                 PROVE  AloneOK!(u)!2'
        BY DEF AloneOK
    <2>1. Creating(t) /\ Creating(u) /\ local[u].alone
        BY DEF StoreNew, Goes, Creating, Runs, signals, IInv, TypeOK
    <2>2. u = t /\ \A v \in Threads : Creating(v) => v = t
        BY <2>1 DEF AloneOK, IInv
    <2>3. Slot(t) \in Slots /\ local[t].new \in Tasks
        BY BoundsAssumption DEF StoreNew, Goes, CallsOK, InCreate, Tasks, IInv, TypeOK
    <2>4. m_runnable[local[t].new] = NULL /\ m_state[local[t].new] = "RUN_STATE_INIT"
        BY <2>3 DEF StoreNew, Goes, FreshOK, Unstored, IInv
    <2> QED BY <2>2, <2>3, <2>4
            DEF StoreNew, Goes, Creating, Runs, Slot, objects, signals, IInv, TypeOK
<1>5. CreatedOK'
    BY DEF StoreNew, Goes, Slot, CreatedOK, HandleNamesTask, Creating, Runs, This, objects, IInv
<1>6. SignalsOK'
    BY DEF StoreNew, SignalsOK, signals, IInv
<1>7. StatesOK'
    BY DEF StoreNew, Goes, StatesOK, Claims, This, objects, IInv
<1>8. DueOK'
    BY DEF StoreNew, Goes, Slot, TypeOK, FreshOK, DueOK, Unstored, InHalt, UsesThis, This,
           objects, bounds, IInv, Locals
<1>9. HaltEndsAll'
    <2> SUFFICES ASSUME NEW u \in Threads, pc[u] \in InHalt, NEW i \in 0 .. Slot(u) - 1,
                        m_threads'[i] \in local[u].due
                 PROVE  \/ at[m_threads'[i]] = "ended"
                        \/ \E v \in Threads \ {u} :
                              pc'[v] \in {"claimed", "kill", "join"} /\ This(v) = m_threads'[i]
        BY DEF StoreNew, Goes, HaltEndsAll, Slot, This, InHalt, IInv, TypeOK
    <2>1. m_threads'[i] = m_threads[i]
        <3>1. at[local[t].new] = "none"
            BY BoundsAssumption DEF StoreNew, Goes, CallsOK, FreshOK, Unstored, InCreate, Tasks, IInv, TypeOK
        <3>2. at[m_threads'[i]] # "none"
            BY DEF DueOK, IInv
        <3> QED BY <3>1, <3>2 DEF StoreNew, IInv, TypeOK
    <2>2. \A v \in Threads : pc[v] \in {"claimed", "kill", "join"} => pc'[v] = pc[v]
        BY DEF StoreNew, Goes, IInv, TypeOK
    <2> QED BY <2>1, <2>2 DEF HaltEndsAll, IInv
<1> QED BY <1>1, <1>2, <1>3, <1>4, <1>5, <1>6, <1>7, <1>8, <1>9 DEF IInv

\* The call of Post is on the stored object or on what is now in the slot.
LEMMA CallPostKeeps ==
    ASSUME IInv, NEW t \in Threads, CallPost(t)
    PROVE  IInv'
<1>1. TypeOK'
    <2>1. local' \in [Threads -> Locals]
        <3>1. PICK o \in {local[t].new, m_threads[Slot(t)]} : local' = [local EXCEPT ![t].this = o]
            BY DEF CallPost
        <3>2. o \in Tasks \cup {NULL} /\ local[t] \in Locals
            BY <3>1, LocalsSet DEF CallPost, Goes, CallsOK, InCreate, IInv, TypeOK
        <3> QED BY <3>1, <3>2, LocalsSet DEF IInv, TypeOK
    <2> QED BY <2>1 DEF CallPost, Goes, InCreate, objects, signals, bounds, IInv, TypeOK
<1>2. CallsOK'
    <2>1. PICK o \in {local[t].new, m_threads[Slot(t)]} : local' = [local EXCEPT ![t].this = o]
        BY DEF CallPost
    <2>2. o \in Tasks
        BY <2>1, BoundsAssumption DEF CallPost, Goes, CallsOK, Slot, InCreate, IInv, TypeOK, Tasks
    <2>3. /\ local'[t].this = o /\ local'[t].new = local[t].new /\ local'[t].i = local[t].i
          /\ \A u \in Threads : u # t => local'[u] = local[u]
        BY <2>1 DEF Locals, IInv, TypeOK
    <2> QED BY <2>2, <2>3
            DEF CallPost, Goes, Runs, CallsOK, Slot, This, InCreate, InHalt, UsesThis, IInv, TypeOK,
                objects, signals, bounds
<1>3. FreshOK'
    BY DEF CallPost, Goes, TypeOK, CallsOK, FreshOK, Unstored, InCreate, This, objects,
           bounds, IInv
<1>4. AloneOK'
    BY DEF CallPost, Goes, Slot, TypeOK, AloneOK, Creating, Runs, This, objects, IInv
<1>5. CreatedOK'
    BY DEF CallPost, Goes, Slot, CreatedOK, HandleNamesTask, Creating, Runs, This, objects, IInv
<1>6. SignalsOK'
    BY DEF CallPost, SignalsOK, signals, IInv
<1>7. StatesOK'
    BY DEF CallPost, Goes, StatesOK, Claims, This, objects, IInv
<1>8. DueOK'
    BY DEF CallPost, Goes, Slot, DueOK, InHalt, This, objects, IInv
<1>9. HaltEndsAll'
    <2>1. \A u \in Threads \ {t} : local'[u] = local[u] /\ pc'[u] = pc[u]
        BY DEF CallPost, Goes, IInv, TypeOK
    <2>2. pc[t] = "post" /\ pc'[t] = "test" /\ UNCHANGED <<m_threads, at>>
        BY DEF CallPost, Goes, objects, IInv, TypeOK
    <2> QED BY <2>1, <2>2 DEF HaltEndsAll, InHalt, This, Slot, IInv
<1> QED BY <1>1, <1>2, <1>3, <1>4, <1>5, <1>6, <1>7, <1>8, <1>9 DEF IInv

\* The unlocked test of m_runnable.
LEMMA TestRunnableKeeps ==
    ASSUME IInv, NEW t \in Threads, TestRunnable(t)
    PROVE  IInv'
<1>1. TypeOK'
    BY DEF TestRunnable, Goes, TypeOK, InCreate, objects, signals, bounds, IInv
<1>2. CallsOK'
    BY DEF TestRunnable, Goes, CallsOK, InCreate, UsesThis, Slot, This, bounds, IInv
<1>3. FreshOK'
    BY DEF TestRunnable, Goes, FreshOK, Unstored, InCreate, UsesThis, This, objects, bounds,
           IInv
<1>4. AloneOK'
    BY DEF TestRunnable, Goes, AloneOK, Creating, Runs, This, Slot, objects, IInv
<1>5. CreatedOK'
    BY CallersAssumption
       DEF TestRunnable, Goes, TypeOK, CreatedOK, HandleNamesTask, Creating, Runs, This,
           Slot, objects, Threads, IInv
<1>6. SignalsOK'
    BY DEF TestRunnable, SignalsOK, signals, IInv
<1>7. StatesOK'
    BY DEF TestRunnable, Goes, StatesOK, Claims, This, objects, IInv
<1>8. DueOK'
    BY DEF TestRunnable, Goes, DueOK, InHalt, This, Slot, objects, IInv
<1>9. HaltEndsAll'
    BY DEF TestRunnable, Goes, DueOK, HaltEndsAll, InHalt, UsesThis, This, Slot, bounds, IInv
<1> QED BY <1>1, <1>2, <1>3, <1>4, <1>5, <1>6, <1>7, <1>8, <1>9 DEF IInv

\* A runnable was already there: TaskCreate returns, and only a rival can have set it.
LEMMA PostNothingKeeps ==
    ASSUME IInv, NEW t \in Threads, PostNothing(t)
    PROVE  IInv'
<1>1. TypeOK'
    <2>1. Slot(t) \in Slots /\ local[t].new \in Tasks
        BY BoundsAssumption DEF PostNothing, Goes, CallsOK, InCreate, Tasks, IInv, TypeOK
    <2>2. created' \subseteq [handle : Slots, task : Tasks]
        BY <2>1 DEF PostNothing, TaskCreated, IInv, TypeOK
    <2>3. local' \in [Threads -> Locals]
        BY LocalsSet DEF PostNothing, TaskCreated, Forgets, IInv, TypeOK
    <2> QED BY <2>2, <2>3 DEF PostNothing, Goes, objects, signals, bounds, IInv, TypeOK
<1>2. CallsOK'
    BY DEF PostNothing, Goes, TaskCreated, Forgets, Slot, TypeOK, CallsOK, InCreate, InHalt,
           UsesThis, This, bounds, IInv
<1>3. FreshOK'
    BY DEF PostNothing, Goes, TaskCreated, Forgets, TypeOK, FreshOK, Unstored, InCreate,
           UsesThis, This, objects, bounds, IInv
<1>4. AloneOK'
    BY DEF PostNothing, Goes, TaskCreated, Forgets, TypeOK, AloneOK, Creating, Runs, IInv
<1>5. CreatedOK'
    BY DEF PostNothing, Goes, TaskCreated, Forgets, Slot, AloneOK, CreatedOK,
           HandleNamesTask, Creating, Runs, This, objects, IInv
<1>6. SignalsOK'
    BY DEF PostNothing, SignalsOK, signals, IInv
<1>7. StatesOK'
    BY DEF PostNothing, Goes, TaskCreated, Forgets, StatesOK, Claims, This, objects, IInv
<1>8. DueOK'
    BY DEF PostNothing, Goes, TaskCreated, Forgets, Slot, DueOK, InHalt, This, objects, IInv
<1>9. HaltEndsAll'
    <2>1. \A u \in Threads \ {t} : local'[u] = local[u] /\ pc'[u] = pc[u]
        BY DEF PostNothing, Goes, TaskCreated, Forgets, IInv, TypeOK
    <2>2. pc[t] = "test" /\ pc'[t] = "idle" /\ UNCHANGED <<m_threads, at>>
        BY DEF PostNothing, Goes, objects, IInv, TypeOK
    <2> QED BY <2>1, <2>2 DEF HaltEndsAll, InHalt, This, Slot, IInv
<1> QED BY <1>1, <1>2, <1>3, <1>4, <1>5, <1>6, <1>7, <1>8, <1>9 DEF IInv

\* The unlocked store of m_runnable.
LEMMA SetRunnableKeeps ==
    ASSUME IInv, NEW t \in Threads, SetRunnable(t)
    PROVE  IInv'
<1>1. TypeOK'
    BY DEF SetRunnable, Goes, TypeOK, CallsOK, Locals, InCreate, UsesThis, signals, bounds, IInv
<1>2. CallsOK'
    BY DEF SetRunnable, Goes, This, CallsOK, InCreate, UsesThis, Slot, bounds, IInv
<1>3. FreshOK'
    BY DEF SetRunnable, Goes, This, FreshOK, Unstored, InCreate, UsesThis, bounds, IInv
<1>4. AloneOK'
    BY DEF SetRunnable, Goes, This, TypeOK, CallsOK, AloneOK, Creating, Runs, Slot, IInv
<1>5. CreatedOK'
    BY DEF SetRunnable, Goes, This, CreatedOK, HandleNamesTask, Creating, Runs, Slot, IInv
<1>6. SignalsOK'
    BY DEF SetRunnable, SignalsOK, signals, IInv
<1>7. StatesOK'
    BY DEF SetRunnable, Goes, This, StatesOK, Claims, IInv
<1>8. DueOK'
    BY DEF SetRunnable, Goes, This, DueOK, InHalt, Slot, IInv
<1>9. HaltEndsAll'
    BY DEF SetRunnable, Goes, This, DueOK, HaltEndsAll, InHalt, UsesThis, Slot, IInv
<1> QED BY <1>1, <1>2, <1>3, <1>4, <1>5, <1>6, <1>7, <1>8, <1>9 DEF IInv

\* The thread is created once, under the mutex.
LEMMA StartThreadKeeps ==
    ASSUME IInv, NEW t \in Threads, StartThread(t)
    PROVE  IInv'
<1>1. TypeOK'
    BY DEF StartThread, Goes, Acquires, TypeOK, CallsOK, InCreate, UsesThis, signals,
           bounds, IInv
<1>2. CallsOK'
    <2>1. \A o \in Tasks : at[o] \in {"running", "ended"} => at'[o] = at[o]
        BY DEF StartThread, Goes, CallsOK, UsesThis, StatesOK, This, IInv, TypeOK
    <2> QED BY <2>1
            DEF StartThread, Goes, Runs, CallsOK, Slot, This, InCreate, InHalt, UsesThis, IInv, TypeOK,
                objects, signals, bounds
<1>3. FreshOK'
    BY DEF StartThread, Goes, This, FreshOK, Unstored, InCreate, UsesThis, bounds, IInv
<1>4. AloneOK'
    BY DEF StartThread, Goes, This, TypeOK, CallsOK, AloneOK, Creating, Runs, InCreate,
           Slot, IInv
<1>5. CreatedOK'
    BY DEF StartThread, Goes, Acquires, This, CreatedOK, HandleNamesTask, Creating, Runs,
           Slot, IInv
<1>6. SignalsOK'
    BY DEF StartThread, SignalsOK, signals, IInv
<1>7. StatesOK'
    BY DEF StartThread, Goes, This, TypeOK, StatesOK, Claims, IInv
<1>8. DueOK'
    BY DEF StartThread, Goes, This, DueOK, InHalt, Slot, IInv
<1>9. HaltEndsAll'
    BY DEF StartThread, Goes, Acquires, This, TypeOK, StatesOK, DueOK, HaltEndsAll, InHalt,
           Slot, IInv
<1> QED BY <1>1, <1>2, <1>3, <1>4, <1>5, <1>6, <1>7, <1>8, <1>9 DEF IInv

\* TaskCreate returns the handle of the task it has started.
LEMMA PostUnlocksKeeps ==
    ASSUME IInv, NEW t \in Threads, PostUnlocks(t)
    PROVE  IInv'
<1>1. TypeOK'
    <2>1. Slot(t) \in Slots /\ local[t].new \in Tasks
        BY BoundsAssumption DEF PostUnlocks, Goes, CallsOK, InCreate, Tasks, IInv, TypeOK
    <2>2. created' \subseteq [handle : Slots, task : Tasks]
        BY <2>1 DEF PostUnlocks, TaskCreated, IInv, TypeOK
    <2>3. local' \in [Threads -> Locals]
        BY LocalsSet DEF PostUnlocks, TaskCreated, Forgets, IInv, TypeOK
    <2> QED BY <2>2, <2>3 DEF PostUnlocks, Goes, Releases, objects, signals, bounds, IInv, TypeOK
<1>2. CallsOK'
    BY DEF PostUnlocks, Goes, This, TaskCreated, Forgets, Slot, TypeOK, CallsOK, InCreate,
           InHalt, UsesThis, bounds, IInv
<1>3. FreshOK'
    BY DEF PostUnlocks, Goes, This, TaskCreated, Forgets, TypeOK, FreshOK, Unstored,
           InCreate, UsesThis, bounds, IInv
<1>4. AloneOK'
    BY DEF PostUnlocks, Goes, Releases, TaskCreated, Forgets, TypeOK, AloneOK, Creating,
           Runs, IInv
<1>5. CreatedOK'
    BY DEF PostUnlocks, Goes, Releases, This, TaskCreated, Forgets, Slot, AloneOK,
           CreatedOK, HandleNamesTask, Creating, Runs, IInv
<1>6. SignalsOK'
    BY DEF PostUnlocks, SignalsOK, signals, IInv
<1>7. StatesOK'
    BY DEF PostUnlocks, Goes, This, TaskCreated, Forgets, StatesOK, Claims, IInv
<1>8. DueOK'
    BY DEF PostUnlocks, Goes, Releases, This, TaskCreated, Forgets, Slot, DueOK, InHalt, IInv
<1>9. HaltEndsAll'
    BY DEF PostUnlocks, Goes, Releases, This, TaskCreated, Forgets, NoLocals, Slot, DueOK,
           HaltEndsAll, Claims, InHalt, UsesThis, bounds, IInv
<1> QED BY <1>1, <1>2, <1>3, <1>4, <1>5, <1>6, <1>7, <1>8, <1>9 DEF IInv

\* The thread installs the handler of the signal.
LEMMA ArmsKeeps ==
    ASSUME IInv, NEW o \in Tasks, Arms(o)
    PROVE  IInv'
<1>1. TypeOK'
    BY DEF Arms, Moves, TypeOK, objects, bounds, IInv
<1>2. CallsOK'
    BY DEF Arms, Moves, CallsOK, Slot, This, bounds, IInv
<1>3. FreshOK'
    BY DEF Arms, Moves, FreshOK, Unstored, This, objects, bounds, IInv
<1>4. AloneOK'
    BY DEF Arms, Moves, AloneOK, Creating, Runs, This, Slot, objects, IInv
<1>5. CreatedOK'
    BY DEF Arms, Moves, CreatedOK, HandleNamesTask, Creating, Runs, This, Slot, objects, IInv
<1>6. SignalsOK'
    BY DEF Arms, Moves, SignalsOK, IInv
<1>7. StatesOK'
    BY DEF Arms, Moves, StatesOK, Claims, This, objects, IInv
<1>8. DueOK'
    BY DEF Arms, Moves, DueOK, This, Slot, objects, IInv
<1>9. HaltEndsAll'
    BY DEF Arms, Moves, DueOK, HaltEndsAll, This, Slot, IInv
<1> QED BY <1>1, <1>2, <1>3, <1>4, <1>5, <1>6, <1>7, <1>8, <1>9 DEF IInv

\* The thread runs its runnable, with the handler in place.
LEMMA BeginsKeeps ==
    ASSUME IInv, NEW o \in Tasks, Begins(o)
    PROVE  IInv'
<1>1. TypeOK'
    BY DEF Begins, Moves, TypeOK, objects, bounds, IInv
<1>2. CallsOK'
    BY DEF Begins, Moves, CallsOK, Slot, This, bounds, IInv
<1>3. FreshOK'
    BY DEF Begins, Moves, FreshOK, Unstored, This, objects, bounds, IInv
<1>4. AloneOK'
    BY DEF Begins, Moves, CallsOK, AloneOK, Creating, Runs, This, Slot, objects, IInv
<1>5. CreatedOK'
    BY DEF Begins, Moves, CallsOK, CreatedOK, HandleNamesTask, Creating, Runs, This, Slot,
           objects, IInv
<1>6. SignalsOK'
    BY DEF Begins, Moves, SignalsOK, IInv
<1>7. StatesOK'
    BY DEF Begins, Moves, StatesOK, Claims, This, objects, IInv
<1>8. DueOK'
    BY DEF Begins, Moves, DueOK, This, Slot, objects, IInv
<1>9. HaltEndsAll'
    BY DEF Begins, Moves, DueOK, HaltEndsAll, This, Slot, IInv
<1> QED BY <1>1, <1>2, <1>3, <1>4, <1>5, <1>6, <1>7, <1>8, <1>9 DEF IInv

\* A runnable that is in no call returns.
LEMMA EndsKeeps ==
    ASSUME IInv, NEW o \in Tasks, Ends(o)
    PROVE  IInv'
<1>1. TypeOK'
    BY DEF Ends, Moves, TypeOK, objects, bounds, IInv
<1>2. CallsOK'
    BY DEF Ends, Moves, CallsOK, Slot, This, bounds, IInv
<1>3. FreshOK'
    BY DEF Ends, Moves, FreshOK, Unstored, This, objects, bounds, IInv
<1>4. AloneOK'
    BY DEF Ends, Moves, AloneOK, Creating, Runs, This, Slot, objects, IInv
<1>5. CreatedOK'
    BY DEF Ends, Moves, CreatedOK, HandleNamesTask, Creating, Runs, This, Slot, objects, IInv
<1>6. SignalsOK'
    BY DEF Ends, Moves, SignalsOK, IInv
<1>7. StatesOK'
    BY DEF Ends, Moves, StatesOK, Claims, This, objects, IInv
<1>8. DueOK'
    BY DEF Ends, Moves, DueOK, This, Slot, objects, IInv
<1>9. HaltEndsAll'
    BY DEF Ends, Moves, DueOK, HaltEndsAll, This, Slot, IInv
<1> QED BY <1>1, <1>2, <1>3, <1>4, <1>5, <1>6, <1>7, <1>8, <1>9 DEF IInv

\* The handler ends the thread.
LEMMA ThreadExitKeeps ==
    ASSUME IInv, NEW o \in Tasks, ThreadExit(o)
    PROVE  IInv'
<1>1. TypeOK'
    BY DEF ThreadExit, Moves, TypeOK, objects, bounds, IInv
<1>2. CallsOK'
    BY DEF ThreadExit, Moves, CallsOK, Slot, This, bounds, IInv
<1>3. FreshOK'
    BY DEF ThreadExit, Moves, FreshOK, Unstored, This, objects, bounds, IInv
<1>4. AloneOK'
    BY DEF ThreadExit, Moves, AloneOK, Creating, Runs, This, Slot, objects, IInv
<1>5. CreatedOK'
    BY DEF ThreadExit, Moves, CreatedOK, HandleNamesTask, Creating, Runs, This, Slot,
           objects, IInv
<1>6. SignalsOK'
    BY DEF ThreadExit, Moves, SignalsOK, IInv
<1>7. StatesOK'
    BY DEF ThreadExit, Moves, StatesOK, Claims, This, objects, IInv
<1>8. DueOK'
    BY DEF ThreadExit, Moves, DueOK, This, Slot, objects, IInv
<1>9. HaltEndsAll'
    BY DEF ThreadExit, Moves, DueOK, HaltEndsAll, This, Slot, IInv
<1> QED BY <1>1, <1>2, <1>3, <1>4, <1>5, <1>6, <1>7, <1>8, <1>9 DEF IInv

\* Without the handler the signal ends the process.
LEMMA DefaultActionKeeps ==
    ASSUME IInv, NEW o \in Tasks, DefaultAction(o)
    PROVE  IInv'
<1>1. TypeOK'
    BY DEF DefaultAction, TypeOK, objects, bounds, IInv
<1>2. CallsOK'
    BY DEF DefaultAction, CallsOK, Slot, This, bounds, IInv
<1>3. FreshOK'
    BY DEF DefaultAction, FreshOK, Unstored, This, objects, bounds, IInv
<1>4. AloneOK'
    BY DEF DefaultAction, AloneOK, Creating, Runs, IInv
<1>5. CreatedOK'
    BY DEF DefaultAction, CreatedOK, HandleNamesTask, Creating, Runs, objects, IInv
<1>6. SignalsOK'
    BY DEF DefaultAction, SignalsOK, IInv
<1>7. StatesOK'
    BY DEF DefaultAction, StatesOK, Claims, This, objects, IInv
<1>8. DueOK'
    BY DEF DefaultAction, DueOK, This, Slot, objects, IInv
<1>9. HaltEndsAll'
    BY DEF DefaultAction, HaltEndsAll, This, Slot, IInv
<1> QED BY <1>1, <1>2, <1>3, <1>4, <1>5, <1>6, <1>7, <1>8, <1>9 DEF IInv

\* Halt is to end what is in the table and started.
LEMMA HaltKeeps ==
    ASSUME IInv, NEW t \in Threads, Halt(t)
    PROVE  IInv'
<1>1. TypeOK'
    <2>1. local' \in [Threads -> Locals]
        <3>1. Started \in SUBSET Tasks /\ local[t] \in Locals
            BY DEF Started, IInv, TypeOK
        <3> QED BY <3>1, LocalsSet DEF Halt, IInv, TypeOK
    <2>2. halts' \in 0 .. MaxHalts
        BY BoundsAssumption DEF Halt, IInv, TypeOK
    <2> QED BY <2>1, <2>2 DEF Halt, Goes, InHalt, objects, signals, IInv, TypeOK
<1>2. CallsOK'
    BY DEF Halt, Goes, TypeOK, CallsOK, InCreate, UsesThis, Slot, This, Runs, IInv
<1>3. FreshOK'
    BY DEF Halt, Goes, FreshOK, Unstored, InCreate, UsesThis, This, objects, IInv
<1>4. AloneOK'
    BY DEF Halt, Goes, AloneOK, Creating, Runs, This, Slot, objects, IInv
<1>5. CreatedOK'
    BY DEF Halt, Goes, Started, CreatedOK, HandleNamesTask, Creating, Runs, This, Slot,
           objects, IInv
<1>6. SignalsOK'
    BY DEF Halt, SignalsOK, signals, IInv
<1>7. StatesOK'
    BY DEF Halt, Goes, StatesOK, Claims, This, objects, IInv
<1>8. DueOK'
    BY DEF Halt, Goes, Started, TypeOK, DueOK, This, Slot, objects, IInv
<1>9. HaltEndsAll'
    <2>1. \A u \in Threads \ {t} : local'[u] = local[u] /\ pc'[u] = pc[u]
        BY DEF Halt, Goes, IInv, TypeOK
    <2>2. pc[t] = "idle" /\ pc'[t] = "visit" /\ UNCHANGED <<m_threads, at>>
        BY DEF Halt, Goes, objects, IInv, TypeOK
    <2>3. local'[t].i = 0
        <3>1. local[t].i = 0
            BY <2>2, LocalsSet DEF CallsOK, IInv
        <3> QED BY <3>1 DEF Halt, IInv, TypeOK, Locals
    <2> QED BY <2>1, <2>2, <2>3 DEF HaltEndsAll, InHalt, This, Slot, IInv
<1> QED BY <1>1, <1>2, <1>3, <1>4, <1>5, <1>6, <1>7, <1>8, <1>9 DEF IInv

\* Halt returns past the last slot.
LEMMA HaltEndsKeeps ==
    ASSUME IInv, NEW t \in Threads, HaltEnds(t)
    PROVE  IInv'
<1>1. TypeOK'
    BY BoundsAssumption
       DEF HaltEnds, Goes, Forgets, NoLocals, TypeOK, Locals, objects, signals, bounds, IInv
<1>2. CallsOK'
    BY DEF HaltEnds, Goes, Forgets, TypeOK, CallsOK, InCreate, InHalt, UsesThis, Slot, This,
           bounds, IInv
<1>3. FreshOK'
    BY DEF HaltEnds, Goes, Forgets, FreshOK, Unstored, InCreate, UsesThis, This, objects,
           bounds, IInv
<1>4. AloneOK'
    BY DEF HaltEnds, Goes, Forgets, AloneOK, Creating, Runs, This, Slot, objects, IInv
<1>5. CreatedOK'
    BY DEF HaltEnds, Goes, Forgets, CreatedOK, HandleNamesTask, Creating, Runs, This, Slot,
           objects, IInv
<1>6. SignalsOK'
    BY DEF HaltEnds, SignalsOK, signals, IInv
<1>7. StatesOK'
    BY DEF HaltEnds, Goes, Forgets, StatesOK, Claims, This, objects, IInv
<1>8. DueOK'
    BY DEF HaltEnds, Goes, Forgets, TypeOK, DueOK, InHalt, This, Slot, objects, IInv
<1>9. HaltEndsAll'
    BY DEF HaltEnds, Goes, Forgets, NoLocals, DueOK, HaltEndsAll, Claims, InHalt, This,
           Slot, IInv
<1> QED BY <1>1, <1>2, <1>3, <1>4, <1>5, <1>6, <1>7, <1>8, <1>9 DEF IInv

\* An empty slot holds nothing that Halt is to end.
LEMMA SkipEmptyKeeps ==
    ASSUME IInv, NEW t \in Threads, SkipEmpty(t)
    PROVE  IInv'
<1>1. TypeOK'
    <2>1. local' \in [Threads -> Locals]
        <3>1. Slot(t) + 1 \in 0 .. MAX_THREADS /\ local[t] \in Locals
            BY BoundsAssumption DEF SkipEmpty, Goes, CallsOK, InHalt, Slots, IInv, TypeOK
        <3> QED BY <3>1, LocalsSet DEF SkipEmpty, NextSlot, Slot, IInv, TypeOK
    <2> QED BY <2>1 DEF SkipEmpty, Goes, InHalt, objects, signals, bounds, IInv, TypeOK
<1>2. CallsOK'
    BY DEF SkipEmpty, Goes, NextSlot, Slot, CallsOK, This, bounds, IInv
<1>3. FreshOK'
    BY DEF SkipEmpty, Goes, NextSlot, FreshOK, Unstored, This, objects, bounds, IInv
<1>4. AloneOK'
    BY DEF SkipEmpty, Goes, NextSlot, Slot, AloneOK, Creating, Runs, This, objects, IInv
<1>5. CreatedOK'
    BY DEF SkipEmpty, Goes, NextSlot, Slot, CreatedOK, HandleNamesTask, Creating, Runs,
           This, objects, IInv
<1>6. SignalsOK'
    BY DEF SkipEmpty, SignalsOK, signals, IInv
<1>7. StatesOK'
    BY DEF SkipEmpty, Goes, NextSlot, StatesOK, Claims, This, objects, IInv
<1>8. DueOK'
    BY DEF SkipEmpty, Goes, NextSlot, Slot, DueOK, This, objects, IInv
<1>9. HaltEndsAll'
    <2>1. \A u \in Threads \ {t} : local'[u] = local[u] /\ pc'[u] = pc[u]
        BY DEF SkipEmpty, Goes, NextSlot, IInv, TypeOK
    <2>2. pc[t] = "visit" /\ pc'[t] = "visit" /\ UNCHANGED <<m_threads, at>>
        BY DEF SkipEmpty, Goes, objects, IInv, TypeOK
    <2>3. Slot(t) \in Slots /\ Slot(t)' = Slot(t) + 1 /\ local'[t].due = local[t].due
        BY DEF SkipEmpty, Goes, NextSlot, CallsOK, InHalt, Slot, Locals, IInv, TypeOK
    <2>4. m_threads[Slot(t)] \notin local[t].due
        BY CallersAssumption DEF SkipEmpty, Threads, Locals, IInv, TypeOK
    <2>5. ASSUME NEW i \in 0 .. Slot(t)' - 1, m_threads'[i] \in local'[t].due
          PROVE  \/ at'[m_threads'[i]] = "ended"
                 \/ \E v \in Threads \ {t} :
                       pc'[v] \in {"claimed", "kill", "join"} /\ This(v)' = m_threads'[i]
        <3>1. i \in 0 .. Slot(t) - 1 \/ i = Slot(t)
            BY <2>3, BoundsAssumption DEF Slots
        <3> QED BY <2>1, <2>2, <2>3, <2>4, <2>5, <3>1 DEF HaltEndsAll, InHalt, This, IInv
    <2>6. ASSUME NEW u \in Threads, u # t, pc'[u] \in InHalt, NEW i \in 0 .. Slot(u)' - 1,
                 m_threads'[i] \in local'[u].due
          PROVE  \/ at'[m_threads'[i]] = "ended"
                 \/ \E v \in Threads \ {u} :
                       pc'[v] \in {"claimed", "kill", "join"} /\ This(v)' = m_threads'[i]
        <3>1. \/ at[m_threads[i]] = "ended"
              \/ \E v \in Threads \ {u} :
                    pc[v] \in {"claimed", "kill", "join"} /\ This(v) = m_threads[i]
            BY <2>1, <2>2, <2>6 DEF HaltEndsAll, Slot, IInv
        <3> QED BY <2>1, <2>2, <3>1 DEF This
    <2> QED BY <2>5, <2>6 DEF HaltEndsAll
<1> QED BY <1>1, <1>2, <1>3, <1>4, <1>5, <1>6, <1>7, <1>8, <1>9 DEF IInv

\* Halt goes to the task in its slot.
LEMMA VisitKeeps ==
    ASSUME IInv, NEW t \in Threads, Visit(t)
    PROVE  IInv'
<1>1. TypeOK'
    BY BoundsAssumption, CallersAssumption, LocalsSet
       DEF Visit, Goes, Slot, TypeOK, CallsOK, InCreate, InHalt, UsesThis, This, objects,
           signals, bounds, vars, Slots, Threads, IInv
<1>2. CallsOK'
    BY DEF Visit, Goes, Slot, TypeOK, CallsOK, InCreate, This, bounds, IInv
<1>3. FreshOK'
    BY DEF Visit, Goes, TypeOK, FreshOK, Unstored, InCreate, This, objects, bounds, IInv
<1>4. AloneOK'
    BY DEF Visit, Goes, Slot, AloneOK, Creating, Runs, This, objects, IInv
<1>5. CreatedOK'
    BY DEF Visit, Goes, Slot, CreatedOK, HandleNamesTask, Creating, Runs, This, objects, IInv
<1>6. SignalsOK'
    BY DEF Visit, SignalsOK, signals, IInv
<1>7. StatesOK'
    BY DEF Visit, Goes, StatesOK, Claims, This, objects, IInv
<1>8. DueOK'
    BY DEF Visit, Goes, Slot, TypeOK, DueOK, InCreate, This, objects, IInv
<1>9. HaltEndsAll'
    <2>1. \A u \in Threads \ {t} : local'[u] = local[u] /\ pc'[u] = pc[u]
        BY DEF Visit, Goes, IInv, TypeOK
    <2>2. pc[t] = "visit" /\ pc'[t] = "claim" /\ UNCHANGED <<m_threads, at>>
        BY DEF Visit, Goes, objects, IInv, TypeOK
    <2>3. local'[t].i = local[t].i /\ local'[t].due = local[t].due
        BY DEF Visit, Locals, IInv, TypeOK
    <2> QED BY <2>1, <2>2, <2>3 DEF HaltEndsAll, InHalt, This, Slot, IInv
<1> QED BY <1>1, <1>2, <1>3, <1>4, <1>5, <1>6, <1>7, <1>8, <1>9 DEF IInv

\* The thread is claimed under the mutex, by one Halt only.
LEMMA ClaimKeeps ==
    ASSUME IInv, NEW t \in Threads, Claim(t)
    PROVE  IInv'
<1>1. TypeOK'
    BY DEF Claim, Goes, Acquires, TypeOK, CallsOK, InHalt, UsesThis, signals, bounds, IInv
<1>2. CallsOK'
    BY DEF Claim, Goes, This, TypeOK, CallsOK, InCreate, UsesThis, Slot, bounds, IInv
<1>3. FreshOK'
    BY DEF Claim, Goes, This, FreshOK, Unstored, InCreate, bounds, IInv
<1>4. AloneOK'
    BY DEF Claim, Goes, This, AloneOK, Creating, Runs, Slot, IInv
<1>5. CreatedOK'
    BY DEF Claim, Goes, Acquires, This, CreatedOK, HandleNamesTask, Creating, Runs, Slot, IInv
<1>6. SignalsOK'
    BY DEF Claim, SignalsOK, signals, IInv
<1>7. StatesOK'
    BY DEF Claim, Goes, This, TypeOK, StatesOK, Claims, IInv
<1>8. DueOK'
    BY DEF Claim, Goes, This, TypeOK, DueOK, InCreate, Slot, IInv
<1>9. HaltEndsAll'
    BY DEF Claim, Goes, Acquires, This, TypeOK, DueOK, HaltEndsAll, InCreate, Slot, IInv
<1> QED BY <1>1, <1>2, <1>3, <1>4, <1>5, <1>6, <1>7, <1>8, <1>9 DEF IInv

\* Another Halt has claimed the task, or it was never started.
LEMMA ClaimNothingKeeps ==
    ASSUME IInv, NEW t \in Threads, ClaimNothing(t)
    PROVE  IInv'
<1>1. TypeOK'
    BY DEF ClaimNothing, Goes, Acquires, TypeOK, CallsOK, InHalt, UsesThis, signals, bounds,
           IInv
<1>2. CallsOK'
    BY DEF ClaimNothing, Goes, This, TypeOK, CallsOK, InCreate, UsesThis, Slot, bounds, IInv
<1>3. FreshOK'
    BY DEF ClaimNothing, Goes, This, FreshOK, Unstored, InCreate, UsesThis, bounds, IInv
<1>4. AloneOK'
    BY DEF ClaimNothing, Goes, This, AloneOK, Creating, Runs, Slot, IInv
<1>5. CreatedOK'
    BY DEF ClaimNothing, Goes, Acquires, This, CreatedOK, HandleNamesTask, Creating, Runs,
           Slot, IInv
<1>6. SignalsOK'
    BY DEF ClaimNothing, SignalsOK, signals, IInv
<1>7. StatesOK'
    BY DEF ClaimNothing, Goes, This, StatesOK, Claims, IInv
<1>8. DueOK'
    BY DEF ClaimNothing, Goes, This, TypeOK, CallsOK, StatesOK, DueOK, UsesThis, InCreate,
           Slot, IInv
<1>9. HaltEndsAll'
    <2>1. \A u \in Threads \ {t} : pc'[u] = pc[u]
        BY DEF ClaimNothing, Goes, IInv, TypeOK
    <2>2. pc[t] = "claim" /\ pc'[t] = "passed" /\ UNCHANGED <<m_threads, at, local>>
        BY DEF ClaimNothing, Goes, objects, IInv, TypeOK
    <2> QED BY <2>1, <2>2 DEF HaltEndsAll, InHalt, This, Slot, IInv
<1> QED BY <1>1, <1>2, <1>3, <1>4, <1>5, <1>6, <1>7, <1>8, <1>9 DEF IInv

\* The claim outlives the mutex.
LEMMA HaltUnlocksKeeps ==
    ASSUME IInv, NEW t \in Threads, HaltUnlocks(t)
    PROVE  IInv'
<1>1. TypeOK'
    BY DEF HaltUnlocks, Goes, Releases, TypeOK, CallsOK, InHalt, UsesThis, signals, bounds, IInv
<1>2. CallsOK'
    BY DEF HaltUnlocks, Goes, This, TypeOK, CallsOK, InCreate, UsesThis, Slot, bounds, IInv
<1>3. FreshOK'
    BY DEF HaltUnlocks, Goes, This, FreshOK, Unstored, InCreate, UsesThis, bounds, IInv
<1>4. AloneOK'
    BY DEF HaltUnlocks, Goes, This, AloneOK, Creating, Runs, Slot, IInv
<1>5. CreatedOK'
    BY DEF HaltUnlocks, Goes, Releases, This, CreatedOK, HandleNamesTask, Creating, Runs,
           Slot, IInv
<1>6. SignalsOK'
    BY DEF HaltUnlocks, SignalsOK, signals, IInv
<1>7. StatesOK'
    BY DEF HaltUnlocks, Goes, This, StatesOK, Claims, IInv
<1>8. DueOK'
    BY DEF HaltUnlocks, Goes, This, TypeOK, DueOK, InCreate, Slot, IInv
<1>9. HaltEndsAll'
    BY DEF HaltUnlocks, Goes, Releases, This, DueOK, HaltEndsAll, InHalt, Slot, IInv
<1> QED BY <1>1, <1>2, <1>3, <1>4, <1>5, <1>6, <1>7, <1>8, <1>9 DEF IInv

\* Halt goes past a task it did not claim: another Halt has, or it has ended.
LEMMA PassesKeeps ==
    ASSUME IInv, NEW t \in Threads, Passes(t)
    PROVE  IInv'
<1>1. TypeOK'
    <2>1. local' \in [Threads -> Locals]
        <3>1. Slot(t) + 1 \in 0 .. MAX_THREADS /\ local[t] \in Locals
            BY BoundsAssumption DEF Passes, Goes, CallsOK, InHalt, Slots, IInv, TypeOK
        <3> QED BY <3>1, LocalsSet DEF Passes, NextSlot, Slot, IInv, TypeOK
    <2> QED BY <2>1 DEF Passes, Goes, Releases, CallsOK, UsesThis, InHalt, objects, signals, bounds, IInv, TypeOK
<1>2. CallsOK'
    BY DEF Passes, Goes, NextSlot, This, TypeOK, CallsOK, InCreate, UsesThis, Slot, bounds, IInv
<1>3. FreshOK'
    BY DEF Passes, Goes, NextSlot, This, FreshOK, Unstored, InCreate, UsesThis, bounds, IInv
<1>4. AloneOK'
    BY DEF Passes, Goes, NextSlot, This, AloneOK, Creating, Runs, Slot, IInv
<1>5. CreatedOK'
    BY DEF Passes, Goes, Releases, NextSlot, This, CreatedOK, HandleNamesTask, Creating,
           Runs, Slot, IInv
<1>6. SignalsOK'
    BY DEF Passes, SignalsOK, signals, IInv
<1>7. StatesOK'
    BY DEF Passes, Goes, NextSlot, This, StatesOK, Claims, IInv
<1>8. DueOK'
    BY DEF Passes, Goes, NextSlot, This, TypeOK, DueOK, InCreate, Slot, IInv
<1>9. HaltEndsAll'
    <2>1. \A u \in Threads \ {t} : local'[u] = local[u] /\ pc'[u] = pc[u]
        BY DEF Passes, Goes, NextSlot, IInv, TypeOK
    <2>2. pc[t] = "passed" /\ pc'[t] = "visit" /\ UNCHANGED <<m_threads, at>>
        BY DEF Passes, Goes, objects, IInv, TypeOK
    <2>3. Slot(t) \in Slots /\ Slot(t)' = Slot(t) + 1 /\ local'[t].due = local[t].due
        BY DEF Passes, Goes, NextSlot, CallsOK, InHalt, Slot, Locals, IInv, TypeOK
    <2>4. m_threads[Slot(t)] \in local[t].due =>
             \/ at[m_threads[Slot(t)]] = "ended"
             \/ \E v \in Threads \ {t} :
                   pc[v] \in {"claimed", "kill", "join"} /\ This(v) = m_threads[Slot(t)]
        BY <2>2 DEF DueOK, StatesOK, Claims, InHalt, Locals, IInv, TypeOK
    <2>5. ASSUME NEW i \in 0 .. Slot(t)' - 1, m_threads'[i] \in local'[t].due
          PROVE  \/ at'[m_threads'[i]] = "ended"
                 \/ \E v \in Threads \ {t} :
                       pc'[v] \in {"claimed", "kill", "join"} /\ This(v)' = m_threads'[i]
        <3>1. i \in 0 .. Slot(t) - 1 \/ i = Slot(t)
            BY <2>3, BoundsAssumption DEF Slots
        <3> QED BY <2>1, <2>2, <2>3, <2>4, <2>5, <3>1 DEF HaltEndsAll, InHalt, This, IInv
    <2>6. ASSUME NEW u \in Threads, u # t, pc'[u] \in InHalt, NEW i \in 0 .. Slot(u)' - 1,
                 m_threads'[i] \in local'[u].due
          PROVE  \/ at'[m_threads'[i]] = "ended"
                 \/ \E v \in Threads \ {u} :
                       pc'[v] \in {"claimed", "kill", "join"} /\ This(v)' = m_threads'[i]
        <3>1. \/ at[m_threads[i]] = "ended"
              \/ \E v \in Threads \ {u} :
                    pc[v] \in {"claimed", "kill", "join"} /\ This(v) = m_threads[i]
            BY <2>1, <2>2, <2>6 DEF HaltEndsAll, Slot, IInv
        <3> QED BY <2>1, <2>2, <3>1 DEF This
    <2> QED BY <2>5, <2>6 DEF HaltEndsAll
<1> QED BY <1>1, <1>2, <1>3, <1>4, <1>5, <1>6, <1>7, <1>8, <1>9 DEF IInv

\* The signal is sent to the claimed task.
LEMMA KillKeeps ==
    ASSUME IInv, NEW t \in Threads, Kill(t)
    PROVE  IInv'
<1>1. TypeOK'
    BY DEF Kill, Goes, TypeOK, CallsOK, InHalt, UsesThis, objects, bounds, IInv
<1>2. CallsOK'
    BY DEF Kill, Goes, TypeOK, CallsOK, InCreate, UsesThis, Slot, This, bounds, IInv
<1>3. FreshOK'
    BY DEF Kill, Goes, FreshOK, Unstored, InCreate, UsesThis, This, objects, bounds, IInv
<1>4. AloneOK'
    BY DEF Kill, Goes, AloneOK, Creating, Runs, This, Slot, objects, IInv
<1>5. CreatedOK'
    BY DEF Kill, Goes, CreatedOK, HandleNamesTask, Creating, Runs, This, Slot, objects, IInv
<1>6. SignalsOK'
    BY DEF Kill, SignalsOK, IInv
<1>7. StatesOK'
    BY DEF Kill, Goes, StatesOK, Claims, This, objects, IInv
<1>8. DueOK'
    BY DEF Kill, Goes, TypeOK, DueOK, InCreate, This, Slot, objects, IInv
<1>9. HaltEndsAll'
    BY DEF Kill, Goes, DueOK, HaltEndsAll, InHalt, This, Slot, IInv
<1> QED BY <1>1, <1>2, <1>3, <1>4, <1>5, <1>6, <1>7, <1>8, <1>9 DEF IInv

\* Halt goes past a task it has joined, which has ended.
LEMMA JoinKeeps ==
    ASSUME IInv, NEW t \in Threads, Join(t)
    PROVE  IInv'
<1>1. TypeOK'
    <2>1. local' \in [Threads -> Locals]
        <3>1. Slot(t) + 1 \in 0 .. MAX_THREADS /\ local[t] \in Locals
            BY BoundsAssumption DEF Join, Goes, CallsOK, InHalt, Slots, IInv, TypeOK
        <3> QED BY <3>1, LocalsSet DEF Join, NextSlot, Slot, IInv, TypeOK
    <2> QED BY <2>1 DEF Join, Goes, InHalt, objects, signals, bounds, IInv, TypeOK
<1>2. CallsOK'
    BY DEF Join, Goes, NextSlot, This, TypeOK, CallsOK, InCreate, UsesThis, Slot, bounds, IInv
<1>3. FreshOK'
    BY DEF Join, Goes, NextSlot, This, FreshOK, Unstored, InCreate, objects, bounds, IInv
<1>4. AloneOK'
    BY DEF Join, Goes, NextSlot, This, AloneOK, Creating, Runs, Slot, objects, IInv
<1>5. CreatedOK'
    BY DEF Join, Goes, NextSlot, This, CreatedOK, HandleNamesTask, Creating, Runs, Slot,
           objects, IInv
<1>6. SignalsOK'
    BY DEF Join, SignalsOK, signals, IInv
<1>7. StatesOK'
    BY DEF Join, Goes, NextSlot, This, StatesOK, Claims, objects, IInv
<1>8. DueOK'
    BY DEF Join, Goes, NextSlot, This, TypeOK, DueOK, InCreate, Slot, objects, IInv
<1>9. HaltEndsAll'
    <2>1. \A u \in Threads \ {t} : local'[u] = local[u] /\ pc'[u] = pc[u]
        BY DEF Join, Goes, NextSlot, IInv, TypeOK
    <2>2. pc[t] = "join" /\ pc'[t] = "visit" /\ UNCHANGED <<m_threads, at>>
        BY DEF Join, Goes, objects, IInv, TypeOK
    <2>3. Slot(t) \in Slots /\ Slot(t)' = Slot(t) + 1 /\ local'[t].due = local[t].due
        BY DEF Join, Goes, NextSlot, CallsOK, InHalt, Slot, Locals, IInv, TypeOK
    <2>4. m_threads[Slot(t)] \in local[t].due => at[m_threads[Slot(t)]] = "ended"
        BY <2>2 DEF Join, DueOK, InHalt, IInv
    <2>5. ASSUME NEW i \in 0 .. Slot(t)' - 1, m_threads'[i] \in local'[t].due
          PROVE  \/ at'[m_threads'[i]] = "ended"
                 \/ \E v \in Threads \ {t} :
                       pc'[v] \in {"claimed", "kill", "join"} /\ This(v)' = m_threads'[i]
        <3>1. i \in 0 .. Slot(t) - 1 \/ i = Slot(t)
            BY <2>3, BoundsAssumption DEF Slots
        <3> QED BY <2>1, <2>2, <2>3, <2>4, <2>5, <3>1 DEF HaltEndsAll, InHalt, This, IInv
    <2>6. ASSUME NEW u \in Threads, u # t, pc'[u] \in InHalt, NEW i \in 0 .. Slot(u)' - 1,
                 m_threads'[i] \in local'[u].due
          PROVE  \/ at'[m_threads'[i]] = "ended"
                 \/ \E v \in Threads \ {u} :
                       pc'[v] \in {"claimed", "kill", "join"} /\ This(v)' = m_threads'[i]
        <3>1. \/ at[m_threads[i]] = "ended"
              \/ \E v \in Threads \ {u} :
                    pc[v] \in {"claimed", "kill", "join"} /\ This(v) = m_threads[i]
            BY <2>1, <2>2, <2>6 DEF HaltEndsAll, Slot, IInv
        <3> QED BY <2>1, <2>2, <3>1 DEF This, Join
    <2> QED BY <2>5, <2>6 DEF HaltEndsAll
<1> QED BY <1>1, <1>2, <1>3, <1>4, <1>5, <1>6, <1>7, <1>8, <1>9 DEF IInv

-----------------------------------------------------------------------------
\* Every step keeps the invariant.
LEMMA NextIInv ==
    IInv /\ [Next]_vars => IInv'
<1> SUFFICES ASSUME IInv, [Next]_vars PROVE IInv'
    OBVIOUS
<1>1. ASSUME NEW t \in Threads, TaskCreate(t) PROVE IInv'
    BY <1>1, TaskCreateKeeps
<1>2. ASSUME NEW t \in Threads, Halt(t) PROVE IInv'
    BY <1>2, HaltKeeps
<1>3. ASSUME NEW t \in Threads, Inside(t) PROVE IInv'
    BY <1>3, StoreNewKeeps, CallPostKeeps, TestRunnableKeeps, PostNothingKeeps, SetRunnableKeeps,
           StartThreadKeeps, PostUnlocksKeeps, HaltEndsKeeps, SkipEmptyKeeps,
           VisitKeeps, ClaimKeeps, ClaimNothingKeeps, HaltUnlocksKeeps, PassesKeeps,
           KillKeeps, JoinKeeps
       DEF Inside
<1>4. ASSUME NEW o \in Tasks, Arms(o) \/ Begins(o) \/ Ends(o) \/ Delivery(o) PROVE IInv'
    BY <1>4, ArmsKeeps, BeginsKeeps, EndsKeeps, ThreadExitKeeps, DefaultActionKeeps
       DEF Delivery
<1>5. CASE UNCHANGED vars
    <2>1. TypeOK' /\ CallsOK' /\ SignalsOK' /\ StatesOK'
        BY <1>5 DEF vars, objects, signals, bounds, IInv, TypeOK, CallsOK, SignalsOK, StatesOK,
                    This, Slot, Claims
    <2>2. FreshOK' /\ AloneOK'
        BY <1>5 DEF vars, objects, signals, bounds, IInv, FreshOK, AloneOK, Unstored, Creating,
                    Runs, This, Slot
    <2>3. CreatedOK' /\ DueOK' /\ HaltEndsAll'
        BY <1>5 DEF vars, objects, signals, bounds, IInv, CreatedOK, HandleNamesTask, DueOK,
                    HaltEndsAll, Creating, Runs, This, Slot
    <2> QED BY <2>1, <2>2, <2>3 DEF IInv
<1> QED BY <1>1, <1>2, <1>3, <1>4, <1>5 DEF Next

\* TypeOK, for any callers, slots, tasks and halts.
THEOREM TasksTypesCorrect ==
    Spec => []TypeOK
<1>1. IInv => TypeOK
    BY DEF IInv
<1> QED BY InitIInv, NextIInv, <1>1, PTL DEF Spec

(***************************************************************************)
(* HandleNamesTask: the handle of a TaskCreate that no other overlapped    *)
(* keeps naming its task, however many slots, callers and Halts there are. *)
(***************************************************************************)
THEOREM HandlesKeepNaming ==
    Spec => []HandleNamesTask
<1>1. IInv => HandleNamesTask
    BY DEF IInv, CreatedOK
<1> QED BY InitIInv, NextIInv, <1>1, PTL DEF Spec

(***************************************************************************)
(* HaltEndsAll: whatever other Halts do meanwhile, what a Halt has gone    *)
(* past has ended or is another one's to join.                             *)
(***************************************************************************)
THEOREM HaltsEndTheirTasks ==
    Spec => []HaltEndsAll
<1>1. IInv => HaltEndsAll
    BY DEF IInv
<1> QED BY InitIInv, NextIInv, <1>1, PTL DEF Spec

(***************************************************************************)
(* AbortedOnlyEarly: the signal ends the process only before any thread    *)
(* has installed the handler, so before any runnable has begun.            *)
(***************************************************************************)
THEOREM ProcessEndsOnlyEarly ==
    Spec => []AbortedOnlyEarly
<1>1. IInv => AbortedOnlyEarly
    BY DEF IInv, SignalsOK, AbortedOnlyEarly
<1> QED BY InitIInv, NextIInv, <1>1, PTL DEF Spec
=============================================================================
