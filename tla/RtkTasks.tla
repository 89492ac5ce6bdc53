------------------------------ MODULE RtkTasks ------------------------------
(***************************************************************************)
(* The tasks of CRtk (tvserver/CRtk/CRtk.cpp, CRtk.h): a table m_threads   *)
(* of CRunOnce objects (CRunOnce.h), each a thread that runs one runnable  *)
(* once.  TaskCreate takes a free slot, makes an object and posts the      *)
(* runnable to it; Halt goes through the table, signals each thread that   *)
(* runs, and joins it.  Both may be called by any thread, tasks included.  *)
(*                                                                         *)
(* Object and thread of a task, and the runnable its TaskCreate was given, *)
(* are one number, the order of creation.  The slots are scanned in one    *)
(* step: none becomes free again, so what a scan finds is what it would    *)
(* find at once when it ends.  SIGUSR2 ends the thread wherever it is, the *)
(* mutexes it holds stay locked; without a handler it ends the process.    *)
(***************************************************************************)
EXTENDS Integers, FiniteSets, FiniteSetsExt

CONSTANTS
    Callers,        \* threads that are not tasks
    MAX_THREADS,    \* slots of m_threads
    MaxTasks,       \* bound: tasks ever created
    MaxHalts,       \* bound: calls of Halt
    NULL

Tasks   == 1 .. MaxTasks
Threads == Callers \cup Tasks
Slots   == 0 .. MAX_THREADS - 1

ASSUME BoundsAssumption == MAX_THREADS \in Nat \ {0} /\ MaxTasks \in Nat /\ MaxHalts \in Nat
ASSUME CallersAssumption == Callers \cap Tasks = {} /\ NULL \notin Threads

VARIABLES
    m_threads,                          \* CRtk: the object in each slot
    m_mutex, m_state, m_runnable,       \* CRunOnce, for each object
    at,             \* where the thread of each task is
    armed,          \* the process has a handler for SIGUSR2
    signalled,      \* tasks that SIGUSR2 has been sent to
    aborted,        \* SIGUSR2 has ended the process
    pc,             \* where each thread is in TaskCreate or Halt
    local,          \* and its locals there
    made, halts,    \* tasks made and calls of Halt so far
    created         \* history: what TaskCreates without a rival returned

objects == <<m_mutex, m_state, m_runnable>>
signals == <<armed, signalled, aborted>>
bounds  == <<made, halts>>
vars == <<m_threads, objects, at, signals, pc, local, bounds, created>>

(***************************************************************************)
(* Of a call: i; the object it made, if any; `this` of the inner Post or   *)
(* Halt; and, as history, whether no other TaskCreate has been under way,  *)
(* and which tasks of the table had been started when the Halt began.      *)
(***************************************************************************)
Locals == [i : 0 .. MAX_THREADS, new : Tasks \cup {NULL}, this : Tasks \cup {NULL},
           alone : BOOLEAN, due : SUBSET Tasks]
NoLocals == [i |-> 0, new |-> NULL, this |-> NULL, alone |-> TRUE, due |-> {}]

Init ==
    /\ m_threads = [i \in Slots |-> NULL]
    /\ m_mutex = [o \in Tasks |-> NULL]
    /\ m_state = [o \in Tasks |-> "RUN_STATE_INIT"]
    /\ m_runnable = [o \in Tasks |-> NULL]
    /\ at = [o \in Tasks |-> "none"]
    /\ armed = FALSE /\ signalled = {} /\ aborted = FALSE
    /\ pc = [t \in Threads |-> "idle"]
    /\ local = [t \in Threads |-> NoLocals]
    /\ made = 0 /\ halts = 0
    /\ created = {}

Runs(t) == ~aborted /\ (t \in Tasks => at[t] = "running")

Goes(t, from, to) == Runs(t) /\ pc[t] = from /\ pc' = [pc EXCEPT ![t] = to]

This(t) == local[t].this
Slot(t) == local[t].i

Acquires(t) == m_mutex[This(t)] = NULL /\ m_mutex' = [m_mutex EXCEPT ![This(t)] = t]
Releases(t) == m_mutex' = [m_mutex EXCEPT ![This(t)] = NULL]
Forgets(t)  == local' = [local EXCEPT ![t] = NoLocals]
NextSlot(t) == local' = [local EXCEPT ![t].i = @ + 1]

-----------------------------------------------------------------------------
(***************************************************************************)
(* TaskCreate.  If no slot is free it returns 0 and does nothing.          *)
(***************************************************************************)
Creating(t) == Runs(t) /\ pc[t] \in {"store", "post", "test", "set", "lock", "unlock"}

\* Mutation of FreeSlots: the slot of a halted task is taken again.
FreeOrHalted == {i \in Slots : m_threads[i] = NULL \/ m_state[m_threads[i]] = "RUN_STATE_HALTED"}

FreeSlots == {i \in Slots : m_threads[i] = NULL}

TaskCreate(t) ==
    LET Rival(u) == u # t /\ Creating(u) IN
    /\ Goes(t, "idle", "store")
    /\ FreeSlots # {}
    /\ made < MaxTasks /\ made' = made + 1
    /\ local' = [u \in Threads |->
                   IF u = t THEN [i |-> Min(FreeSlots), new |-> made', this |-> NULL,
                                  alone |-> ~\E v \in Threads : Rival(v), due |-> {}]
                   ELSE IF Rival(u) THEN [local[u] EXCEPT !.alone = FALSE] ELSE local[u]]
    /\ UNCHANGED <<m_threads, objects, at, signals, halts, created>>

StoreNew(t) ==
    /\ Goes(t, "store", "post")
    /\ m_threads' = [m_threads EXCEPT ![Slot(t)] = local[t].new]
    /\ UNCHANGED <<objects, at, signals, local, bounds, created>>

\* m_threads[i] is read again for the call of Post, or kept from the store.
CallPost(t) ==
    /\ Goes(t, "post", "test")
    /\ \E o \in {local[t].new, m_threads[Slot(t)]} : local' = [local EXCEPT ![t].this = o]
    /\ UNCHANGED <<m_threads, objects, at, signals, bounds, created>>

TaskCreated(t) ==
    /\ created' = IF local[t].alone THEN created \cup {[handle |-> Slot(t), task |-> local[t].new]}
                  ELSE created
    /\ Forgets(t)

(***************************************************************************)
(* Post: m_runnable is tested and set without the mutex; the thread is     *)
(* started under it.                                                       *)
(***************************************************************************)
TestRunnable(t) ==
    /\ Goes(t, "test", "set")
    /\ m_runnable[This(t)] = NULL
    /\ UNCHANGED <<m_threads, objects, at, signals, local, bounds, created>>

PostNothing(t) ==
    /\ Goes(t, "test", "idle")
    /\ m_runnable[This(t)] # NULL
    /\ TaskCreated(t)
    /\ UNCHANGED <<m_threads, objects, at, signals, bounds>>

SetRunnable(t) ==
    /\ Goes(t, "set", "lock")
    /\ m_runnable' = [m_runnable EXCEPT ![This(t)] = local[t].new]
    /\ UNCHANGED <<m_threads, m_mutex, m_state, at, signals, local, bounds, created>>

StartThread(t) ==
    LET starts == m_state[This(t)] = "RUN_STATE_INIT" IN
    /\ Goes(t, "lock", "unlock")
    /\ Acquires(t)
    /\ m_state' = IF starts THEN [m_state EXCEPT ![This(t)] = "RUN_STATE_RUNNING"] ELSE m_state
    /\ at' = IF starts THEN [at EXCEPT ![This(t)] = "created"] ELSE at
    /\ UNCHANGED <<m_threads, m_runnable, signals, local, bounds, created>>

PostUnlocks(t) ==
    /\ Goes(t, "unlock", "idle")
    /\ Releases(t)
    /\ TaskCreated(t)
    /\ UNCHANGED <<m_threads, m_state, m_runnable, at, signals, bounds>>

-----------------------------------------------------------------------------
(***************************************************************************)
(* The thread of a task, looper_func.                                      *)
(***************************************************************************)
Moves(o, from, to) ==
    /\ ~aborted
    /\ at[o] \in from /\ at' = [at EXCEPT ![o] = to]
    /\ UNCHANGED <<m_threads, objects, signalled, aborted, pc, local, bounds, created>>

Arms(o) == Moves(o, {"created"}, "armed") /\ armed' = TRUE

\* Mutation of Begins: the runnable may be run before the handler is installed.
BeginsUnarmed(o) == Moves(o, {"created", "armed"}, "running") /\ UNCHANGED armed

Begins(o) == Moves(o, {"armed"}, "running") /\ UNCHANGED armed

Ends(o) == pc[o] = "idle" /\ Moves(o, {"running"}, "ended") /\ UNCHANGED armed

\* The signal is delivered: thread_exit, or the default action.
ThreadExit(o) ==
    /\ o \in signalled /\ armed
    /\ Moves(o, {"created", "armed", "running"}, "ended") /\ UNCHANGED armed

DefaultAction(o) ==
    /\ ~aborted
    /\ o \in signalled /\ ~armed /\ at[o] \notin {"none", "ended"}
    /\ aborted' = TRUE
    /\ UNCHANGED <<m_threads, objects, at, armed, signalled, pc, local, bounds, created>>

-----------------------------------------------------------------------------
(***************************************************************************)
(* CRtk::Halt goes from slot to slot, and in each calls CRunOnce::Halt:    *)
(* claim the thread under the mutex; if claimed, signal and join it.       *)
(***************************************************************************)
Started == {o \in Tasks : at[o] # "none" /\ \E i \in Slots : m_threads[i] = o}

Halt(t) ==
    /\ Goes(t, "idle", "visit")
    /\ halts < MaxHalts /\ halts' = halts + 1
    /\ local' = [local EXCEPT ![t].due = Started]
    /\ UNCHANGED <<m_threads, objects, at, signals, made, created>>

HaltEnds(t) ==
    /\ Goes(t, "visit", "idle")
    /\ Slot(t) = MAX_THREADS
    /\ Forgets(t)
    /\ UNCHANGED <<m_threads, objects, at, signals, bounds, created>>

SkipEmpty(t) ==
    /\ Goes(t, "visit", "visit")
    /\ Slot(t) \in Slots /\ m_threads[Slot(t)] = NULL
    /\ NextSlot(t)
    /\ UNCHANGED <<m_threads, objects, at, signals, bounds, created>>

Visit(t) ==
    /\ Goes(t, "visit", "claim")
    /\ Slot(t) \in Slots /\ m_threads[Slot(t)] # NULL
    /\ local' = [local EXCEPT ![t].this = m_threads[Slot(t)]]
    /\ UNCHANGED <<m_threads, objects, at, signals, bounds, created>>

Claim(t) ==
    /\ Goes(t, "claim", "claimed")
    /\ m_state[This(t)] = "RUN_STATE_RUNNING"
    /\ Acquires(t)
    /\ m_state' = [m_state EXCEPT ![This(t)] = "RUN_STATE_HALTED"]
    /\ UNCHANGED <<m_threads, m_runnable, at, signals, local, bounds, created>>

ClaimNothing(t) ==
    /\ Goes(t, "claim", "passed")
    /\ m_state[This(t)] # "RUN_STATE_RUNNING"
    /\ Acquires(t)
    /\ UNCHANGED <<m_threads, m_state, m_runnable, at, signals, local, bounds, created>>

HaltUnlocks(t) ==
    /\ Goes(t, "claimed", "kill")
    /\ Releases(t)
    /\ UNCHANGED <<m_threads, m_state, m_runnable, at, signals, local, bounds, created>>

\* Mutations of Passes: the mutex is kept; a slot is left out.
PassesLocked(t) ==
    /\ Goes(t, "passed", "visit")
    /\ NextSlot(t)
    /\ UNCHANGED <<m_threads, objects, at, signals, bounds, created>>

PassesTwo(t) ==
    /\ Goes(t, "passed", "visit")
    /\ Releases(t)
    /\ local' = [local EXCEPT ![t].i = @ + 2]
    /\ UNCHANGED <<m_threads, m_state, m_runnable, at, signals, bounds, created>>

Passes(t) ==
    /\ Goes(t, "passed", "visit")
    /\ Releases(t)
    /\ NextSlot(t)
    /\ UNCHANGED <<m_threads, m_state, m_runnable, at, signals, bounds, created>>

\* A task that signals itself gets no further: it never joins itself.
Kill(t) ==
    /\ Goes(t, "kill", "join")
    /\ signalled' = signalled \cup {This(t)}
    /\ UNCHANGED <<m_threads, objects, at, armed, aborted, local, bounds, created>>

\* Mutation of Join: the thread is not waited for.
JoinsNot(t) ==
    /\ Goes(t, "join", "visit")
    /\ NextSlot(t)
    /\ UNCHANGED <<m_threads, objects, at, signals, bounds, created>>

Join(t) ==
    /\ Goes(t, "join", "visit")
    /\ at[This(t)] = "ended"
    /\ NextSlot(t)
    /\ UNCHANGED <<m_threads, objects, at, signals, bounds, created>>

-----------------------------------------------------------------------------
Inside(t) ==
    \/ StoreNew(t) \/ CallPost(t) \/ TestRunnable(t) \/ PostNothing(t) \/ SetRunnable(t)
    \/ StartThread(t) \/ PostUnlocks(t)
    \/ HaltEnds(t) \/ SkipEmpty(t) \/ Visit(t) \/ Claim(t) \/ ClaimNothing(t) \/ HaltUnlocks(t)
    \/ Passes(t) \/ Kill(t) \/ Join(t)

Delivery(o) == ThreadExit(o) \/ DefaultAction(o)

Next ==
    \/ \E t \in Threads : TaskCreate(t) \/ Halt(t) \/ Inside(t)
    \/ \E o \in Tasks : Arms(o) \/ Begins(o) \/ Ends(o) \/ Delivery(o)

\* A thread inside a call goes on, and a signal that was sent arrives.  No
\* runnable has to end.
Fairness ==
    /\ \A t \in Threads : WF_vars(Inside(t))
    /\ \A o \in Tasks : WF_vars(Delivery(o))

Spec == Init /\ [][Next]_vars /\ Fairness

-----------------------------------------------------------------------------
InCreate == {"store", "post", "test", "set", "lock", "unlock"}
InHalt   == {"visit", "claim", "claimed", "passed", "kill", "join"}

\* Types.
TypeOK ==
    /\ m_threads \in [Slots -> Tasks \cup {NULL}]
    /\ m_mutex \in [Tasks -> Threads \cup {NULL}]
    /\ m_state \in [Tasks -> {"RUN_STATE_INIT", "RUN_STATE_RUNNING", "RUN_STATE_HALTED"}]
    /\ m_runnable \in [Tasks -> Tasks \cup {NULL}]
    /\ at \in [Tasks -> {"none", "created", "armed", "running", "ended"}]
    /\ armed \in BOOLEAN /\ signalled \subseteq Tasks /\ aborted \in BOOLEAN
    /\ pc \in [Threads -> {"idle"} \cup InCreate \cup InHalt]
    /\ local \in [Threads -> Locals]
    /\ made \in 0 .. MaxTasks /\ halts \in 0 .. MaxHalts
    /\ created \subseteq [handle : Slots, task : Tasks]

(***************************************************************************)
(* A TaskCreate that no other one overlapped has started its runnable, and *)
(* its handle keeps naming that task: nothing later takes the slot or the  *)
(* object (the unlocked tests at CRtk.cpp:19 and CRunOnce.h:48).           *)
(***************************************************************************)
HandleNamesTask ==
    \A c \in created :
        /\ m_threads[c.handle] = c.task /\ m_runnable[c.task] = c.task
        /\ at[c.task] # "none"

(***************************************************************************)
(* What a Halt has gone past has ended: each task that was running in the  *)
(* table when it began and is still in the slot it has passed is over, or  *)
(* another Halt has claimed it and is about to join it, unless that one    *)
(* was itself killed before it could.                                      *)
(***************************************************************************)
HaltEndsAll ==
    \A t \in Threads : pc[t] \in InHalt =>
        \A i \in 0 .. Slot(t) - 1 :
            m_threads[i] \in local[t].due =>
                \/ at[m_threads[i]] = "ended"
                \/ \E u \in Threads \ {t} : pc[u] \in {"claimed", "kill", "join"} /\ This(u) = m_threads[i]

(***************************************************************************)
(* SIGUSR2 ends the process (CRunOnce.h:85) only before any runnable has   *)
(* begun: the handler is installed once for all threads.                   *)
(***************************************************************************)
AbortedOnlyEarly == aborted => \A o \in Tasks : at[o] \in {"none", "created"}

(***************************************************************************)
(* Halt returns: it waits neither for a mutex nor for a thread for ever,   *)
(* unless its caller or the process is killed, or the mutex it wants was   *)
(* held by a task that another Halt killed (CRunOnce.h:25, 76).            *)
(***************************************************************************)
Killed(t) == aborted \/ (t \in Tasks /\ at[t] = "ended")
Abandoned(o) == m_mutex[o] # NULL /\ Killed(m_mutex[o])

HaltReturns ==
    \A t \in Threads :
        pc[t] \in InHalt ~>
            pc[t] = "idle" \/ Killed(t) \/ (pc[t] = "claim" /\ Abandoned(This(t)))
=============================================================================
