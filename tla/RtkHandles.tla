----------------------------- MODULE RtkHandles -----------------------------
(***************************************************************************)
(* Queues and semaphores of CRtk (tvserver/CRtk/CRtk.cpp), by handle: a    *)
(* slot of m_qs, or the address of an element of m_mtxs, here its index.   *)
(* Both are handed out without a lock.  A MsgQCreate that finds no slot    *)
(* returns 0, a handle that others use, and a SemCreate past the limit     *)
(* NULL, if its ASSERT lets it; neither changes anything.  As in RtkTasks a scan for a free slot  *)
(* is one step, and so is each access to mtx_count, which the compiler     *)
(* may, or may not, repeat up to the call that initialises.  Rivals can    *)
(* take mtx_count past the end of m_mtxs, where mtx_count itself lies: an  *)
(* access there is undefined, and the model ends.  Of a queue only whether *)
(* it has a message is kept; MsgQueue has the rest.                        *)
(***************************************************************************)
EXTENDS Integers, FiniteSets, FiniteSetsExt

CONSTANTS
    Threads,
    MAX_QS, MAX_MUTEXS,
    MaxQueues,      \* bound: queues ever created
    NULL

Queues == 1 .. MaxQueues
Slots  == 0 .. MAX_QS - 1
Semaphores == 0 .. MAX_MUTEXS - 1

ASSUME SizesAssumption == MAX_QS \in Nat \ {0} /\ MAX_MUTEXS \in Nat \ {0} /\ MaxQueues \in Nat
ASSUME NullAssumption == NULL \notin Queues

VARIABLES
    m_qs,           \* the queue in each slot
    made,           \* queues created so far
    pending,        \* queues with a message
    mtx_count,
    m_mtxs,         \* "raw", "free", "held" or "destroyed"
    undefined,      \* a mutex past the end of m_mtxs has been used
    pc, local,      \* each thread's place in a call, and its locals there
    named,          \* history: handles that MsgQCreates without a rival returned
    given,          \* history: how often SemCreate has returned each semaphore
    holders,        \* history: the threads inside each semaphore
    overlapped      \* history: two SemCreates have been under way at once

queueVars == <<m_qs, made, pending, named>>
semVars   == <<mtx_count, m_mtxs, undefined, given, holders, overlapped>>
vars == <<queueVars, semVars, pc, local>>

Locals == [i : Semaphores \cup Slots, queue : Queues \cup {NULL}, alone : BOOLEAN]
NoLocals == [i |-> 0, queue |-> NULL, alone |-> TRUE]

Init ==
    /\ m_qs = [i \in Slots |-> NULL] /\ made = 0 /\ pending = {}
    /\ mtx_count = 0 /\ m_mtxs = [s \in Semaphores |-> "raw"]
    /\ pc = [t \in Threads |-> "idle"] /\ local = [t \in Threads |-> NoLocals]
    /\ undefined = FALSE /\ named = {} /\ overlapped = FALSE
    /\ given = [s \in Semaphores |-> 0] /\ holders = [s \in Semaphores |-> {}]

At(t, from) == ~undefined /\ pc[t] = from
Goes(t, from, to) == At(t, from) /\ pc' = [pc EXCEPT ![t] = to]
Forgets(t) == local' = [local EXCEPT ![t] = NoLocals]

-----------------------------------------------------------------------------
FreeSlots == {i \in Slots : m_qs[i] = NULL}

\* The handle is the slot found; local.alone is history.
MsgQCreate(t) ==
    LET Rival(u) == u # t /\ pc[u] = "store" IN
    /\ Goes(t, "idle", "store")
    /\ FreeSlots # {}
    /\ made < MaxQueues /\ made' = made + 1
    /\ local' = [u \in Threads |->
                   IF u = t THEN [i |-> Min(FreeSlots), queue |-> made', alone |-> ~\E v \in Threads : Rival(v)]
                   ELSE IF Rival(u) THEN [local[u] EXCEPT !.alone = FALSE] ELSE local[u]]
    /\ UNCHANGED <<m_qs, pending, named, semVars>>

\* Mutation of StoreQueue: stored at the slot after the one returned.
StoreQueueNext(t) ==
    LET l == local[t] IN
    /\ Goes(t, "store", "idle")
    /\ m_qs' = [m_qs EXCEPT ![(l.i + 1) % MAX_QS] = l.queue]
    /\ named' = IF l.alone THEN named \cup {[handle |-> l.i, queue |-> l.queue]} ELSE named
    /\ Forgets(t)
    /\ UNCHANGED <<made, pending, semVars>>

StoreQueue(t) ==
    LET l == local[t] IN
    /\ Goes(t, "store", "idle")
    /\ m_qs' = [m_qs EXCEPT ![l.i] = l.queue]
    /\ named' = IF l.alone THEN named \cup {[handle |-> l.i, queue |-> l.queue]} ELSE named
    /\ Forgets(t)
    /\ UNCHANGED <<made, pending, semVars>>

\* The queue a thread is in stays the one it found, whatever the slot holds.
MsgQSend(t, h) ==
    /\ At(t, "idle") /\ m_qs[h] # NULL
    /\ pending' = pending \cup {m_qs[h]}
    /\ UNCHANGED <<m_qs, made, named, semVars, pc, local>>

MsgQReceive(t, h) ==
    /\ Goes(t, "idle", "receive")
    /\ m_qs[h] # NULL
    /\ local' = [local EXCEPT ![t].i = h, ![t].queue = m_qs[h]]
    /\ UNCHANGED <<queueVars, semVars>>

Received(t) ==
    /\ Goes(t, "receive", "idle")
    /\ local[t].queue \in pending /\ pending' = pending \ {local[t].queue}
    /\ Forgets(t)
    /\ UNCHANGED <<m_qs, made, named, semVars>>

-----------------------------------------------------------------------------
(***************************************************************************)
(* SemCreate: check the count, initialise the next mutex, return it and    *)
(* count it.                                                               *)
(***************************************************************************)
\* Mutation of Room: off by one.
RoomForOneMore == mtx_count =< MAX_MUTEXS

Room == mtx_count < MAX_MUTEXS

SemCreate(t) ==
    /\ Goes(t, "idle", "init")
    /\ Room
    /\ local' = [local EXCEPT ![t].i = mtx_count]
    /\ overlapped' = (overlapped \/ \E u \in Threads : pc[u] \in {"init", "take", "count"})
    /\ UNCHANGED <<queueVars, mtx_count, m_mtxs, undefined, given, holders>>

SemInit(t) ==
    /\ Goes(t, "init", "take")
    /\ \E s \in {local[t].i, mtx_count} \cap Semaphores : m_mtxs' = [m_mtxs EXCEPT ![s] = "free"]
    /\ UNCHANGED <<queueVars, mtx_count, undefined, given, holders, overlapped, local>>

\* The element initialised, or the one whose address is to be returned, is not there.
SemPastEnd(t) ==
    /\ At(t, "init") \/ At(t, "take")
    /\ mtx_count \notin Semaphores
    /\ undefined' = TRUE
    /\ UNCHANGED <<queueVars, mtx_count, m_mtxs, given, holders, overlapped, pc, local>>

SemTake(t) ==
    /\ Goes(t, "take", "count")
    /\ mtx_count \in Semaphores
    /\ local' = [local EXCEPT ![t].i = mtx_count]
    /\ UNCHANGED <<queueVars, semVars>>

SemCreated(t) ==
    LET s == local[t].i IN
    /\ Goes(t, "count", "idle")
    /\ mtx_count' = s + 1
    /\ given' = [given EXCEPT ![s] = @ + 1]
    /\ Forgets(t)
    /\ UNCHANGED <<queueVars, m_mtxs, undefined, holders, overlapped>>

\* lock, unlock and destroy check nothing in the code.  What is modelled are
\* clients that use a semaphore as a lock: released by the thread that took it,
\* and deleted while nobody is inside.
SemAcquire(t, s) ==
    /\ At(t, "idle") /\ given[s] > 0 /\ m_mtxs[s] = "free"
    /\ m_mtxs' = [m_mtxs EXCEPT ![s] = "held"]
    /\ holders' = [holders EXCEPT ![s] = @ \cup {t}]
    /\ UNCHANGED <<queueVars, mtx_count, undefined, given, overlapped, pc, local>>

SemRelease(t, s) ==
    /\ At(t, "idle") /\ t \in holders[s]
    /\ m_mtxs' = [m_mtxs EXCEPT ![s] = "free"]
    /\ holders' = [holders EXCEPT ![s] = @ \ {t}]
    /\ UNCHANGED <<queueVars, mtx_count, undefined, given, overlapped, pc, local>>

\* Its element is not used again.
SemDelete(t, s) ==
    /\ At(t, "idle") /\ given[s] > 0 /\ m_mtxs[s] = "free"
    /\ m_mtxs' = [m_mtxs EXCEPT ![s] = "destroyed"]
    /\ UNCHANGED <<queueVars, mtx_count, undefined, given, holders, overlapped, pc, local>>

Next == \E t \in Threads :
    \/ MsgQCreate(t) \/ StoreQueue(t) \/ Received(t)
    \/ SemCreate(t) \/ SemInit(t) \/ SemPastEnd(t) \/ SemTake(t) \/ SemCreated(t)
    \/ \E h \in Slots : MsgQSend(t, h) \/ MsgQReceive(t, h)
    \/ \E s \in Semaphores : SemAcquire(t, s) \/ SemRelease(t, s) \/ SemDelete(t, s)

Spec == Init /\ [][Next]_vars

-----------------------------------------------------------------------------
\* Types: the index of a semaphore that is used never lies past the end.
TypeOK ==
    /\ m_qs \in [Slots -> Queues \cup {NULL}]
    /\ made \in 0 .. MaxQueues /\ pending \subseteq Queues
    /\ mtx_count \in 0 .. MAX_MUTEXS /\ undefined \in BOOLEAN
    /\ m_mtxs \in [Semaphores -> {"raw", "free", "held", "destroyed"}]
    /\ pc \in [Threads -> {"idle", "store", "receive", "init", "take", "count"}]
    /\ local \in [Threads -> Locals]
    /\ named \subseteq [handle : Slots, queue : Queues]
    /\ given \in [Semaphores -> Nat] /\ holders \in [Semaphores -> SUBSET Threads]
    /\ overlapped \in BOOLEAN

\* A handle from a MsgQCreate without a rival names its own queue for good, and
\* whoever waits by it waits in that queue.
QueuesSeparate ==
    \A n \in named :
        /\ m_qs[n.handle] = n.queue
        /\ \A t \in Threads : pc[t] = "receive" /\ local[t].i = n.handle => local[t].queue = n.queue

\* A semaphore was returned once, is an initialised element of m_mtxs, and has
\* at most one thread inside, for as long as no two SemCreates overlap.
SemaphoresSeparate ==
    /\ ~undefined
    /\ \A s \in Semaphores :
        /\ given[s] =< 1 /\ Cardinality(holders[s]) =< 1
        /\ given[s] = 1 => m_mtxs[s] # "raw"
        /\ holders[s] # {} => m_mtxs[s] = "held"

(***************************************************************************)
(* Two handles that CRtk gives out never share what they name, which is    *)
(* all that the unlocked creation of both promises (CRtk.cpp:31-44, 66-80):*)
(* rival MsgQCreates fill one slot twice, and after rival SemCreates even  *)
(* a lone one may re-initialise a mutex that is held.                      *)
(***************************************************************************)
HandlesSeparate == QueuesSeparate /\ (~overlapped => SemaphoresSeparate)
=============================================================================
