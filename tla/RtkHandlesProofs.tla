-------------------------- MODULE RtkHandlesProofs --------------------------
(***************************************************************************)
(* Theorems about RtkHandles, for any threads and any sizes.  That handles *)
(* are separate is not inductive: nothing in it says where the creations   *)
(* under way are about to write.  A queue that has a name, and a semaphore *)
(* that has been returned, stay apart from those slots.                    *)
(***************************************************************************)
EXTENDS RtkHandles, FiniteSetTheorems, WellFoundedInduction, TLAPS

\* A queue about to be stored is a queue; without a rival its slot is still free.
\* No creation under way has the slot of a queue that was named.
StoresOK == \A t \in Threads : pc[t] = "store" =>
    /\ local[t].i \in Slots /\ local[t].queue \in Queues
    /\ local[t].alone =>
          /\ m_qs[local[t].i] = NULL
          /\ \A u \in Threads : pc[u] = "store" => u = t
    /\ \A n \in named : n.handle # local[t].i

\* A receiver waits by a handle that leads to some queue.
ReceivesOK == \A t \in Threads : pc[t] = "receive" =>
    /\ local[t].i \in Slots /\ local[t].queue \in Queues
    /\ m_qs[local[t].i] # NULL

InSemCreate == {"init", "take", "count"}

CountsOK == \A t \in Threads : pc[t] \in InSemCreate => local[t].i \in Semaphores

\* While SemCreates take turns: the one under way is at the first semaphore not yet
\* returned, and up to there each was initialised and returned once.
TurnsOK == ~overlapped =>
    /\ ~undefined
    /\ \A t \in Threads : pc[t] \in InSemCreate =>
          /\ local[t].i = mtx_count /\ mtx_count < MAX_MUTEXS
          /\ pc[t] # "init" => m_mtxs[mtx_count] = "free"
          /\ \A u \in Threads : pc[u] \in InSemCreate => u = t
    /\ \A s \in Semaphores :
          /\ given[s] = IF s < mtx_count THEN 1 ELSE 0
          /\ s < mtx_count => m_mtxs[s] # "raw"
          /\ holders[s] # {} => m_mtxs[s] = "held" /\ s < mtx_count
          /\ \A t, u \in holders[s] : t = u

IInv == TypeOK /\ StoresOK /\ ReceivesOK /\ CountsOK /\ TurnsOK /\ QueuesSeparate

-----------------------------------------------------------------------------
\* A thread's locals in a queue's or a semaphore's creation, and in a receive.
LEMMA LocalsSet ==
    /\ NoLocals \in Locals
    /\ \A l \in Locals :
          /\ l.i \in Semaphores \cup Slots /\ l.queue \in Queues \cup {NULL} /\ l.alone \in BOOLEAN
          /\ [l EXCEPT !.alone = FALSE] \in Locals
          /\ \A i \in Semaphores \cup Slots : [l EXCEPT !.i = i] \in Locals
          /\ \A i \in Semaphores \cup Slots, q \in Queues : [l EXCEPT !.i = i, !.queue = q] \in Locals
    /\ \A i \in Slots, q \in Queues, b \in BOOLEAN : [i |-> i, queue |-> q, alone |-> b] \in Locals
<1>1. NoLocals \in Locals
    BY SizesAssumption DEF NoLocals, Locals, Slots
<1>2. ASSUME NEW l \in Locals
      PROVE  /\ l.i \in Semaphores \cup Slots /\ l.queue \in Queues \cup {NULL} /\ l.alone \in BOOLEAN
             /\ [l EXCEPT !.alone = FALSE] \in Locals
    BY DEF Locals
<1>3. ASSUME NEW l \in Locals, NEW i \in Semaphores \cup Slots
      PROVE  [l EXCEPT !.i = i] \in Locals
    BY DEF Locals
<1>4. ASSUME NEW l \in Locals, NEW i \in Semaphores \cup Slots, NEW q \in Queues
      PROVE  [l EXCEPT !.i = i, !.queue = q] \in Locals
    BY DEF Locals
<1>5. \A i \in Slots, q \in Queues, b \in BOOLEAN : [i |-> i, queue |-> q, alone |-> b] \in Locals
    BY DEF Locals
<1> QED BY <1>1, <1>2, <1>3, <1>4, <1>5

\* Before anything is created the invariant holds.
LEMMA InitIInv == Init => IInv
<1> SUFFICES ASSUME Init PROVE IInv
    OBVIOUS
<1>1. TypeOK
    <2>1. 0 \in 0 .. MaxQueues /\ 0 \in 0 .. MAX_MUTEXS /\ 0 \in Nat
        BY SizesAssumption
    <2>2. m_qs \in [Slots -> Queues \cup {NULL}] /\ pending \subseteq Queues
        BY DEF Init
    <2>3. local \in [Threads -> Locals]
        BY LocalsSet DEF Init
    <2> QED BY <2>1, <2>2, <2>3 DEF Init, TypeOK
<1>2. StoresOK /\ ReceivesOK /\ CountsOK /\ QueuesSeparate
    BY DEF Init, StoresOK, ReceivesOK, CountsOK, InSemCreate, QueuesSeparate
<1>3. TurnsOK
    BY DEF Init, TurnsOK, InSemCreate, Semaphores
<1> QED BY <1>1, <1>2, <1>3 DEF IInv

\* The least of some natural numbers is one of them.
LEMMA MinIn ==
    ASSUME NEW S, S \subseteq Nat, S # {}
    PROVE  Min(S) \in S
<1> DEFINE R == {p \in Nat \X Nat : p[1] < p[2]}
<1>1. IsWellFoundedOn(R, Nat)
    BY NatLessThanWellFounded DEF OpToRel
<1>2. \A x, y \in Nat : y < x => <<y, x>> \in R
    OBVIOUS
<1>3. \E x \in S : \A y \in S : <<y, x>> \notin R
    <2> HIDE DEF R
    <2> QED BY <1>1, WFMin
<1>4. \E x \in S : \A y \in S : x =< y
    <2> HIDE DEF R
    <2>1. PICK x \in S : \A y \in S : <<y, x>> \notin R
        BY <1>3
    <2>2. \A y \in S : ~ (y < x) /\ x \in Nat /\ y \in Nat
        BY <1>2, <2>1
    <2> QED BY <2>2
<1> QED BY <1>4 DEF Min

-----------------------------------------------------------------------------
\* A creation takes a free slot, so one that no named queue has, and ends every
\* other creation's being alone.
LEMMA CreateKeeps ==
    ASSUME IInv, NEW t \in Threads, MsgQCreate(t)
    PROVE  IInv'
<1> DEFINE first == [i |-> Min(FreeSlots), queue |-> made',
                     alone |-> ~\E v \in Threads : v # t /\ pc[v] = "store"]
<1>1. Min(FreeSlots) \in Slots /\ m_qs[Min(FreeSlots)] = NULL
    <2>1. FreeSlots \subseteq Nat /\ FreeSlots # {}
        BY SizesAssumption DEF FreeSlots, Slots, MsgQCreate
    <2> QED BY <2>1, MinIn DEF FreeSlots
<1>2. made' \in Queues
    BY SizesAssumption DEF MsgQCreate, Queues, IInv, TypeOK
<1>3. first \in Locals
    BY <1>1, <1>2, LocalsSet
<1>4. /\ local' \in [Threads -> Locals] /\ local'[t] = first
      /\ \A u \in Threads \ {t} :
            /\ local'[u].i = local[u].i /\ local'[u].queue = local[u].queue
            /\ pc[u] # "store" => local'[u] = local[u]
            /\ pc[u] = "store" => ~local'[u].alone
    <2>1. local' = [u \in Threads |->
                      IF u = t THEN first
                      ELSE IF u # t /\ pc[u] = "store" THEN [local[u] EXCEPT !.alone = FALSE] ELSE local[u]]
        BY Zenon DEF MsgQCreate
    <2>2. \A u \in Threads : local[u] \in Locals
        BY DEF IInv, TypeOK
    <2> HIDE DEF first
    <2>3. local' \in [Threads -> Locals]
        BY <1>3, <2>1, <2>2, LocalsSet
    <2>4. local'[t] = first
        BY <2>1
    <2>5. ASSUME NEW u \in Threads \ {t}
          PROVE  /\ local'[u].i = local[u].i /\ local'[u].queue = local[u].queue
                 /\ pc[u] # "store" => local'[u] = local[u]
                 /\ pc[u] = "store" => ~local'[u].alone
        BY <2>1, <2>2 DEF Locals
    <2> QED BY <2>3, <2>4, <2>5
<1>5. /\ pc' = [pc EXCEPT ![t] = "store"] /\ pc[t] = "idle"
      /\ UNCHANGED <<m_qs, pending, named, semVars>>
    BY DEF MsgQCreate, Goes, At
<1>6. TypeOK'
    BY <1>2, <1>4, <1>5 DEF IInv, TypeOK, semVars, Queues
<1>7. StoresOK'
    <2> SUFFICES ASSUME NEW u \in Threads, pc'[u] = "store"
                 PROVE  /\ local'[u].i \in Slots /\ local'[u].queue \in Queues
                        /\ local'[u].alone =>
                              /\ m_qs'[local'[u].i] = NULL
                              /\ \A v \in Threads : pc'[v] = "store" => v = u
                        /\ \A n \in named' : n.handle # local'[u].i
        BY DEF StoresOK
    <2>1. CASE u = t
        <3>1. /\ local'[t].i = Min(FreeSlots) /\ local'[t].queue = made'
              /\ local'[t].alone = ~\E v \in Threads : v # t /\ pc[v] = "store"
            <4>1. /\ first.i = Min(FreeSlots) /\ first.queue = made'
                  /\ first.alone = ~\E v \in Threads : v # t /\ pc[v] = "store"
                OBVIOUS
            <4> QED BY <1>4, <4>1, Zenon
        <3>2. \A n \in named : m_qs[n.handle] # NULL
            BY NullAssumption DEF IInv, TypeOK, QueuesSeparate
        <3> QED BY <1>1, <1>2, <1>5, <2>1, <3>1, <3>2 DEF IInv, TypeOK
    <2>2. CASE u # t
        BY <1>4, <1>5, <2>2 DEF IInv, TypeOK, StoresOK
    <2> QED BY <2>1, <2>2
<1>8. ReceivesOK' /\ CountsOK' /\ QueuesSeparate'
    BY <1>4, <1>5 DEF IInv, TypeOK, ReceivesOK, CountsOK, InSemCreate, QueuesSeparate
<1>9. TurnsOK'
    BY <1>4, <1>5 DEF IInv, TypeOK, TurnsOK, InSemCreate, semVars
<1> QED BY <1>6, <1>7, <1>8, <1>9 DEF IInv

\* A store without a rival names its queue, where nobody waits yet; another one
\* does not touch the slot of a named queue.
LEMMA StoreKeeps ==
    ASSUME IInv, NEW t \in Threads, StoreQueue(t)
    PROVE  IInv'
<1>1. /\ pc[t] = "store" /\ pc' = [pc EXCEPT ![t] = "idle"]
      /\ m_qs' = [m_qs EXCEPT ![local[t].i] = local[t].queue]
      /\ named' = IF local[t].alone THEN named \cup {[handle |-> local[t].i, queue |-> local[t].queue]}
                  ELSE named
      /\ local' = [local EXCEPT ![t] = NoLocals]
      /\ UNCHANGED <<made, pending, semVars>>
    BY DEF StoreQueue, Goes, At, Forgets
<1>2. local[t].i \in Slots /\ local[t].queue \in Queues
    BY <1>1 DEF IInv, StoresOK
<1>3. \A n \in named' :
         \/ n \in named /\ n.handle # local[t].i
         \/ local[t].alone /\ n.handle = local[t].i /\ n.queue = local[t].queue
    BY <1>1 DEF IInv, StoresOK
<1>4. TypeOK'
    <2>1. m_qs' \in [Slots -> Queues \cup {NULL}]
        BY <1>1, <1>2 DEF IInv, TypeOK
    <2>2. named' \subseteq [handle : Slots, queue : Queues]
        BY <1>1, <1>2 DEF IInv, TypeOK
    <2> QED BY <1>1, <2>1, <2>2, LocalsSet DEF IInv, TypeOK, semVars
<1>5. StoresOK'
    BY <1>1, <1>2, <1>3 DEF IInv, TypeOK, StoresOK
<1>6. ReceivesOK'
    BY <1>1, <1>2, NullAssumption DEF IInv, TypeOK, ReceivesOK
<1>7. QueuesSeparate'
    BY <1>1, <1>2, <1>3 DEF IInv, TypeOK, StoresOK, ReceivesOK, QueuesSeparate
<1>8. CountsOK'
    BY <1>1 DEF IInv, TypeOK, CountsOK, InSemCreate
<1>9. TurnsOK'
    BY <1>1 DEF IInv, TypeOK, TurnsOK, InSemCreate, semVars
<1> QED BY <1>4, <1>5, <1>6, <1>7, <1>8, <1>9 DEF IInv

\* Sends and receives leave the slots alone; whoever waits has looked its slot up.
LEMMA MessagesKeep ==
    ASSUME IInv, NEW t \in Threads, NEW h \in Slots,
           MsgQSend(t, h) \/ MsgQReceive(t, h) \/ Received(t)
    PROVE  IInv'
<1>1. CASE MsgQSend(t, h)
    BY <1>1 DEF MsgQSend, semVars, IInv, TypeOK, StoresOK, ReceivesOK, CountsOK, TurnsOK, QueuesSeparate
<1>2. CASE MsgQReceive(t, h)
    <2>1. m_qs[h] \in Queues
        BY <1>2 DEF MsgQReceive, IInv, TypeOK
    <2>2. /\ local' \in [Threads -> Locals]
          /\ local'[t].i = h /\ local'[t].queue = m_qs[h]
          /\ \A u \in Threads \ {t} : local'[u] = local[u]
        <3>1. local' = [local EXCEPT ![t] = [@ EXCEPT !.i = h, !.queue = m_qs[h]]]
            BY <1>2, Zenon DEF MsgQReceive
        <3>2. local[t] \in Locals /\ DOMAIN local = Threads
            BY DEF IInv, TypeOK
        <3>3. [local[t] EXCEPT !.i = h, !.queue = m_qs[h]] \in Locals
            BY <2>1, <3>2, LocalsSet
        <3> QED BY <3>1, <3>2, <3>3 DEF IInv, TypeOK, Locals
    <2>3. /\ pc[t] = "idle" /\ pc' = [pc EXCEPT ![t] = "receive"] /\ m_qs[h] # NULL
          /\ UNCHANGED <<queueVars, semVars>>
        BY <1>2 DEF MsgQReceive, Goes, At
    <2>4. TypeOK'
        BY <2>2, <2>3 DEF IInv, TypeOK, queueVars, semVars
    <2>5. StoresOK' /\ ReceivesOK' /\ CountsOK' /\ QueuesSeparate'
        BY <2>1, <2>2, <2>3
        DEF IInv, TypeOK, StoresOK, ReceivesOK, CountsOK, InSemCreate, QueuesSeparate, queueVars
    <2>6. TurnsOK'
        BY <2>2, <2>3 DEF IInv, TypeOK, TurnsOK, InSemCreate, semVars
    <2> QED BY <2>4, <2>5, <2>6 DEF IInv
<1>3. CASE Received(t)
    <2>1. /\ pc[t] = "receive" /\ pc' = [pc EXCEPT ![t] = "idle"]
          /\ pending' = pending \ {local[t].queue} /\ local' = [local EXCEPT ![t] = NoLocals]
          /\ UNCHANGED <<m_qs, made, named, semVars>>
        BY <1>3 DEF Received, Goes, At, Forgets
    <2>2. TypeOK'
        BY <2>1, LocalsSet DEF IInv, TypeOK, semVars
    <2>3. StoresOK' /\ ReceivesOK' /\ CountsOK' /\ QueuesSeparate'
        BY <2>1 DEF IInv, TypeOK, StoresOK, ReceivesOK, CountsOK, InSemCreate, QueuesSeparate
    <2>4. TurnsOK'
        BY <2>1 DEF IInv, TypeOK, TurnsOK, InSemCreate, semVars
    <2> QED BY <2>2, <2>3, <2>4 DEF IInv
<1> QED BY <1>1, <1>2, <1>3

\* The steps of a SemCreate change nothing of the queues.
LEMMA QueuesUntouched ==
    ASSUME IInv, NEW t \in Threads, UNCHANGED queueVars,
           NEW from \in {"idle"} \cup InSemCreate, NEW to \in {"idle"} \cup InSemCreate,
           pc[t] = from, pc' = [pc EXCEPT ![t] = to],
           \A u \in Threads \ {t} : local'[u] = local[u]
    PROVE  StoresOK' /\ ReceivesOK' /\ QueuesSeparate'
BY DEF IInv, TypeOK, StoresOK, ReceivesOK, QueuesSeparate, InSemCreate, queueVars

\* A SemCreate under way is at the count it has read.
LEMMA SemCreateKeeps ==
    ASSUME IInv, NEW t \in Threads, SemCreate(t)
    PROVE  IInv'
<1>1. /\ pc[t] = "idle" /\ pc' = [pc EXCEPT ![t] = "init"] /\ mtx_count < MAX_MUTEXS
      /\ overlapped' = (overlapped \/ \E u \in Threads : pc[u] \in InSemCreate)
      /\ UNCHANGED <<queueVars, mtx_count, m_mtxs, undefined, given, holders>>
    BY DEF SemCreate, Goes, At, Room, InSemCreate
<1>2. mtx_count \in Semaphores
    BY <1>1, SizesAssumption DEF Semaphores, IInv, TypeOK
<1>3. /\ local' \in [Threads -> Locals] /\ local'[t].i = mtx_count
      /\ \A u \in Threads \ {t} : local'[u] = local[u]
    <2>1. local' = [local EXCEPT ![t] = [@ EXCEPT !.i = mtx_count]]
        BY Zenon DEF SemCreate
    <2>2. local[t] \in Locals /\ DOMAIN local = Threads
        BY DEF IInv, TypeOK
    <2>3. [local[t] EXCEPT !.i = mtx_count] \in Locals
        BY <1>2, <2>2, LocalsSet
    <2> QED BY <2>1, <2>2, <2>3 DEF IInv, TypeOK, Locals
<1>4. TypeOK'
    BY <1>1, <1>3 DEF IInv, TypeOK, queueVars
<1>5. StoresOK' /\ ReceivesOK' /\ QueuesSeparate'
    BY <1>1, <1>3, QueuesUntouched DEF InSemCreate
<1>6. CountsOK'
    BY <1>1, <1>2, <1>3 DEF IInv, TypeOK, CountsOK, InSemCreate
<1>7. TurnsOK'
    <2> SUFFICES ASSUME ~overlapped, \A u \in Threads : pc[u] \notin InSemCreate PROVE TurnsOK'
        BY <1>1 DEF TurnsOK
    <2>1. \A u \in Threads : pc'[u] \in InSemCreate => u = t
        BY <1>1 DEF IInv, TypeOK
    <2>2. pc'[t] = "init"
        BY <1>1 DEF IInv, TypeOK
    <2> QED BY <1>1, <1>3, <2>1, <2>2 DEF IInv, TurnsOK
<1> QED BY <1>4, <1>5, <1>6, <1>7 DEF IInv

\* A lone SemCreate initialises the first semaphore not yet returned.
LEMMA SemInitKeeps ==
    ASSUME IInv, NEW t \in Threads, SemInit(t)
    PROVE  IInv'
<1>1. /\ pc[t] = "init" /\ pc' = [pc EXCEPT ![t] = "take"]
      /\ UNCHANGED <<queueVars, mtx_count, undefined, given, holders, overlapped, local>>
    BY DEF SemInit, Goes, At
<1>2. PICK s \in {local[t].i, mtx_count} \cap Semaphores : m_mtxs' = [m_mtxs EXCEPT ![s] = "free"]
    BY DEF SemInit
<1>3. TypeOK'
    BY <1>1, <1>2 DEF IInv, TypeOK, queueVars
<1>4. StoresOK' /\ ReceivesOK' /\ QueuesSeparate'
    BY <1>1, QueuesUntouched DEF InSemCreate
<1>5. CountsOK'
    BY <1>1 DEF IInv, TypeOK, CountsOK, InSemCreate
<1>6. TurnsOK'
    <2> SUFFICES ASSUME ~overlapped PROVE TurnsOK'
        BY <1>1 DEF TurnsOK
    <2>1. s = mtx_count /\ mtx_count \in Nat
        BY <1>1, <1>2, SizesAssumption DEF IInv, TypeOK, TurnsOK, InSemCreate
    <2> QED BY <1>1, <1>2, <2>1 DEF IInv, TypeOK, TurnsOK, InSemCreate, Semaphores
<1> QED BY <1>3, <1>4, <1>5, <1>6 DEF IInv

\* A lone SemCreate never meets the end of m_mtxs.
LEMMA SemPastEndKeeps ==
    ASSUME IInv, NEW t \in Threads, SemPastEnd(t)
    PROVE  IInv'
<1>1. overlapped
    BY SizesAssumption DEF SemPastEnd, At, IInv, TypeOK, TurnsOK, InSemCreate, Semaphores
<1> QED BY <1>1
        DEF SemPastEnd, IInv, TypeOK, StoresOK, ReceivesOK, CountsOK, TurnsOK, QueuesSeparate, queueVars

\* A lone SemCreate takes the semaphore it has initialised.
LEMMA SemTakeKeeps ==
    ASSUME IInv, NEW t \in Threads, SemTake(t)
    PROVE  IInv'
<1>1. /\ pc[t] = "take" /\ pc' = [pc EXCEPT ![t] = "count"] /\ mtx_count \in Semaphores
      /\ UNCHANGED <<queueVars, semVars>>
    BY DEF SemTake, Goes, At
<1>2. /\ local' \in [Threads -> Locals] /\ local'[t].i = mtx_count
      /\ \A u \in Threads \ {t} : local'[u] = local[u]
    <2>1. local' = [local EXCEPT ![t] = [@ EXCEPT !.i = mtx_count]]
        BY Zenon DEF SemTake
    <2>2. local[t] \in Locals /\ DOMAIN local = Threads
        BY DEF IInv, TypeOK
    <2>3. [local[t] EXCEPT !.i = mtx_count] \in Locals
        BY <1>1, <2>2, LocalsSet
    <2> QED BY <2>1, <2>2, <2>3 DEF IInv, TypeOK, Locals
<1>3. TypeOK'
    BY <1>1, <1>2 DEF IInv, TypeOK, queueVars, semVars
<1>4. StoresOK' /\ ReceivesOK' /\ QueuesSeparate'
    BY <1>1, <1>2, QueuesUntouched DEF InSemCreate
<1>5. CountsOK'
    BY <1>1, <1>2 DEF IInv, TypeOK, CountsOK, InSemCreate
<1>6. TurnsOK'
    BY <1>1, <1>2 DEF IInv, TypeOK, TurnsOK, InSemCreate, semVars
<1> QED BY <1>3, <1>4, <1>5, <1>6 DEF IInv

\* A lone SemCreate returns the semaphore it has initialised, and counts it.
LEMMA SemCreatedKeeps ==
    ASSUME IInv, NEW t \in Threads, SemCreated(t)
    PROVE  IInv'
<1>1. /\ pc[t] = "count" /\ pc' = [pc EXCEPT ![t] = "idle"]
      /\ mtx_count' = local[t].i + 1
      /\ given' = [given EXCEPT ![local[t].i] = @ + 1]
      /\ local' = [local EXCEPT ![t] = NoLocals]
      /\ UNCHANGED <<queueVars, m_mtxs, undefined, holders, overlapped>>
    BY DEF SemCreated, Goes, At, Forgets
<1>2. local[t].i \in Semaphores
    BY <1>1 DEF IInv, CountsOK, InSemCreate
<1>3. TypeOK'
    <2>1. mtx_count' \in 0 .. MAX_MUTEXS
        BY <1>1, <1>2, SizesAssumption DEF Semaphores
    <2>2. given' \in [Semaphores -> Nat]
        BY <1>1, <1>2 DEF IInv, TypeOK
    <2> QED BY <1>1, <2>1, <2>2, LocalsSet DEF IInv, TypeOK, queueVars
<1>4. StoresOK' /\ ReceivesOK' /\ QueuesSeparate'
    BY <1>1, QueuesUntouched DEF InSemCreate, IInv, TypeOK
<1>5. CountsOK'
    BY <1>1 DEF IInv, TypeOK, CountsOK, InSemCreate
<1>6. TurnsOK'
    <2> SUFFICES ASSUME ~overlapped PROVE TurnsOK'
        BY <1>1 DEF TurnsOK
    <2>1. local[t].i = mtx_count /\ m_mtxs[mtx_count] = "free"
        BY <1>1 DEF IInv, TurnsOK, InSemCreate
    <2>2. ASSUME NEW u \in Threads, pc'[u] \in InSemCreate PROVE FALSE
        BY <1>1, <2>2 DEF IInv, TypeOK, TurnsOK, InSemCreate
    <2>3. ASSUME NEW s \in Semaphores
          PROVE  /\ given'[s] = IF s < mtx_count' THEN 1 ELSE 0
                 /\ s < mtx_count' => m_mtxs'[s] # "raw"
                 /\ holders'[s] # {} => m_mtxs'[s] = "held" /\ s < mtx_count'
                 /\ \A v, u \in holders'[s] : v = u
        BY <1>1, <1>2, <2>1, SizesAssumption DEF IInv, TypeOK, TurnsOK, Semaphores
    <2> QED BY <1>1, <2>2, <2>3 DEF IInv, TurnsOK
<1> QED BY <1>3, <1>4, <1>5, <1>6 DEF IInv

\* Who gets a semaphore finds it free, so nobody is inside.
LEMMA SemUseKeeps ==
    ASSUME IInv, NEW t \in Threads, NEW s \in Semaphores,
           SemAcquire(t, s) \/ SemRelease(t, s) \/ SemDelete(t, s)
    PROVE  IInv'
<1>1. UNCHANGED <<queueVars, mtx_count, undefined, given, overlapped, pc, local>>
    BY DEF SemAcquire, SemRelease, SemDelete
<1>2. /\ m_mtxs' \in [Semaphores -> {"raw", "free", "held", "destroyed"}]
      /\ holders' \in [Semaphores -> SUBSET Threads]
    BY DEF SemAcquire, SemRelease, SemDelete, IInv, TypeOK
<1>3. TypeOK'
    BY <1>1, <1>2 DEF IInv, TypeOK, queueVars
<1>4. StoresOK' /\ ReceivesOK' /\ QueuesSeparate' /\ CountsOK'
    BY <1>1 DEF IInv, StoresOK, ReceivesOK, QueuesSeparate, CountsOK, queueVars
<1>5. TurnsOK'
    <2> SUFFICES ASSUME ~overlapped PROVE TurnsOK'
        BY <1>1 DEF TurnsOK
    <2>1. s < mtx_count
        BY DEF SemAcquire, SemRelease, SemDelete, IInv, TypeOK, TurnsOK
    <2>2. CASE SemAcquire(t, s)
        BY <1>1, <2>1, <2>2 DEF SemAcquire, IInv, TypeOK, TurnsOK, Semaphores
    <2>3. CASE SemRelease(t, s)
        BY <1>1, <2>1, <2>3 DEF SemRelease, IInv, TypeOK, TurnsOK, Semaphores
    <2>4. CASE SemDelete(t, s)
        BY <1>1, <2>1, <2>4 DEF SemDelete, IInv, TypeOK, TurnsOK, Semaphores
    <2> QED BY <2>2, <2>3, <2>4
<1> QED BY <1>3, <1>4, <1>5 DEF IInv

\* Every step of every thread keeps the invariant.
LEMMA NextIInv == IInv /\ [Next]_vars => IInv'
<1> SUFFICES ASSUME IInv, [Next]_vars PROVE IInv'
    OBVIOUS
<1>1. CASE UNCHANGED vars
    BY <1>1 DEF vars, queueVars, semVars, IInv, TypeOK, StoresOK, ReceivesOK, CountsOK, TurnsOK, QueuesSeparate
<1>2. ASSUME NEW t \in Threads, Received(t) PROVE IInv'
    <2>1. 0 \in Slots
        BY SizesAssumption DEF Slots
    <2> QED BY <1>2, <2>1, MessagesKeep
<1> QED BY <1>1, <1>2, CreateKeeps, StoreKeeps, MessagesKeep, SemCreateKeeps, SemInitKeeps, SemPastEndKeeps,
           SemTakeKeeps, SemCreatedKeeps, SemUseKeeps DEF Next

-----------------------------------------------------------------------------
\* The invariant holds in every state of every run of CRtk's queues and semaphores.
THEOREM HandlesAreSound == Spec => []IInv
BY InitIInv, NextIInv, PTL DEF Spec

(***************************************************************************)
(* The types hold: SemCreate's check (CRtk.cpp:68) keeps every semaphore   *)
(* that is initialised or used inside m_mtxs, up to undefined behaviour.   *)
(***************************************************************************)
THEOREM HandlesTypesCorrect == Spec => []TypeOK
BY HandlesAreSound, PTL DEF IInv

(***************************************************************************)
(* A queue created without a rival is found by its handle for good, and    *)
(* semaphores created in turn are distinct, initialised and exclusive.     *)
(***************************************************************************)
THEOREM HandlesStaySeparate == Spec => []HandlesSeparate
<1>1. IInv => HandlesSeparate
    <2> SUFFICES ASSUME IInv, ~overlapped PROVE SemaphoresSeparate
        BY DEF HandlesSeparate, IInv
    <2>1. ASSUME NEW s \in Semaphores PROVE Cardinality(holders[s]) =< 1
        <3>1. CASE holders[s] = {}
            BY <3>1, FS_EmptySet
        <3>2. CASE holders[s] # {}
            <4>1. PICK t \in holders[s] : TRUE
                BY <3>2
            <4>2. holders[s] = {t}
                BY <4>1 DEF IInv, TurnsOK
            <4>3. Cardinality({t}) = 1
                BY FS_Singleton
            <4> QED BY <4>2, <4>3
        <3> QED BY <3>1, <3>2
    <2> QED BY <2>1 DEF IInv, TypeOK, TurnsOK, SemaphoresSeparate
<1> QED BY <1>1, HandlesAreSound, PTL
=============================================================================
