------------------------------ MODULE MsgQueue ------------------------------
(***************************************************************************)
(* CMsgQueue of tvserver/CRtk/CMsgQueue.h: a bounded queue of messages     *)
(* between threads.  A message lives in a cell of the fixed allocator      *)
(* CFixedAlloc, m_q holds the cells of the pending messages, m_mutex       *)
(* guards both, and an Android Looper lets a receiver sleep.               *)
(*                                                                         *)
(* The sections under m_mutex hold it from start to end, so each is one    *)
(* step.  What the code does outside them are steps of their own: the test *)
(* of m_q.empty(), the poll, and the wake after a send.  A test that meets *)
(* a push half done sees the queue empty or not, as if before or after it. *)
(***************************************************************************)
EXTENDS Integers, Sequences, FiniteSets, Functions

CONSTANTS
    Senders,        \* threads that call Send
    Blocking,       \* threads that call Receive(msg)
    Timed,          \* threads that call Receive(msg, timeout)
    Messages,
    Cells,          \* the cells of m_fa, as many as the queue's capacity
    Garbage,        \* contents of a cell never written
    None            \* no message; no call has ended in this step

Receivers == Blocking \cup Timed
Threads   == Senders \cup Receivers

ASSUME ThreadsAssumption ==
    Blocking \cap Timed = {}
ASSUME CellsAssumption == IsFiniteSet(Cells)
ASSUME ContentsAssumption == Garbage \notin Messages /\ None \notin Messages

VARIABLES
    using,          \* the receivers that this queue has, fixed from the start
    m_free,         \* the allocator's free cells, next to be given first
    contents,       \* what each cell holds
    m_q,            \* the cells of the pending messages, oldest first
    awake,          \* the looper holds a wake that no poll has consumed
    pc,             \* where each thread is
    undefined,      \* an empty queue's front has been read
    last            \* the call that the last step completed, if any

vars == <<using, m_free, contents, m_q, awake, pc, undefined, last>>

Orders == {order \in [1 .. Cardinality(Cells) -> Cells] :
              IsInjective(order) /\ \A c \in Cells : \E i \in DOMAIN order : order[i] = c}

\* CFixedAlloc links all its cells.
Init ==
    /\ using \in SUBSET Receivers
    /\ m_free \in Orders
    /\ contents = [c \in Cells |-> Garbage]
    /\ m_q = <<>>
    /\ awake = FALSE
    /\ pc = [t \in Threads |-> "idle"]
    /\ undefined = FALSE
    /\ last = None

Goes(t, from, to) ==
    /\ ~undefined
    /\ pc[t] = from /\ pc' = [pc EXCEPT ![t] = to]
    /\ UNCHANGED using

Returns(t, op, ok, msg) == last' = [by |-> t, op |-> op, ok |-> ok, msg |-> msg]

-----------------------------------------------------------------------------
\* Mutation of Alloc: the cell stays on the free list.
AllocKeeps(cell) == m_free # <<>> /\ cell = Head(m_free) /\ UNCHANGED m_free

(***************************************************************************)
(* The allocator, called with the mutex held.                              *)
(***************************************************************************)
Alloc(cell) == m_free # <<>> /\ cell = Head(m_free) /\ m_free' = Tail(m_free)

Free(cell) == m_free' = <<cell>> \o m_free

-----------------------------------------------------------------------------
\* Mutation of Send: the receiver is not woken.
SendQuietly(t, msg) ==
    /\ Goes(t, "idle", "idle")
    /\ \E cell \in Cells :
          /\ Alloc(cell)
          /\ contents' = [contents EXCEPT ![cell] = msg]
          /\ m_q' = Append(m_q, cell)
    /\ Returns(t, "Send", TRUE, msg)
    /\ UNCHANGED <<awake, undefined>>

(***************************************************************************)
(* Send: under the mutex, take a cell, copy, push; then, if there was a    *)
(* cell, wake the looper.  The message can be received before the wake.    *)
(***************************************************************************)
Send(t, msg) ==
    /\ Goes(t, "idle", "wake")
    /\ \E cell \in Cells :
          /\ Alloc(cell)
          /\ contents' = [contents EXCEPT ![cell] = msg]
          /\ m_q' = Append(m_q, cell)
    /\ Returns(t, "Send", TRUE, msg)
    /\ UNCHANGED <<awake, undefined>>

SendIntoFull(t, msg) ==
    /\ Goes(t, "idle", "idle")
    /\ m_free = <<>>
    /\ Returns(t, "Send", FALSE, msg)
    /\ UNCHANGED <<m_free, contents, m_q, awake, undefined>>

Wake(t) ==
    /\ Goes(t, "wake", "idle")
    /\ awake' = TRUE
    /\ last' = None
    /\ UNCHANGED <<m_free, contents, m_q, undefined>>

-----------------------------------------------------------------------------
(***************************************************************************)
(* Both forms of Receive first look at m_q without the mutex.              *)
(***************************************************************************)
Receive(t) ==
    /\ t \in using
    /\ Goes(t, "idle", IF m_q = <<>> THEN "poll" ELSE "take")
    /\ last' = None
    /\ UNCHANGED <<m_free, contents, m_q, awake, undefined>>

\* Mutation of PollWakes: Receive(msg) tests with `if` instead of `while`.
PollWakesOnce(t) ==
    /\ awake /\ awake' = FALSE
    /\ Goes(t, "poll", "take")
    /\ last' = None
    /\ UNCHANGED <<m_free, contents, m_q, undefined>>

\* pollOnce returns on a wake, and consumes it.  Receive(msg) looks again;
\* Receive(msg, timeout) goes on whatever it was.
PollWakes(t) ==
    /\ awake /\ awake' = FALSE
    /\ Goes(t, "poll", IF t \in Timed THEN "take" ELSE "test")
    /\ last' = None
    /\ UNCHANGED <<m_free, contents, m_q, undefined>>

PollTimesOut(t) ==
    /\ t \in Timed
    /\ Goes(t, "poll", "take")
    /\ last' = None
    /\ UNCHANGED <<m_free, contents, m_q, awake, undefined>>

TestAgain(t) ==
    /\ Goes(t, "test", IF m_q = <<>> THEN "poll" ELSE "take")
    /\ last' = None
    /\ UNCHANGED <<m_free, contents, m_q, awake, undefined>>

\* Mutation of Take: the message is freed instead of its cell.
TakeFreesMessage(t) ==
    /\ Goes(t, "take", "idle")
    /\ m_q # <<>>
    /\ Returns(t, "Receive", TRUE, contents[Head(m_q)])
    /\ Free(contents[Head(m_q)])
    /\ m_q' = Tail(m_q)
    /\ UNCHANGED <<contents, awake, undefined>>

\* Under the mutex: copy the front message out, free its cell, pop it.
Take(t) ==
    /\ Goes(t, "take", "idle")
    /\ m_q # <<>>
    /\ Returns(t, "Receive", TRUE, contents[Head(m_q)])
    /\ Free(Head(m_q))
    /\ m_q' = Tail(m_q)
    /\ UNCHANGED <<contents, awake, undefined>>

\* Mutation of TakeNothing: after the poll the queue is not looked at again.
TakeNothingUnseen(t) ==
    /\ t \in Timed
    /\ Goes(t, "take", "idle")
    /\ Returns(t, "Receive", FALSE, None)
    /\ UNCHANGED <<m_free, contents, m_q, awake, undefined>>

TakeNothing(t) ==
    /\ t \in Timed /\ m_q = <<>>
    /\ Goes(t, "take", "idle")
    /\ Returns(t, "Receive", FALSE, None)
    /\ UNCHANGED <<m_free, contents, m_q, awake, undefined>>

\* Receive(msg) does not look again under the mutex.  Reading m_q[0] of an
\* empty vector is undefined: anything may follow, and the model ends here.
TakeFromEmpty(t) ==
    /\ t \in Blocking /\ m_q = <<>>
    /\ Goes(t, "take", "idle")
    /\ undefined' = TRUE
    /\ last' = None
    /\ UNCHANGED <<m_free, contents, m_q, awake>>

-----------------------------------------------------------------------------
Receiving(t) ==
    PollWakes(t) \/ PollTimesOut(t) \/ TestAgain(t) \/ Take(t) \/ TakeNothing(t) \/ TakeFromEmpty(t)

Next ==
    \/ \E t \in Senders : Wake(t) \/ \E msg \in Messages : Send(t, msg) \/ SendIntoFull(t, msg)
    \/ \E t \in Receivers : Receive(t) \/ Receiving(t)

\* A thread inside a call keeps running: nothing it does there can be kept
\* from happening for ever but a poll with no wake.  Nobody has to call.
Fairness ==
    /\ \A t \in Senders : WF_vars(Wake(t))
    /\ \A t \in Receivers : WF_vars(Receiving(t))

Spec == Init /\ [][Next]_vars /\ Fairness

-----------------------------------------------------------------------------
(***************************************************************************)
(* Types.                                                                  *)
(***************************************************************************)
TypeOK ==
    /\ using \subseteq Receivers
    /\ m_free \in Seq(Cells)
    /\ contents \in [Cells -> Messages \cup {Garbage}]
    /\ m_q \in Seq(Cells)
    /\ awake \in BOOLEAN
    /\ pc \in [Threads -> {"idle", "wake", "poll", "test", "take"}]
    /\ undefined \in BOOLEAN

(***************************************************************************)
(* Every cell is pending or free, once: no interleaving of sends and       *)
(* receives loses a cell or gives one out while its message is pending.    *)
(***************************************************************************)
CellsAccounted ==
    /\ IsInjective(m_q \o m_free)
    /\ \A c \in Cells : \E i \in DOMAIN (m_q \o m_free) : (m_q \o m_free)[i] = c

(***************************************************************************)
(* The front of an empty queue is read (CMsgQueue.h:103, after a test at   *)
(* line 100 that the mutex does not cover) only where there is a second    *)
(* receiver to have emptied it.                                            *)
(***************************************************************************)
UndefinedNeedsRival == undefined => \E t \in using \cap Blocking, u \in using : t # u

(***************************************************************************)
(* A lone receiver does not sleep on a message: while it polls and one is  *)
(* pending, a wake is there or a sender is about to give it.  Wakes do not *)
(* count up and may be consumed by a poll for an earlier message.          *)
(***************************************************************************)
NoLostWake ==
    \A t \in using : using = {t} /\ pc[t] = "poll" /\ m_q # <<>> =>
                        awake \/ \E s \in Senders : pc[s] = "wake"

(***************************************************************************)
(* A lone receiver that waits while a message is pending gets it.          *)
(***************************************************************************)
Delivered ==
    \A t \in Receivers :
        using = {t} /\ pc[t] # "idle" /\ m_q # <<>> ~> last # None /\ last.by = t /\ last.ok
=============================================================================
