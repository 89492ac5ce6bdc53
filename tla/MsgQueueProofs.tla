--------------------------- MODULE MsgQueueProofs ---------------------------
(***************************************************************************)
(* The safety invariants of MsgQueue, for any number of senders, receivers *)
(* and cells.                                                              *)
(*                                                                         *)
(* CellsAccounted and the types are inductive as they stand.  That a lone  *)
(* receiver neither reads an empty queue nor sleeps on a message also      *)
(* needs what its unlocked test tells it: LoneTakeFinds says that the      *)
(* message it saw is still there, for only it takes messages out.          *)
(*                                                                         *)
(* From the same invariant, the queue implements BoundedFifo: the cells    *)
(* accounted for, the free ones are the places left in the fifo, and a     *)
(* send writes no message that is pending.                                 *)
(***************************************************************************)
EXTENDS FifoRefinement, FiniteSetTheorems, SequenceTheorems, TLAPS

Lone(t) == using = {t}

\* Only the queue's own receivers are ever inside Receive.
OthersStayOut == \A t \in Threads : pc[t] \in {"poll", "test", "take"} => t \in using

LoneTakeFinds == \A t \in Blocking : Lone(t) /\ pc[t] = "take" => m_q # <<>>

IInv == TypeOK /\ CellsAccounted /\ OthersStayOut /\ LoneTakeFinds /\ UndefinedNeedsRival /\ NoLostWake

-----------------------------------------------------------------------------
\* A fresh allocator and an empty queue satisfy the invariant.
LEMMA InitIInv == Init => IInv
<1> SUFFICES ASSUME Init PROVE IInv
    OBVIOUS
<1>1. Cardinality(Cells) \in Nat
    BY CellsAssumption, FS_CardinalityType
<1>2. PICK n \in Nat : m_free \in [1 .. n -> Cells]
    BY <1>1 DEF Init, Orders
<1>3. m_free \in Seq(Cells)
    BY <1>2
<1>4. m_q \o m_free = m_free
    BY <1>3 DEF Init
<1>5. TypeOK
    <2>1. m_q \in Seq(Cells)
        BY DEF Init
    <2>2. contents \in [Cells -> Messages \cup {Garbage}] /\ awake \in BOOLEAN /\ undefined \in BOOLEAN
        BY DEF Init
    <2>3. pc \in [Threads -> {"idle", "wake", "poll", "test", "take"}]
        BY DEF Init
    <2> QED BY <1>3, <2>1, <2>2, <2>3 DEF TypeOK, Init
<1>6. CellsAccounted
    BY <1>4 DEF Init, Orders, CellsAccounted
<1> QED BY <1>5, <1>6 DEF IInv, Init, OthersStayOut, LoneTakeFinds, UndefinedNeedsRival, NoLostWake,
                           Threads, Receivers

\* Every step keeps the types.
LEMMA NextTypes == TypeOK /\ [Next]_vars => TypeOK'
<1> SUFFICES ASSUME TypeOK, [Next]_vars PROVE TypeOK'
    OBVIOUS
<1>1. ASSUME NEW t \in Senders, NEW msg \in Messages, Send(t, msg) PROVE TypeOK'
    <2>1. PICK cell \in Cells : Alloc(cell) /\ contents' = [contents EXCEPT ![cell] = msg]
                                /\ m_q' = Append(m_q, cell)
        BY <1>1 DEF Send
    <2>2. m_free' \in Seq(Cells) /\ m_q' \in Seq(Cells)
        BY <2>1, HeadTailProperties, AppendProperties DEF TypeOK, Alloc
    <2>3. contents' \in [Cells -> Messages \cup {Garbage}]
        BY <2>1 DEF TypeOK
    <2> QED BY <1>1, <2>2, <2>3 DEF TypeOK, Send, Goes
<1>2. ASSUME NEW t \in Senders, NEW msg \in Messages, SendIntoFull(t, msg) PROVE TypeOK'
    BY <1>2 DEF TypeOK, SendIntoFull, Goes
<1>3. ASSUME NEW t \in Senders, Wake(t) PROVE TypeOK'
    BY <1>3 DEF TypeOK, Wake, Goes
<1>4. ASSUME NEW t \in Receivers, Receive(t) PROVE TypeOK'
    BY <1>4 DEF TypeOK, Receive, Goes
<1>5. ASSUME NEW t \in Receivers, PollWakes(t) \/ PollTimesOut(t) \/ TestAgain(t) PROVE TypeOK'
    BY <1>5 DEF TypeOK, PollWakes, PollTimesOut, TestAgain, Goes
<1>6. ASSUME NEW t \in Receivers, Take(t) PROVE TypeOK'
    <2>1. m_free' \in Seq(Cells) /\ m_q' \in Seq(Cells)
        BY <1>6, HeadTailProperties DEF TypeOK, Take, Free
    <2> QED BY <1>6, <2>1 DEF TypeOK, Take, Goes
<1>7. ASSUME NEW t \in Receivers, TakeNothing(t) \/ TakeFromEmpty(t) PROVE TypeOK'
    BY <1>7 DEF TypeOK, TakeNothing, TakeFromEmpty, Goes
<1>8. CASE UNCHANGED vars
    BY <1>8 DEF TypeOK, vars
<1> QED BY <1>1, <1>2, <1>3, <1>4, <1>5, <1>6, <1>7, <1>8 DEF Next, Receiving

(***************************************************************************)
(* Sending moves a cell from the head of the free list to the end of the   *)
(* queue: the two in a row are the same sequence as before.  Receiving     *)
(* takes the first cell of that sequence to the end of its queue part, a   *)
(* rotation.                                                               *)
(***************************************************************************)
LEMMA SendKeepsCells ==
    ASSUME TypeOK, CellsAccounted, NEW t, NEW msg, Send(t, msg)
    PROVE  CellsAccounted'
<1>1. PICK cell \in Cells : Alloc(cell) /\ m_q' = Append(m_q, cell)
    BY DEF Send
<1>2. /\ m_q \in Seq(Cells) /\ m_free \in Seq(Cells) /\ m_free # <<>>
      /\ m_free' = Tail(m_free) /\ m_q' = Append(m_q, Head(m_free))
    BY <1>1 DEF TypeOK, Alloc
<1>3. m_q' \o m_free' = m_q \o m_free
    BY <1>2
<1> QED BY <1>3 DEF CellsAccounted

Covers(s, S) == \A c \in S : \E i \in DOMAIN s : s[i] = c

\* Popping the front and pushing its cell to the free list's back loses no cell:
\* both sequences stay injective, apart from each other and together complete.
LEMMA Rotation ==
    ASSUME NEW S, NEW q \in Seq(S), q # <<>>, NEW f \in Seq(S),
           IsInjective(q \o f), Covers(q \o f, S)
    PROVE  LET r == Tail(q) \o (<<Head(q)>> \o f) IN IsInjective(r) /\ Covers(r, S)
<1> DEFINE old == q \o f
           q2  == Tail(q)
           f2  == <<Head(q)>> \o f
           new == q2 \o f2
           n   == Len(q)
           Back(i) == IF i < n THEN i + 1 ELSE IF i = n THEN 1 ELSE i
<1>1. /\ n \in Nat \ {0} /\ Len(f) \in Nat
      /\ DOMAIN old = 1 .. n + Len(f)
      /\ \A i \in DOMAIN old : old[i] = IF i <= n THEN q[i] ELSE f[i - n]
    BY ConcatProperties
<1>2. /\ q2 \in Seq(S) /\ Len(q2) = n - 1
      /\ \A i \in 1 .. n - 1 : q2[i] = q[i + 1]
    BY HeadTailProperties
<1>3. /\ f2 \in Seq(S) /\ Len(f2) = Len(f) + 1
      /\ f2[1] = q[1]
      /\ \A i \in 2 .. Len(f) + 1 : f2[i] = f[i - 1]
    OBVIOUS
<1> HIDE DEF q2, f2
<1>4. /\ DOMAIN new = 1 .. n + Len(f)
      /\ \A i \in DOMAIN new : new[i] = IF i <= n - 1 THEN q2[i] ELSE f2[i - (n - 1)]
    <2>1. /\ new \in Seq(S) /\ Len(new) = Len(q2) + Len(f2)
          /\ \A i \in 1 .. Len(q2) + Len(f2) : new[i] = IF i <= Len(q2) THEN q2[i] ELSE f2[i - Len(q2)]
        BY <1>2, <1>3, ConcatProperties
    <2> HIDE DEF new
    <2>2. Len(q2) + Len(f2) = n + Len(f)
        BY <1>1, <1>2, <1>3
    <2>3. DOMAIN new = 1 .. Len(new)
        BY <2>1
    <2> QED BY <1>2, <2>1, <2>2, <2>3
<1> HIDE DEF old, new
<1>5. \A i \in DOMAIN new : Back(i) \in DOMAIN old
    BY <1>1, <1>4
<1>6. ASSUME NEW i \in DOMAIN new PROVE new[i] = old[Back(i)]
    <2> USE <1>1
    <2>0. i \in 1 .. n + Len(f)
        BY <1>4
    <2>1. CASE i < n
        <3>1. new[i] = q2[i] /\ q2[i] = q[i + 1]
            BY <1>2, <1>4, <2>0, <2>1
        <3>2. Back(i) = i + 1 /\ i + 1 \in DOMAIN old /\ i + 1 <= n
            BY <2>0, <2>1
        <3>3. old[i + 1] = q[i + 1]
            BY <3>2
        <3> QED BY <3>1, <3>2, <3>3
    <2>2. CASE i = n
        BY <1>1, <1>3, <1>4, <2>2
    <2>3. CASE i > n
        <3>1. i - (n - 1) \in 2 .. Len(f) + 1 /\ i - (n - 1) - 1 = i - n
            BY <2>0, <2>3
        <3>2. new[i] = f2[i - (n - 1)]
            BY <1>4, <2>3, <2>0
        <3>3. f2[i - (n - 1)] = f[i - n]
            BY <1>3, <3>1
        <3>4. Back(i) = i /\ old[i] = f[i - n]
            BY <2>0, <2>3
        <3> QED BY <3>2, <3>3, <3>4
    <2> QED BY <2>0, <2>1, <2>2, <2>3
<1>7. \A i, j \in DOMAIN new : Back(i) = Back(j) => i = j
    BY <1>1, <1>4
<1>8. \A j \in DOMAIN old : \E i \in DOMAIN new : Back(i) = j
    <2> SUFFICES ASSUME NEW j \in DOMAIN old PROVE \E i \in DOMAIN new : Back(i) = j
        OBVIOUS
    <2> DEFINE i == IF j = 1 THEN n ELSE IF j <= n THEN j - 1 ELSE j
    <2>1. i \in DOMAIN new /\ Back(i) = j
        BY <1>1, <1>4
    <2> QED BY <2>1
<1> HIDE DEF Back
<1>9. IsInjective(old) /\ Covers(old, S)
    BY DEF old
<1>10. IsInjective(new)
    BY <1>5, <1>6, <1>7, <1>9 DEF IsInjective
<1>11. Covers(new, S)
    BY <1>5, <1>6, <1>8, <1>9 DEF Covers
<1> QED BY <1>10, <1>11 DEF new, q2, f2

\* A receive, Take and the Free it makes, accounts for every cell afterwards.
LEMMA TakeKeepsCells ==
    ASSUME TypeOK, CellsAccounted, NEW t, Take(t)
    PROVE  CellsAccounted'
<1>1. /\ m_q \in Seq(Cells) /\ m_free \in Seq(Cells) /\ m_q # <<>>
      /\ m_q' = Tail(m_q) /\ m_free' = <<Head(m_q)>> \o m_free
    BY DEF TypeOK, Take, Free
<1>2. IsInjective(m_q \o m_free) /\ Covers(m_q \o m_free, Cells)
    BY DEF CellsAccounted, Covers
<1>3. LET r == m_q' \o m_free' IN IsInjective(r) /\ Covers(r, Cells)
    BY <1>1, <1>2, Rotation
<1> QED BY <1>3 DEF CellsAccounted, Covers

\* No step loses a cell or gives it out twice.
LEMMA NextCells == TypeOK /\ CellsAccounted /\ [Next]_vars => CellsAccounted'
<1> SUFFICES ASSUME TypeOK, CellsAccounted, [Next]_vars PROVE CellsAccounted'
    OBVIOUS
<1>1. ASSUME NEW t, NEW msg, Send(t, msg) PROVE CellsAccounted'
    BY <1>1, SendKeepsCells
<1>2. ASSUME NEW t, Take(t) PROVE CellsAccounted'
    BY <1>2, TakeKeepsCells
<1>3. CASE UNCHANGED <<m_q, m_free>>
    BY <1>3 DEF CellsAccounted
<1>4. ASSUME NEW t, NEW msg, SendIntoFull(t, msg) PROVE UNCHANGED <<m_q, m_free>>
    BY <1>4 DEF SendIntoFull
<1>5. ASSUME NEW t, \/ Wake(t) \/ Receive(t) \/ PollWakes(t) \/ PollTimesOut(t) \/ TestAgain(t)
                    \/ TakeNothing(t) \/ TakeFromEmpty(t)
      PROVE  UNCHANGED <<m_q, m_free>>
    BY <1>5 DEF Wake, Receive, PollWakes, PollTimesOut, TestAgain, TakeNothing, TakeFromEmpty
<1>6. CASE UNCHANGED vars
    BY <1>3, <1>6 DEF vars
<1> QED BY <1>1, <1>2, <1>3, <1>4, <1>5, <1>6 DEF Next, Receiving

-----------------------------------------------------------------------------
\* Whoever is inside Receive has entered it, and only the queue's receivers do.
LEMMA NextStayOut == TypeOK /\ OthersStayOut /\ [Next]_vars => OthersStayOut'
<1> SUFFICES ASSUME TypeOK, OthersStayOut, [Next]_vars PROVE OthersStayOut'
    OBVIOUS
<1> USE DEF Goes, TypeOK, OthersStayOut
<1>1. ASSUME NEW t, NEW msg, Send(t, msg) \/ SendIntoFull(t, msg) PROVE OthersStayOut'
    BY <1>1 DEF Send, SendIntoFull
<1>2. ASSUME NEW t, Wake(t) \/ Receive(t) PROVE OthersStayOut'
    BY <1>2 DEF Wake, Receive
<1>3. ASSUME NEW t, PollWakes(t) \/ PollTimesOut(t) \/ TestAgain(t) PROVE OthersStayOut'
    BY <1>3 DEF PollWakes, PollTimesOut, TestAgain
<1>4. ASSUME NEW t, Take(t) \/ TakeNothing(t) \/ TakeFromEmpty(t) PROVE OthersStayOut'
    BY <1>4 DEF Take, TakeNothing, TakeFromEmpty
<1>5. CASE UNCHANGED vars
    BY <1>5 DEF vars
<1> QED BY <1>1, <1>2, <1>3, <1>4, <1>5 DEF Next, Receiving

(***************************************************************************)
(* With a lone receiver, whoever is inside Receive is that one.            *)
(***************************************************************************)
LEMMA LoneStaysLone ==
    ASSUME TypeOK, OthersStayOut, [Next]_vars, NEW r, Lone(r)'
    PROVE  Lone(r) /\ \A t \in Receivers : pc[t] \in {"poll", "test", "take"} => t = r
<1>1. using' = using
    <2>1. ASSUME NEW t, NEW msg, Send(t, msg) \/ SendIntoFull(t, msg) PROVE UNCHANGED using
        BY <2>1 DEF Send, SendIntoFull, Goes
    <2>2. ASSUME NEW t, Wake(t) \/ Receive(t) \/ Receiving(t) PROVE UNCHANGED using
        BY <2>2 DEF Wake, Receive, Receiving, PollWakes, PollTimesOut, TestAgain, Take,
                    TakeNothing, TakeFromEmpty, Goes
    <2>3. CASE UNCHANGED vars
        BY <2>3 DEF vars
    <2> QED BY <2>1, <2>2, <2>3 DEF Next
<1> QED BY <1>1 DEF Lone, OthersStayOut, Threads

(***************************************************************************)
(* A lone receiver finds under the mutex what it saw before taking it: a   *)
(* send only adds, and whoever takes a message out is not at "take" any    *)
(* more.                                                                   *)
(***************************************************************************)
LEMMA NextTakeFinds == TypeOK /\ OthersStayOut /\ LoneTakeFinds /\ [Next]_vars => LoneTakeFinds'
<1> SUFFICES ASSUME TypeOK, OthersStayOut, LoneTakeFinds, [Next]_vars,
                    NEW r \in Blocking, Lone(r)', pc'[r] = "take"
             PROVE  m_q' # <<>>
    BY DEF LoneTakeFinds
<1>1. /\ r \in Receivers /\ r \notin Timed /\ Lone(r)
      /\ \A t \in Receivers : pc[t] \in {"poll", "test", "take"} => t = r
    BY ThreadsAssumption, LoneStaysLone DEF Receivers
<1>2. pc[r] = "take" => m_q # <<>>
    BY <1>1 DEF LoneTakeFinds
<1> USE DEF Threads, Goes, TypeOK
<1>3. ASSUME NEW t \in Senders, NEW msg \in Messages, Send(t, msg) PROVE m_q' # <<>>
    <2>1. PICK cell \in Cells : m_q' = Append(m_q, cell)
        BY <1>3 DEF Send
    <2> QED BY <2>1, AppendProperties
<1>4. ASSUME NEW t \in Senders, NEW msg \in Messages, SendIntoFull(t, msg) PROVE m_q' # <<>>
    BY <1>1, <1>2, <1>4 DEF SendIntoFull
<1>5. ASSUME NEW t \in Senders, Wake(t) PROVE m_q' # <<>>
    BY <1>1, <1>2, <1>5 DEF Wake
<1>6. ASSUME NEW t \in Receivers, Receive(t) PROVE m_q' # <<>>
    BY <1>1, <1>6 DEF Receive, Lone
<1>7. Receiving(r) => m_q' # <<>>
    BY <1>1 DEF Receiving, PollWakes, PollTimesOut, TestAgain, Take, TakeNothing, TakeFromEmpty
<1>8. ASSUME NEW t \in Receivers, Receiving(t) PROVE t = r
    BY <1>1, <1>8 DEF Receiving, PollWakes, PollTimesOut, TestAgain, Take, TakeNothing, TakeFromEmpty
<1>9. CASE UNCHANGED vars
    BY <1>2, <1>9 DEF vars
<1> QED BY <1>3, <1>4, <1>5, <1>6, <1>7, <1>8, <1>9 DEF Next

\* Only a step from "take" reads the front, and a lone one finds a message.
LEMMA NextUndefined ==
    TypeOK /\ OthersStayOut /\ LoneTakeFinds /\ UndefinedNeedsRival /\ [Next]_vars
    => UndefinedNeedsRival'
<1> SUFFICES ASSUME TypeOK, OthersStayOut, LoneTakeFinds, UndefinedNeedsRival, [Next]_vars
             PROVE  UndefinedNeedsRival'
    OBVIOUS
<1>1. CASE UNCHANGED <<undefined, using>>
    BY <1>1 DEF UndefinedNeedsRival
<1>2. ASSUME NEW t \in Receivers, TakeFromEmpty(t) PROVE UndefinedNeedsRival'
    <2>1. ~Lone(t) /\ t \in Blocking /\ t \in using /\ using' = using
        BY <1>2 DEF TakeFromEmpty, Goes, LoneTakeFinds, OthersStayOut, Threads
    <2>2. \E u \in using : t # u
        BY <2>1 DEF Lone
    <2> QED BY <2>1, <2>2 DEF UndefinedNeedsRival
<1>3. ASSUME NEW t, NEW msg, Send(t, msg) \/ SendIntoFull(t, msg) PROVE UNCHANGED <<undefined, using>>
    BY <1>3 DEF Send, SendIntoFull, Goes
<1>4. ASSUME NEW t, \/ Wake(t) \/ Receive(t) \/ PollWakes(t) \/ PollTimesOut(t) \/ TestAgain(t)
                    \/ Take(t) \/ TakeNothing(t)
      PROVE  UNCHANGED <<undefined, using>>
    BY <1>4 DEF Wake, Receive, PollWakes, PollTimesOut, TestAgain, Take, TakeNothing, Goes
<1>5. CASE UNCHANGED vars
    BY <1>1, <1>5 DEF vars
<1> QED BY <1>1, <1>2, <1>3, <1>4, <1>5 DEF Next, Receiving

(***************************************************************************)
(* A lone receiver goes to the poll only on an empty queue; a message that *)
(* comes then has a sender at "wake", whose wake only this receiver can    *)
(* consume, and with it leaves the poll.                                   *)
(***************************************************************************)
LEMMA NextWake == TypeOK /\ OthersStayOut /\ NoLostWake /\ [Next]_vars => NoLostWake'
<1> SUFFICES ASSUME TypeOK, OthersStayOut, NoLostWake, [Next]_vars,
                    NEW r, Lone(r)', pc'[r] = "poll", m_q' # <<>>
             PROVE  awake' \/ \E s \in Senders : pc'[s] = "wake"
    BY DEF NoLostWake, Lone
<1>1. Lone(r) /\ \A t \in Receivers : pc[t] \in {"poll", "test", "take"} => t = r
    BY LoneStaysLone
<1>2. pc[r] = "poll" /\ m_q # <<>> => awake \/ \E s \in Senders : pc[s] = "wake"
    BY <1>1 DEF NoLostWake, Lone
<1> USE DEF Threads, Goes, TypeOK
<1>3. ASSUME NEW t \in Senders, NEW msg \in Messages, Send(t, msg) PROVE pc'[t] = "wake"
    BY <1>3 DEF Send
<1>4. ASSUME NEW t \in Senders, NEW msg \in Messages, SendIntoFull(t, msg)
      PROVE  awake' \/ \E s \in Senders : pc'[s] = "wake"
    BY <1>2, <1>4 DEF SendIntoFull
<1>5. ASSUME NEW t \in Senders, Wake(t) PROVE awake'
    BY <1>5 DEF Wake
<1>6. r \in Receivers /\ pc[r] \in {"poll", "test", "take", "idle", "wake"}
    BY <1>1 DEF Lone
<1>7. ~Receive(r)
    BY <1>6 DEF Receive
<1>8. ASSUME NEW t \in Receivers, Receive(t) PROVE t = r
    BY <1>1, <1>8 DEF Receive, Lone
<1>9. ASSUME NEW t \in Receivers, Receiving(t) PROVE t = r
    BY <1>1, <1>9 DEF Receiving, PollWakes, PollTimesOut, TestAgain, Take, TakeNothing, TakeFromEmpty
<1>10. ~Receiving(r)
    BY <1>6 DEF Receiving, PollWakes, PollTimesOut, TestAgain, Take, TakeNothing, TakeFromEmpty
<1>11. CASE UNCHANGED vars
    BY <1>2, <1>11 DEF vars
<1> QED BY <1>3, <1>4, <1>5, <1>7, <1>8, <1>9, <1>10, <1>11 DEF Next

-----------------------------------------------------------------------------
\* The invariant holds in every state of every run of the queue.
THEOREM QueueIsSound == Spec => []IInv
<1>1. IInv /\ [Next]_vars => IInv'
    BY NextTypes, NextCells, NextStayOut, NextTakeFinds, NextUndefined, NextWake DEF IInv
<1> QED BY InitIInv, <1>1, PTL DEF Spec

\* The types hold.
THEOREM QueueTypeCorrect == Spec => []TypeOK
BY QueueIsSound, PTL DEF IInv

(***************************************************************************)
(* Whatever sends and receives interleave, each cell of the allocator is   *)
(* pending once or free once: none is lost, none is given out twice.       *)
(***************************************************************************)
THEOREM QueueKeepsCells == Spec => []CellsAccounted
BY QueueIsSound, PTL DEF IInv

(***************************************************************************)
(* A queue with a single receiver, as a looper is meant to be used, never  *)
(* reads the front of an empty vector.                                     *)
(***************************************************************************)
THEOREM QueueDefined == Spec => []UndefinedNeedsRival
BY QueueIsSound, PTL DEF IInv

\* A lone receiver never polls over a message nobody will wake it for.
THEOREM QueueWakes == Spec => []NoLostWake
BY QueueIsSound, PTL DEF IInv

-----------------------------------------------------------------------------
(***************************************************************************)
(* The refinement.  The pending messages follow m_q: what is popped from   *)
(* the one is popped from the other, and what is pushed, in a cell that    *)
(* m_q does not hold yet, leaves the other messages as they are.           *)
(***************************************************************************)
Mapped(q, f) == [i \in 1 .. Len(q) |-> f[q[i]]]

\* The messages of a queue, once its front is gone.
LEMMA MappedTail ==
    ASSUME NEW C, NEW M, NEW q \in Seq(C), NEW f \in [C -> M], q # <<>>,
           NEW s \in Seq(M), s = Mapped(q, f), NEW r \in Seq(M), r = Mapped(Tail(q), f)
    PROVE  s # <<>> /\ Head(s) = f[Head(q)] /\ r = Tail(s)
<1>1. Len(s) = Len(q) /\ Len(s) = Len(q) /\ \A i \in 1 .. Len(q) : s[i] = f[q[i]]
    BY DEF Mapped
<1>2. /\ Len(q) \in Nat \ {0} /\ Head(q) = q[1]
      /\ Tail(q) \in Seq(C) /\ Len(Tail(q)) = Len(q) - 1
      /\ \A i \in 1 .. Len(q) - 1 : Tail(q)[i] = q[i + 1]
    BY HeadTailProperties
<1>3. s # <<>> /\ Head(s) = s[1] /\ Tail(s) \in Seq(M) /\ Len(Tail(s)) = Len(q) - 1
    BY <1>1, <1>2, HeadTailProperties
<1>4. \A i \in 1 .. Len(q) - 1 : Tail(s)[i] = s[i + 1]
    BY <1>1, <1>2, <1>3, HeadTailProperties
<1>5. Len(r) = Len(q) - 1 /\ \A i \in 1 .. Len(q) - 1 : r[i] = f[Tail(q)[i]]
    BY <1>2 DEF Mapped
<1>6. \A i \in 1 .. Len(q) - 1 : i + 1 \in 1 .. Len(q)
    BY <1>2
<1>7. \A i \in 1 .. Len(q) - 1 : r[i] = Tail(s)[i]
    BY <1>1, <1>2, <1>4, <1>5, <1>6
<1>8. r = Tail(s)
    BY <1>3, <1>5, <1>7, SeqEqual
<1>9. s[1] = f[q[1]]
    BY <1>1, <1>2
<1> QED BY <1>2, <1>3, <1>8, <1>9

\* The pending messages, once one more is in a cell that was not pending.
LEMMA PendingGrows ==
    ASSUME TypeOK, NEW cell \in Cells, NEW msg \in Messages,
           \A i \in 1 .. Len(m_q) : m_q[i] # cell,
           contents' = [contents EXCEPT ![cell] = msg],
           m_q' = Append(m_q, cell)
    PROVE  pendingBar' = Append(pendingBar, msg)
<1> DEFINE Held == Messages \cup {Garbage}
           n == Len(m_q)
           s == pendingBar
           r == pendingBar'
           z == Append(s, msg)
<1>1. m_q \in Seq(Cells) /\ contents \in [Cells -> Held] /\ msg \in Held /\ n \in Nat
    BY DEF TypeOK
<1> HIDE DEF Held
<1>2. /\ contents' \in [Cells -> Held] /\ contents'[cell] = msg
      /\ \A c \in Cells : c # cell => contents'[c] = contents[c]
    BY <1>1
<1>3. /\ m_q' \in Seq(Cells) /\ Len(m_q') = n + 1 /\ m_q'[n + 1] = cell
      /\ \A i \in 1 .. n : m_q'[i] = m_q[i]
    BY <1>1, AppendProperties
<1>4. s \in Seq(Held) /\ Len(s) = n /\ \A i \in 1 .. n : s[i] = contents[m_q[i]]
    BY <1>1 DEF pendingBar
<1>5. r \in Seq(Held) /\ Len(r) = n + 1 /\ \A i \in 1 .. n + 1 : r[i] = contents'[m_q'[i]]
    BY <1>1, <1>2, <1>3 DEF pendingBar
<1> HIDE DEF s, r
<1>6. z \in Seq(Held) /\ Len(z) = n + 1 /\ z[n + 1] = msg /\ \A i \in 1 .. n : z[i] = s[i]
    BY <1>1, <1>4, AppendProperties
<1> HIDE DEF n, z
<1>7. ASSUME NEW i \in 1 .. n + 1 PROVE r[i] = z[i]
    <2>1. CASE i = n + 1
        BY <1>2, <1>3, <1>5, <1>6, <2>1
    <2>2. CASE i \in 1 .. n
        <3>1. m_q[i] \in Cells /\ m_q[i] # cell
            BY <1>1, <2>2 DEF n
        <3>2. m_q'[i] = m_q[i] /\ r[i] = contents'[m_q'[i]]
            BY <1>3, <1>5, <2>2
        <3> QED BY <1>2, <1>4, <1>6, <2>2, <3>1, <3>2
    <2> QED BY <1>1, <2>1, <2>2
<1>8. r = z
    <2>1. Len(r) = Len(z) /\ \A i \in 1 .. Len(r) : r[i] = z[i]
        BY <1>5, <1>6, <1>7
    <2> QED BY <1>5, <1>6, <2>1, SeqEqual
<1> QED BY <1>8 DEF r, s, z

(***************************************************************************)
(* The allocator has as many cells as the queue has places: the lengths of *)
(* m_q and of the free list sum to the capacity, and a free cell is not    *)
(* pending.                                                                *)
(***************************************************************************)
LEMMA PlacesLeft ==
    ASSUME TypeOK, CellsAccounted
    PROVE  /\ Len(m_q) + Len(m_free) = Cardinality(Cells)
           /\ m_free # <<>> => \A i \in 1 .. Len(m_q) : m_q[i] # Head(m_free)
<1> DEFINE old == m_q \o m_free
           n   == Len(m_q)
           k   == Len(m_free)
<1>1. /\ n \in Nat /\ k \in Nat /\ old \in [1 .. n + k -> Cells]
      /\ \A i \in 1 .. n : old[i] = m_q[i]
      /\ \A i \in 1 .. k : old[n + i] = m_free[i]
    <2>1. m_q \in Seq(Cells) /\ m_free \in Seq(Cells)
        BY DEF TypeOK
    <2>2. n \in Nat /\ k \in Nat /\ old \in Seq(Cells) /\ Len(old) = n + k
          /\ \A i \in 1 .. n + k : old[i] = IF i <= n THEN m_q[i] ELSE m_free[i - n]
        BY <2>1, ConcatProperties
    <2> HIDE DEF old, n, k
    <2>3. \A i \in 1 .. n : old[i] = m_q[i]
        BY <2>2
    <2>4. ASSUME NEW i \in 1 .. k PROVE old[n + i] = m_free[i]
        <3>1. n + i \in 1 .. n + k /\ ~(n + i <= n) /\ (n + i) - n = i
            BY <2>2
        <3> QED BY <2>2, <3>1
    <2>5. old \in [1 .. n + k -> Cells]
        BY <2>2
    <2> QED BY <2>2, <2>3, <2>4, <2>5
<1>2. IsInjective(old) /\ \A c \in Cells : \E i \in DOMAIN old : old[i] = c
    BY DEF CellsAccounted
<1>3. m_free # <<>> => k \in Nat \ {0} /\ Head(m_free) = m_free[1]
    BY DEF TypeOK
<1> HIDE DEF old, n, k
<1>4. old \in Bijection(1 .. n + k, Cells)
    <2>1. \A a, b \in 1 .. n + k : old[a] = old[b] => a = b
        BY <1>1, <1>2 DEF IsInjective
    <2>2. \A c \in Cells : \E i \in 1 .. n + k : old[i] = c
        BY <1>1, <1>2
    <2> QED BY <1>1, <2>1, <2>2 DEF Bijection, Injection, Surjection, IsInjective
<1>5. Cardinality(Cells) = n + k
    <2>1. n + k \in Nat
        BY <1>1
    <2>2. IsFiniteSet(1 .. n + k) /\ Cardinality(1 .. n + k) = n + k
        BY <2>1, FS_Interval
    <2>3. ExistsBijection(1 .. n + k, Cells)
        BY <1>4 DEF ExistsBijection
    <2> QED BY <2>2, <2>3, FS_Bijection
<1>6. ASSUME m_free # <<>>, NEW i \in 1 .. n PROVE m_q[i] # Head(m_free)
    <2>1. i \in DOMAIN old /\ n + 1 \in DOMAIN old /\ i # n + 1
        BY <1>1, <1>3, <1>6
    <2>2. old[i] # old[n + 1]
        BY <1>2, <2>1 DEF IsInjective
    <2>3. 1 \in 1 .. k
        BY <1>1, <1>3, <1>6
    <2> QED BY <1>1, <1>3, <1>6, <2>2, <2>3
<1> QED BY <1>5, <1>6 DEF n, k

\* A step of the queue is a step of the bounded fifo, or one it does not see.
LEMMA NextIsFifo ==
    TypeOK /\ CellsAccounted /\ [Next]_vars => [Fifo!FifoNext]_<<pendingBar, last>>
<1> SUFFICES ASSUME TypeOK, CellsAccounted, [Next]_vars
             PROVE  [Fifo!FifoNext]_<<pendingBar, last>>
    OBVIOUS
<1> DEFINE Held == Messages \cup {Garbage}
<1>1. m_q \in Seq(Cells) /\ m_free \in Seq(Cells) /\ contents \in [Cells -> Held]
    BY DEF TypeOK
<1>2. m_q' \in Seq(Cells) /\ contents' \in [Cells -> Held]
    BY NextTypes DEF TypeOK
<1> HIDE DEF Held
<1>3. /\ Len(pendingBar) = Len(m_q) /\ Len(m_q) \in Nat /\ Len(m_free) \in Nat
      /\ Len(m_q) + Len(m_free) = Cardinality(Cells)
      /\ m_free = <<>> <=> Len(m_free) = 0
      /\ pendingBar = <<>> <=> m_q = <<>>
    BY <1>1, PlacesLeft DEF pendingBar
<1>4. /\ pendingBar \in Seq(Held) /\ pendingBar = Mapped(m_q, contents)
      /\ pendingBar' \in Seq(Held) /\ pendingBar' = Mapped(m_q', contents')
    BY <1>1, <1>2 DEF pendingBar, Mapped
<1>5. ASSUME NEW t \in Senders, NEW msg \in Messages, Send(t, msg)
      PROVE  Fifo!Put(t, msg)
    <2>1. PICK cell \in Cells :
              /\ m_free # <<>> /\ cell = Head(m_free)
              /\ contents' = [contents EXCEPT ![cell] = msg]
              /\ m_q' = Append(m_q, cell)
        BY <1>5 DEF Send, Alloc
    <2>2. \A i \in 1 .. Len(m_q) : m_q[i] # cell
        BY <2>1, PlacesLeft
    <2>3. pendingBar' = Append(pendingBar, msg)
        BY <2>1, <2>2, PendingGrows
    <2>4. Len(pendingBar) < Cardinality(Cells)
        BY <1>3, <2>1
    <2> QED BY <1>5, <2>3, <2>4 DEF Fifo!Put, Fifo!Completes, Send, Returns
<1>6. ASSUME NEW t \in Senders, NEW msg \in Messages, SendIntoFull(t, msg)
      PROVE  Fifo!Refuse(t, msg)
    <2>1. Len(pendingBar) = Cardinality(Cells) /\ pendingBar' = pendingBar
        BY <1>3, <1>6 DEF SendIntoFull, pendingBar
    <2> QED BY <1>6, <2>1 DEF Fifo!Refuse, Fifo!Completes, SendIntoFull, Returns
<1>7. ASSUME NEW t \in Receivers, Take(t) PROVE Fifo!Get(t)
    <2>1. m_q # <<>> /\ m_q' = Tail(m_q) /\ contents' = contents
        BY <1>7 DEF Take
    <2>2. pendingBar # <<>> /\ Head(pendingBar) = contents[Head(m_q)] /\ pendingBar' = Tail(pendingBar)
        BY <1>1, <1>4, <2>1, MappedTail
    <2> QED BY <1>7, <2>2 DEF Fifo!Get, Fifo!Completes, Take, Returns
<1>8. ASSUME NEW t \in Receivers, TakeNothing(t) PROVE Fifo!GiveUp(t)
    <2>1. pendingBar = <<>> /\ pendingBar' = pendingBar
        BY <1>3, <1>8 DEF TakeNothing, pendingBar
    <2> QED BY <1>8, <2>1 DEF Fifo!GiveUp, Fifo!Completes, TakeNothing, Returns
<1>9. ASSUME NEW t, \/ Wake(t) \/ Receive(t) \/ PollWakes(t) \/ PollTimesOut(t) \/ TestAgain(t)
                    \/ TakeFromEmpty(t)
      PROVE  Fifo!Works
    <2>1. last' = None /\ UNCHANGED <<m_q, contents>>
        BY <1>9 DEF Wake, Receive, PollWakes, PollTimesOut, TestAgain, TakeFromEmpty
    <2> QED BY <2>1 DEF Fifo!Works, pendingBar
<1>10. CASE UNCHANGED vars
    BY <1>10 DEF vars, pendingBar
<1> QED BY <1>5, <1>6, <1>7, <1>8, <1>9, <1>10 DEF Next, Receiving, Fifo!FifoNext

(***************************************************************************)
(* The cells, the copies into and out of them and the polls are a bounded  *)
(* fifo: messages come out in the order they went in, each once, a send is *)
(* refused only by a full queue and a receive only by an empty one.        *)
(***************************************************************************)
THEOREM QueueImplementsFifo == Spec => ImplementsFifo
<1>1. Init => Fifo!FifoInit
    BY DEF Init, Fifo!FifoInit, pendingBar
<1>2. IInv /\ [Next]_vars => [Fifo!FifoNext]_<<pendingBar, last>>
    BY NextIsFifo DEF IInv
<1> QED BY <1>1, <1>2, QueueIsSound, PTL DEF Spec, ImplementsFifo, Fifo!FifoSpec
=============================================================================
