---------------------------- MODULE BoundedFifo -----------------------------
(***************************************************************************)
(* What a message queue of tvserver/CRtk promises: messages come out in    *)
(* the order they went in, each once and unchanged; a send is refused only *)
(* when Capacity messages are pending, and a receive comes back empty only *)
(* when none is.                                                           *)
(***************************************************************************)
EXTENDS Integers, Sequences

CONSTANTS Senders, Receivers, Messages, Capacity, None

VARIABLES pending, last

Completes(t, op, ok, msg) == last' = [by |-> t, op |-> op, ok |-> ok, msg |-> msg]

FifoInit == pending = <<>> /\ last = None

Put(t, msg) ==
    /\ Len(pending) < Capacity
    /\ pending' = Append(pending, msg)
    /\ Completes(t, "Send", TRUE, msg)

Refuse(t, msg) ==
    /\ Len(pending) = Capacity
    /\ Completes(t, "Send", FALSE, msg)
    /\ UNCHANGED pending

Get(t) ==
    /\ pending # <<>>
    /\ Completes(t, "Receive", TRUE, Head(pending))
    /\ pending' = Tail(pending)

GiveUp(t) ==
    /\ pending = <<>>
    /\ Completes(t, "Receive", FALSE, None)
    /\ UNCHANGED pending

\* A step inside a call.
Works == last' = None /\ UNCHANGED pending

FifoNext ==
    \/ \E t \in Senders, msg \in Messages : Put(t, msg) \/ Refuse(t, msg)
    \/ \E t \in Receivers : Get(t) \/ GiveUp(t)
    \/ Works

FifoSpec == FifoInit /\ [][FifoNext]_<<pending, last>>
=============================================================================
