--------------------------- MODULE FifoRefinement ---------------------------
(***************************************************************************)
(* MsgQueue implements BoundedFifo: pending are the messages in the cells  *)
(* of m_q, in its order.                                                   *)
(***************************************************************************)
EXTENDS MsgQueue

pendingBar == [i \in 1 .. Len(m_q) |-> contents[m_q[i]]]

Fifo == INSTANCE BoundedFifo WITH
    Capacity <- Cardinality(Cells),
    pending  <- pendingBar

(***************************************************************************)
(* The cells, the copies into and out of them and the polls implement the  *)
(* bounded queue, whatever the threads' interleaving.                      *)
(***************************************************************************)
ImplementsFifo == Fifo!FifoSpec
=============================================================================
