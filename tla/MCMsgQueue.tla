----------------------------- MODULE MCMsgQueue -----------------------------
(***************************************************************************)
(* Instances of MsgQueue and of its refinement of BoundedFifo for TLC.     *)
(***************************************************************************)
EXTENDS FifoRefinement, TLC
=============================================================================
