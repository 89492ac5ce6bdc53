---------------------------- MODULE MCRtkHandles ----------------------------
(***************************************************************************)
(* Instance of RtkHandles for TLC: two threads, two slots for queues and   *)
(* two mutexes, so that both tables fill up.                               *)
(***************************************************************************)
EXTENDS RtkHandles, TLC

Alike == Permutations(Threads)
=============================================================================
