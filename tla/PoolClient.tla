----------------------------- MODULE PoolClient -----------------------------
(***************************************************************************)
(* The pool under the most general client its public interface allows:     *)
(* mallocs until refused, frees of elements it holds, of elements it has   *)
(* already given back and of the past-the-end address, and resets.         *)
(* `held` is what the pool has given out and has not taken back since.     *)
(***************************************************************************)
EXTENDS MemoryPool

VARIABLE held

clientVars == <<FreePtr, FreeList, held>>

ClientInit == PoolInit /\ held = {}

ClientMalloc ==
    \E element \in Nodes : Malloc(element) /\ held' = held \cup {element}

ClientRefused == Exhausted /\ UNCHANGED clientVars

\* The pool ignores a free of the past-the-end address, so it stays given out.
ClientFree ==
    \E element \in Nodes : Free(element) /\ held' = held \ ({element} \ {PastEnd})

ClientReset == Reset /\ held' = {}

ClientNext == ClientMalloc \/ ClientRefused \/ ClientFree \/ ClientReset

ClientSpec == ClientInit /\ [][ClientNext]_clientVars

-----------------------------------------------------------------------------
(***************************************************************************)
(* Types, and the marks in FreeList agree with what has been given out.    *)
(***************************************************************************)
ClientTypeOK ==
    /\ PoolTypeOK
    /\ held \subseteq Nodes
    /\ \A e \in Nodes : e \in held <=> HandedOut(e)

(***************************************************************************)
(* PoolIntact (module MemoryPool): under double frees, wild frees and any  *)
(* order of frees the list stays a simple chain through exactly the free   *)
(* elements (the checks at hsvmempool_m.cpp:36-37).                        *)
(***************************************************************************)

(***************************************************************************)
(* Nothing ever leaks out of the free list.  Malloc refuses, or hands out  *)
(* the address past the end of Buffers (the terminal node compares unequal *)
(* to POOL_TERMINAL, hsvmempool_m.cpp:52), only when every element is in   *)
(* use: a client that never asks for more than MaxElements is served, and  *)
(* stays inside the allocation.                                            *)
(***************************************************************************)
NothingLeaks == Exhausted \/ FreePtr = PastEnd => Elements \subseteq held
=============================================================================
