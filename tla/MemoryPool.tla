----------------------------- MODULE MemoryPool -----------------------------
(***************************************************************************)
(* The fixed-size record pool of tvserver/CDbFactory/hsvmempool.h and      *)
(* hsvmempool_m.cpp: a free list threaded through an array of integers.    *)
(*                                                                         *)
(* FreeList has one node per element and one more, the node MaxElements,   *)
(* which ends the list; FreeList[i] = i marks element i as handed out.     *)
(* An address Buffers + i * ElementSize is represented by the index i, so  *)
(* the address computation and its inverse in Free are both "i".  Index    *)
(* MaxElements is the first byte PAST the Buffers allocation.              *)
(*                                                                         *)
(* The operators below are actions on the pool's two variables.  Modules   *)
(* that own a pool (PoolClient, SortedTable) EXTEND this one and conjoin   *)
(* them with their own changes.                                            *)
(***************************************************************************)
EXTENDS Integers

CONSTANT MaxElements    \* elements that fit in Buffers

\* The pool is only ever constructed for a non-empty table (hsvsrtdb.h:84).
ASSUME MaxElementsAssumption == MaxElements \in Nat \ {0}

VARIABLES FreePtr,      \* head of the free list, or POOL_TERMINAL
          FreeList      \* successor of every free node

poolVars == <<FreePtr, FreeList>>

POOL_TERMINAL == -1

Elements == 0 .. MaxElements - 1    \* indices whose memory Buffers owns
PastEnd  == MaxElements             \* the list's last node: no memory behind it
Nodes    == 0 .. MaxElements        \* DOMAIN of FreeList

(***************************************************************************)
(* The list the constructor and Reset build: 0 -> 1 -> ... -> MaxElements. *)
(***************************************************************************)
FreshList == [j \in Nodes |-> IF j < MaxElements THEN j + 1 ELSE POOL_TERMINAL]

PoolInit == FreePtr = 0 /\ FreeList = FreshList

Reset == FreePtr' = 0 /\ FreeList' = FreshList

(***************************************************************************)
(* Malloc pops the head and marks it.  It refuses only on POOL_TERMINAL,   *)
(* so the head may also be the node PastEnd.                               *)
(***************************************************************************)
Exhausted == FreePtr = POOL_TERMINAL

\* Mutation of Malloc: the element is not marked as handed out.
MallocUnmarked(element) ==
    /\ ~Exhausted /\ element = FreePtr
    /\ FreePtr' = FreeList[FreePtr] /\ UNCHANGED FreeList

Malloc(element) ==
    /\ ~Exhausted
    /\ element = FreePtr
    /\ FreePtr' = FreeList[FreePtr]
    /\ FreeList' = [FreeList EXCEPT ![FreePtr] = FreePtr]

(***************************************************************************)
(* Free pushes the element back if it is inside Buffers and is marked as   *)
(* handed out; anything else is silently ignored.                          *)
(***************************************************************************)
HandedOut(i) == FreeList[i] = i

\* Mutations of Free: no check for a double free; the old head is forgotten
\* and the list continues at its last node.
FreeTwice(element) ==
    IF element \in Elements
    THEN FreeList' = [FreeList EXCEPT ![element] = FreePtr] /\ FreePtr' = element
    ELSE UNCHANGED poolVars

FreeLosesRest(element) ==
    IF element \in Elements /\ HandedOut(element)
    THEN FreeList' = [FreeList EXCEPT ![element] = PastEnd] /\ FreePtr' = element
    ELSE UNCHANGED poolVars

Free(element) ==
    IF element \in Elements /\ HandedOut(element)
    THEN /\ FreeList' = [FreeList EXCEPT ![element] = FreePtr]
         /\ FreePtr' = element
    ELSE UNCHANGED poolVars

-----------------------------------------------------------------------------
PoolTypeOK ==
    /\ FreePtr \in Nodes \cup {POOL_TERMINAL}
    /\ FreeList \in [Nodes -> Nodes \cup {POOL_TERMINAL}]

(***************************************************************************)
(* Where the free list ends: at the node PastEnd, or at POOL_TERMINAL once *)
(* that node has itself been handed out (Free ignores it, so for good).    *)
(***************************************************************************)
ListEnd == IF HandedOut(PastEnd) THEN POOL_TERMINAL ELSE PastEnd

(***************************************************************************)
(* FreeChain(n, c): the free list is exactly c[1], ..., c[n], in order and *)
(* without repetition, then ListEnd.  The chain holds precisely the        *)
(* elements not marked as handed out, so no element is lost and none is    *)
(* both free and in use.                                                   *)
(***************************************************************************)
FreeChain(n, c) ==
    /\ \A i \in 1 .. n : \A j \in 1 .. n : c[i] = c[j] => i = j
    /\ \A e \in Elements : HandedOut(e) <=> \A i \in 1 .. n : c[i] # e
    /\ FreePtr = IF n = 0 THEN ListEnd ELSE c[1]
    /\ \A i \in 1 .. n : FreeList[c[i]] = IF i = n THEN ListEnd ELSE c[i + 1]
    /\ FreeList[PastEnd] \in {POOL_TERMINAL, PastEnd}

PoolIntact == \E n \in 0 .. MaxElements : \E c \in [1 .. n -> Elements] : FreeChain(n, c)
=============================================================================
