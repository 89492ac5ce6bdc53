------------------------- MODULE SortedTableProofs --------------------------
(***************************************************************************)
(* The safety invariants of the pool under any client, and of the table,   *)
(* for tables of every size, every set of keys, values and threads, and    *)
(* every sorting criteria.                                                 *)
(*                                                                         *)
(* The pool first: its free list stays intact under every operation.  The  *)
(* chain that PoolIntact asserts is an existential; each lemma builds the  *)
(* chain after the step from the chain before it.                          *)
(*                                                                         *)
(* The inductive invariant IInv of the table has three parts.  ControlOK:  *)
(* the threads inside a section are the one that holds the mutex, and a    *)
(* thread about to insert has room.  TableOK: array, pool and contents     *)
(* agree, and the records are sorted.  SearchOK: what the holder's         *)
(* bisection has ruled out, and what its result means.  The parts need     *)
(* each other: an insert keeps the order because the bisection's position  *)
(* is right, and the bisection is right because the records are in order   *)
(* and because nobody else is inside a section.                            *)
(*                                                                         *)
(* FullInv adds what a finished bisection says of a key that is absent     *)
(* (OutcomeOK), where the record of an update that nobody has disturbed is *)
(* (LoneOK), and that the answers given are exact.                         *)
(*                                                                         *)
(* The last part is the refinement of TableMap.  The map's keys are the    *)
(* sort keys of the positions, one each, and a call's key splits the       *)
(* positions in three ranges (Splits): that gives every rank and every     *)
(* count of the map.  Each step of the table is then one of the map's.     *)
(***************************************************************************)
EXTENDS TableRefinement, PoolClient, FiniteSetTheorems, WellFoundedInduction, TLAPS

(***************************************************************************)
(* Pigeonhole for index sequences: no repetition-free sequence of elements *)
(* of 0 .. n - 1 is longer than n.                                         *)
(***************************************************************************)
LEMMA IndexPigeonhole ==
    ASSUME NEW m \in Nat, NEW T, IsFiniteSet(T), NEW c \in [1 .. m -> T],
           \A i \in 1 .. m : \A j \in 1 .. m : c[i] = c[j] => i = j
    PROVE  m <= Cardinality(T)
<1>1. IsFiniteSet(1 .. m) /\ Cardinality(1 .. m) = m
    BY FS_Interval
<1>2. Cardinality(T) \in Nat
    BY FS_CardinalityType
<1>3. ~(Cardinality(T) < Cardinality(1 .. m))
    BY <1>1, FS_PigeonHole
<1> QED BY <1>1, <1>2, <1>3

(***************************************************************************)
(* The fresh list of the constructor and of Reset is intact: its chain is  *)
(* 0, 1, ..., MaxElements - 1.                                             *)
(***************************************************************************)
LEMMA FreshIsIntact == PoolInit => PoolTypeOK /\ PoolIntact
<1> SUFFICES ASSUME PoolInit PROVE PoolTypeOK /\ PoolIntact
    OBVIOUS
<1> DEFINE c == [i \in 1 .. MaxElements |-> i - 1]
<1>1. MaxElements \in Nat \ {0}
    BY MaxElementsAssumption
<1>2. PoolTypeOK
    BY <1>1 DEF PoolInit, PoolTypeOK, FreshList, Nodes, POOL_TERMINAL
<1>3. c \in [1 .. MaxElements -> Elements]
    BY <1>1 DEF Elements
<1>4. FreeChain(MaxElements, c)
    <2>1. FreePtr = 0 /\ FreeList = [j \in Nodes |-> IF j < MaxElements THEN j + 1 ELSE -1]
        BY DEF PoolInit, FreshList, POOL_TERMINAL
    <2>2. \A i \in 1 .. MaxElements : c[i] = i - 1 /\ c[i] \in Nodes
        BY <1>1 DEF Nodes
    <2>3. \A j \in Nodes : ~HandedOut(j)
        BY <1>1, <2>1 DEF HandedOut, Nodes
    <2>4. ListEnd = MaxElements
        BY <1>1, <2>3 DEF ListEnd, Nodes, PastEnd
    <2>5. \A i \in 1 .. MaxElements : \A j \in 1 .. MaxElements : c[i] = c[j] => i = j
        BY <1>1
    <2>6. \A e \in Elements : HandedOut(e) <=> \A i \in 1 .. MaxElements : c[i] # e
        <3> SUFFICES ASSUME NEW e \in Elements
                     PROVE  ~HandedOut(e) /\ \E i \in 1 .. MaxElements : c[i] = e
            OBVIOUS
        <3>1. e + 1 \in 1 .. MaxElements /\ c[e + 1] = e
            BY <1>1 DEF Elements
        <3> QED BY <1>1, <2>3, <3>1 DEF Elements, Nodes
    <2>7. \A i \in 1 .. MaxElements :
             FreeList[c[i]] = IF i = MaxElements THEN ListEnd ELSE c[i + 1]
        BY <1>1, <2>1, <2>2, <2>4
    <2>8. FreeList[PastEnd] = POOL_TERMINAL
        BY <1>1, <2>1 DEF PastEnd, Nodes, POOL_TERMINAL
    <2>9. FreePtr = c[1] /\ MaxElements # 0
        BY <1>1, <2>1, <2>2
    <2> HIDE DEF c
    <2> QED BY <2>5, <2>6, <2>7, <2>8, <2>9 DEF FreeChain
<1>5. MaxElements \in 0 .. MaxElements
    BY <1>1
<1> HIDE DEF c
<1> QED BY <1>2, <1>3, <1>4, <1>5 DEF PoolIntact

\* Reset rebuilds the intact list, whatever was there before.
LEMMA ResetIsIntact == Reset => PoolTypeOK' /\ PoolIntact'
<1>1. Reset => PoolInit'
    BY DEF Reset, PoolInit, FreshList, Nodes, POOL_TERMINAL
<1> QED BY <1>1, FreshIsIntact, PTL

(***************************************************************************)
(* Malloc takes the first element off the chain, or, when the chain is     *)
(* empty, the node past the end.                                           *)
(***************************************************************************)
LEMMA MallocIsIntact ==
    ASSUME PoolTypeOK, PoolIntact, NEW element, Malloc(element)
    PROVE  /\ PoolTypeOK' /\ PoolIntact'
           /\ element \in Nodes /\ ~HandedOut(element)
           /\ \A e \in Nodes : HandedOut(e)' <=> HandedOut(e) \/ e = element
<1>1. MaxElements \in Nat \ {0}
    BY MaxElementsAssumption
<1>2. /\ FreePtr \in Nodes /\ element = FreePtr
      /\ FreePtr' = FreeList[FreePtr]
      /\ FreeList' = [FreeList EXCEPT ![FreePtr] = FreePtr]
      /\ FreeList \in [Nodes -> Nodes \cup {-1}]
    BY DEF Malloc, Exhausted, PoolTypeOK, POOL_TERMINAL
<1>3. PoolTypeOK'
    BY <1>2 DEF PoolTypeOK, POOL_TERMINAL
<1>4. \A e \in Nodes : FreeList'[e] = IF e = element THEN element ELSE FreeList[e]
    BY <1>2
<1>5. \A e \in Nodes : HandedOut(e)' <=> HandedOut(e) \/ e = element
    BY <1>2, <1>4 DEF HandedOut
<1>6. PICK n \in 0 .. MaxElements : \E c \in [1 .. n -> Elements] : FreeChain(n, c)
    BY DEF PoolIntact
<1>7. PICK c \in [1 .. n -> Elements] : FreeChain(n, c)
    BY <1>6
<1>8. CASE n = 0
    <2>1. FreePtr = ListEnd /\ ListEnd = PastEnd /\ ~HandedOut(PastEnd)
        BY <1>2, <1>7, <1>8, <1>1 DEF FreeChain, ListEnd, Nodes, POOL_TERMINAL
    <2>2. FreeList[PastEnd] = -1 /\ PastEnd = MaxElements
        BY <1>7, <2>1, <1>1 DEF FreeChain, HandedOut, PastEnd, POOL_TERMINAL
    <2>3. HandedOut(PastEnd)' /\ ListEnd' = -1 /\ FreePtr' = -1 /\ FreeList'[PastEnd] = PastEnd
        BY <1>2, <1>4, <1>5, <2>1, <2>2, <1>1 DEF ListEnd, PastEnd, Nodes, POOL_TERMINAL
    <2>4. \A e \in Elements : HandedOut(e)'
        BY <1>1, <1>5, <1>7, <1>8 DEF FreeChain, Elements, Nodes
    <2>5. FreeChain(0, c)'
        BY <1>7, <1>8, <2>3, <2>4 DEF FreeChain, PastEnd
    <2>6. PoolIntact'
        BY <1>1, <1>8, <2>5 DEF PoolIntact, Elements
    <2> QED BY <1>2, <1>3, <1>5, <2>1, <2>6
<1>9. CASE n # 0
    <2> DEFINE d == [i \in 1 .. n - 1 |-> c[i + 1]]
    <2>1. n - 1 \in 0 .. MaxElements /\ n \in Nat /\ n >= 1
        BY <1>1, <1>9
    <2>2. element = c[1] /\ element \in Elements /\ element # PastEnd /\ ~HandedOut(element)
        BY <1>1, <1>2, <1>7, <1>9, <2>1 DEF FreeChain, Elements, PastEnd
    <2>3. d \in [1 .. n - 1 -> Elements] /\ \A i \in 1 .. n - 1 : d[i] = c[i + 1] /\ i + 1 \in 1 .. n
        BY <1>7, <2>1
    <2>4. ListEnd' = ListEnd /\ FreeList'[PastEnd] = FreeList[PastEnd]
        BY <1>1, <1>4, <1>5, <2>2 DEF ListEnd, PastEnd, Nodes, POOL_TERMINAL
    <2>5. FreeList[c[1]] = IF n = 1 THEN ListEnd ELSE c[2]
        BY <1>7, <2>1 DEF FreeChain
    <2>6. FreeChain(n - 1, d)'
        <3>1. \A i \in 1 .. n - 1 : \A j \in 1 .. n - 1 : d[i] = d[j] => i = j
            BY <1>7, <2>1, <2>3 DEF FreeChain
        <3>2. \A e \in Elements : HandedOut(e)' <=> \A i \in 1 .. n - 1 : d[i] # e
            <4> SUFFICES ASSUME NEW e \in Elements
                         PROVE  HandedOut(e)' <=> \A i \in 1 .. n - 1 : d[i] # e
                OBVIOUS
            <4>1. HandedOut(e)' <=> HandedOut(e) \/ e = c[1]
                BY <1>1, <1>5, <2>2 DEF Elements, Nodes
            <4>2. HandedOut(e) <=> \A i \in 1 .. n : c[i] # e
                BY <1>7 DEF FreeChain
            <4>3. ASSUME e = c[1] PROVE \A i \in 1 .. n - 1 : d[i] # e
                BY <1>7, <2>1, <2>3, <4>3 DEF FreeChain
            <4>4. ASSUME e # c[1], \A i \in 1 .. n - 1 : d[i] # e
                  PROVE  \A i \in 1 .. n : c[i] # e
                <5> SUFFICES ASSUME NEW i \in 1 .. n, i # 1 PROVE c[i] # e
                    BY <4>4
                <5>1. i - 1 \in 1 .. n - 1 /\ d[i - 1] = c[i]
                    BY <2>1, <2>3
                <5> QED BY <5>1, <4>4
            <4>5. ASSUME \A i \in 1 .. n : c[i] # e PROVE \A i \in 1 .. n - 1 : d[i] # e
                BY <2>3, <4>5
            <4> QED BY <4>1, <4>2, <4>3, <4>4, <4>5
        <3>3. FreePtr' = IF n - 1 = 0 THEN ListEnd' ELSE d[1]
            BY <1>2, <2>1, <2>2, <2>3, <2>4, <2>5
        <3>4. \A i \in 1 .. n - 1 : FreeList'[d[i]] = IF i = n - 1 THEN ListEnd' ELSE d[i + 1]
            <4> SUFFICES ASSUME NEW i \in 1 .. n - 1
                         PROVE  FreeList'[d[i]] = IF i = n - 1 THEN ListEnd' ELSE d[i + 1]
                OBVIOUS
            <4>1. d[i] # element /\ d[i] \in Nodes
                BY <1>1, <1>7, <2>1, <2>2, <2>3 DEF FreeChain, Elements, Nodes
            <4>2. FreeList'[d[i]] = FreeList[c[i + 1]]
                BY <1>4, <2>3, <4>1
            <4>3. FreeList[c[i + 1]] = IF i + 1 = n THEN ListEnd ELSE c[i + 2]
                BY <1>7, <2>1, <2>3 DEF FreeChain
            <4> QED BY <2>1, <2>3, <2>4, <4>2, <4>3
        <3>5. FreeList'[PastEnd] \in {POOL_TERMINAL, PastEnd}
            BY <1>7, <2>4 DEF FreeChain
        <3> HIDE DEF d
        <3> QED BY <3>1, <3>2, <3>3, <3>4, <3>5 DEF FreeChain, PastEnd, POOL_TERMINAL
    <2>7. PoolIntact'
        <3> HIDE DEF d
        <3> QED BY <2>1, <2>3, <2>6 DEF PoolIntact
    <2> QED BY <1>1, <1>2, <1>3, <1>5, <2>2, <2>7
<1> QED BY <1>8, <1>9

(***************************************************************************)
(* Free puts an element back in front of the chain, or does nothing.       *)
(***************************************************************************)
LEMMA FreeIsIntact ==
    ASSUME PoolTypeOK, PoolIntact, NEW element, Free(element)
    PROVE  /\ PoolTypeOK' /\ PoolIntact'
           /\ \A e \in Nodes : HandedOut(e)' <=> HandedOut(e) /\ (e = element => e = PastEnd)
<1>1. MaxElements \in Nat \ {0}
    BY MaxElementsAssumption
<1>2. PICK n \in 0 .. MaxElements : \E c \in [1 .. n -> Elements] : FreeChain(n, c)
    BY DEF PoolIntact
<1>3. PICK c \in [1 .. n -> Elements] : FreeChain(n, c)
    BY <1>2
<1>4. CASE ~(element \in Elements /\ HandedOut(element))
    <2>1. FreePtr' = FreePtr /\ FreeList' = FreeList
        BY <1>4 DEF Free, poolVars
    <2>2. FreeChain(n, c)'
        BY <1>3, <2>1 DEF FreeChain, ListEnd, HandedOut
    <2>3. PoolTypeOK' /\ PoolIntact'
        BY <1>2, <2>1, <2>2 DEF PoolTypeOK, PoolIntact
    <2>4. \A e \in Nodes : e # PastEnd => e \in Elements
        BY <1>1 DEF Nodes, PastEnd, Elements
    <2> QED BY <1>4, <2>1, <2>3, <2>4 DEF HandedOut
<1>5. CASE element \in Elements /\ HandedOut(element)
    <2> DEFINE d == [i \in 1 .. n + 1 |-> IF i = 1 THEN element ELSE c[i - 1]]
    <2>1. n \in Nat /\ element \in Nodes /\ element # PastEnd
        BY <1>1, <1>5 DEF Elements, Nodes, PastEnd
    <2>2. /\ FreeList' = [FreeList EXCEPT ![element] = FreePtr]
          /\ FreePtr' = element
          /\ FreePtr \in Nodes \cup {-1} /\ FreeList \in [Nodes -> Nodes \cup {-1}]
        BY <1>5 DEF Free, PoolTypeOK, POOL_TERMINAL
    <2>3. \A e \in Nodes : FreeList'[e] = IF e = element THEN FreePtr ELSE FreeList[e]
        BY <2>2
    <2>4. \A i \in 1 .. n : c[i] # element /\ c[i] \in Nodes /\ c[i] \in Elements
        BY <1>1, <1>3, <1>5 DEF FreeChain, Elements, Nodes
    <2>5. FreePtr # element
        BY <1>1, <1>3, <1>5, <2>1, <2>4 DEF FreeChain, ListEnd, Elements, PastEnd, POOL_TERMINAL
    <2>6. \A e \in Nodes : HandedOut(e)' <=> HandedOut(e) /\ e # element
        BY <2>3, <2>5 DEF HandedOut
    <2>7. ListEnd' = ListEnd /\ FreeList'[PastEnd] = FreeList[PastEnd]
        BY <1>1, <2>1, <2>3, <2>6 DEF ListEnd, PastEnd, Nodes, POOL_TERMINAL
    <2>8. n + 1 \in 0 .. MaxElements
        <3>1. IsFiniteSet(Elements) /\ Cardinality(Elements) = MaxElements
            BY <1>1, FS_Interval DEF Elements
        <3>2. IsFiniteSet(Elements \ {element})
              /\ Cardinality(Elements \ {element}) = MaxElements - 1
            BY <1>5, <3>1, FS_RemoveElement
        <3>3. c \in [1 .. n -> Elements \ {element}]
            BY <1>3, <2>4
        <3>4. \A i \in 1 .. n : \A j \in 1 .. n : c[i] = c[j] => i = j
            BY <1>3 DEF FreeChain
        <3>5. n <= Cardinality(Elements \ {element})
            BY <2>1, <3>2, <3>3, <3>4, IndexPigeonhole
        <3> QED BY <1>1, <2>1, <3>2, <3>5
    <2>9. /\ d \in [1 .. n + 1 -> Elements] /\ d[1] = element
          /\ \A i \in 1 .. n + 1 : i # 1 => d[i] = c[i - 1] /\ i - 1 \in 1 .. n
        BY <1>3, <1>5, <2>1, <2>4
    <2>10. FreeChain(n + 1, d)'
        <3> HIDE DEF d
        <3>1. \A i \in 1 .. n + 1 : \A j \in 1 .. n + 1 : d[i] = d[j] => i = j
            <4> SUFFICES ASSUME NEW i \in 1 .. n + 1, NEW j \in 1 .. n + 1, d[i] = d[j]
                         PROVE  i = j
                OBVIOUS
            <4>1. CASE i = 1 \/ j = 1
                BY <2>4, <2>9, <4>1
            <4>2. CASE i # 1 /\ j # 1
                <5>1. c[i - 1] = c[j - 1] /\ i - 1 \in 1 .. n /\ j - 1 \in 1 .. n
                    BY <2>9, <4>2
                <5>2. i - 1 = j - 1
                    BY <1>3, <5>1 DEF FreeChain
                <5> QED BY <2>1, <5>2
            <4> QED BY <4>1, <4>2
        <3>2. \A e \in Elements : HandedOut(e)' <=> \A i \in 1 .. n + 1 : d[i] # e
            <4> SUFFICES ASSUME NEW e \in Elements
                         PROVE  HandedOut(e)' <=> \A i \in 1 .. n + 1 : d[i] # e
                OBVIOUS
            <4>1. HandedOut(e)' <=> HandedOut(e) /\ e # element
                BY <1>1, <2>6 DEF Elements, Nodes
            <4>2. HandedOut(e) <=> \A i \in 1 .. n : c[i] # e
                BY <1>3 DEF FreeChain
            <4>3. \A i \in 1 .. n : d[i + 1] = c[i] /\ i + 1 \in 1 .. n + 1
                BY <2>1, <2>9
            <4>4. ASSUME \A i \in 1 .. n + 1 : d[i] # e
                  PROVE  e # element /\ \A i \in 1 .. n : c[i] # e
                BY <2>1, <2>9, <4>3, <4>4
            <4>5. ASSUME e # element, \A i \in 1 .. n : c[i] # e
                  PROVE  \A i \in 1 .. n + 1 : d[i] # e
                BY <2>9, <4>5
            <4> QED BY <4>1, <4>2, <4>4, <4>5
        <3>3. FreePtr = IF n = 0 THEN ListEnd ELSE c[1]
            BY <1>3 DEF FreeChain
        <3>4. \A i \in 1 .. n + 1 : FreeList'[d[i]] = IF i = n + 1 THEN ListEnd' ELSE d[i + 1]
            <4> SUFFICES ASSUME NEW i \in 1 .. n + 1
                         PROVE  FreeList'[d[i]] = IF i = n + 1 THEN ListEnd' ELSE d[i + 1]
                OBVIOUS
            <4>1. CASE i = 1
                <5>1. FreeList'[d[i]] = FreePtr
                    BY <2>1, <2>3, <2>9, <4>1
                <5>2. n # 0 => 2 \in 1 .. n + 1 /\ d[2] = c[1]
                    BY <2>1, <2>9
                <5> QED BY <2>1, <2>7, <3>3, <4>1, <5>1, <5>2
            <4>2. CASE i # 1
                <5>1. d[i] = c[i - 1] /\ i - 1 \in 1 .. n
                    BY <2>9, <4>2
                <5>2. FreeList'[d[i]] = FreeList[c[i - 1]]
                    BY <2>3, <2>4, <5>1
                <5>3. FreeList[c[i - 1]] = IF i - 1 = n THEN ListEnd ELSE c[(i - 1) + 1]
                    BY <1>3, <5>1 DEF FreeChain
                <5>4. i # n + 1 => d[i + 1] = c[i]
                    BY <2>1, <2>9, <4>2
                <5> QED BY <2>1, <2>7, <5>2, <5>3, <5>4
            <4> QED BY <4>1, <4>2
        <3>5. FreeList'[PastEnd] \in {POOL_TERMINAL, PastEnd}
            BY <1>3, <2>7 DEF FreeChain
        <3>6. FreePtr' = d[1] /\ n + 1 # 0
            BY <2>1, <2>2, <2>9
        <3> QED BY <3>1, <3>2, <3>4, <3>5, <3>6 DEF FreeChain, PastEnd, POOL_TERMINAL
    <2>11. PoolIntact'
        <3> HIDE DEF d
        <3> QED BY <2>8, <2>9, <2>10 DEF PoolIntact
    <2>12. PoolTypeOK'
        BY <2>1, <2>2 DEF PoolTypeOK, POOL_TERMINAL
    <2> QED BY <2>1, <2>6, <2>11, <2>12
<1> QED BY <1>4, <1>5

(***************************************************************************)
(* What an intact list says of its head: it is an element not handed out,  *)
(* or the list has no element left, and then all of them are handed out.   *)
(***************************************************************************)
LEMMA HeadOfIntact ==
    ASSUME PoolTypeOK, PoolIntact
    PROVE  /\ FreePtr \in Nodes => ~HandedOut(FreePtr)
           /\ FreePtr \notin Elements => \A e \in Elements : HandedOut(e)
<1>1. MaxElements \in Nat \ {0}
    BY MaxElementsAssumption
<1>2. PICK n \in 0 .. MaxElements : \E c \in [1 .. n -> Elements] : FreeChain(n, c)
    BY DEF PoolIntact
<1>3. PICK c \in [1 .. n -> Elements] : FreeChain(n, c)
    BY <1>2
<1>4. CASE n = 0
    <2>1. FreePtr = ListEnd /\ \A e \in Elements : HandedOut(e)
        BY <1>3, <1>4 DEF FreeChain
    <2>2. FreePtr \in Nodes => ~HandedOut(FreePtr)
        BY <1>1, <2>1 DEF ListEnd, Nodes, POOL_TERMINAL
    <2> QED BY <2>1, <2>2
<1>5. CASE n # 0
    <2>1. FreePtr = c[1] /\ 1 \in 1 .. n
        BY <1>1, <1>3, <1>5 DEF FreeChain
    <2>2. FreePtr \in Elements /\ ~HandedOut(FreePtr)
        BY <1>3, <2>1 DEF FreeChain
    <2> QED BY <2>2
<1> QED BY <1>4, <1>5

(***************************************************************************)
(* Nothing else touches the pool.                                          *)
(***************************************************************************)
LEMMA StutterIsIntact ==
    ASSUME PoolTypeOK, PoolIntact, UNCHANGED poolVars
    PROVE  /\ PoolTypeOK' /\ PoolIntact'
           /\ \A e : HandedOut(e)' <=> HandedOut(e)
<1>1. FreePtr' = FreePtr /\ FreeList' = FreeList
    BY DEF poolVars
<1>2. PoolTypeOK'
    BY <1>1 DEF PoolTypeOK
<1>3. ASSUME NEW n \in 0 .. MaxElements, NEW c \in [1 .. n -> Elements], FreeChain(n, c)
      PROVE  FreeChain(n, c)'
    BY <1>1, <1>3 DEF FreeChain, ListEnd, HandedOut
<1>4. PoolIntact'
    BY <1>3 DEF PoolIntact
<1> QED BY <1>1, <1>2, <1>4 DEF HandedOut

-----------------------------------------------------------------------------
(***************************************************************************)
(* The pool under any client that uses its public interface.  ClientIInv:  *)
(* the free list is intact and its marks are what the client holds.        *)
(* PoolIntact is needed for the rest: that the head is not held cannot be  *)
(* kept by itself, because the next head is whatever the list holds behind *)
(* it.                                                                     *)
(***************************************************************************)
ClientIInv == ClientTypeOK /\ PoolIntact

\* The fresh pool with nothing given out satisfies the invariant.
LEMMA ClientInitIInv == ClientInit => ClientIInv
<1> SUFFICES ASSUME ClientInit PROVE ClientIInv
    OBVIOUS
<1>1. PoolTypeOK /\ PoolIntact
    BY FreshIsIntact DEF ClientInit
<1>2. \A e \in Nodes : ~HandedOut(e)
    BY MaxElementsAssumption DEF ClientInit, PoolInit, FreshList, HandedOut, Nodes, POOL_TERMINAL
<1> QED BY <1>1, <1>2 DEF ClientInit, ClientIInv, ClientTypeOK

\* Every call of the client, sensible or not, keeps the invariant.
LEMMA ClientNextIInv == ClientIInv /\ [ClientNext]_clientVars => ClientIInv'
<1> SUFFICES ASSUME ClientIInv, [ClientNext]_clientVars PROVE ClientIInv'
    OBVIOUS
<1>1. PoolTypeOK /\ PoolIntact /\ held \subseteq Nodes /\ \A e \in Nodes : e \in held <=> HandedOut(e)
    BY DEF ClientIInv, ClientTypeOK
<1>2. ASSUME NEW element \in Nodes, Malloc(element), held' = held \cup {element}
      PROVE  ClientIInv'
    <2>1. /\ PoolTypeOK' /\ PoolIntact'
          /\ \A e \in Nodes : HandedOut(e)' <=> HandedOut(e) \/ e = element
        BY <1>1, <1>2, MallocIsIntact
    <2> QED BY <1>1, <1>2, <2>1 DEF ClientIInv, ClientTypeOK, Nodes, HandedOut
<1>3. ASSUME NEW element \in Nodes, Free(element), held' = held \ ({element} \ {PastEnd})
      PROVE  ClientIInv'
    <2>1. /\ PoolTypeOK' /\ PoolIntact'
          /\ \A e \in Nodes : HandedOut(e)' <=> HandedOut(e) /\ (e = element => e = PastEnd)
        BY <1>1, <1>3, FreeIsIntact
    <2> QED BY <1>1, <1>3, <2>1 DEF ClientIInv, ClientTypeOK, Nodes, HandedOut
<1>4. ASSUME ClientReset PROVE ClientIInv'
    <2>1. PoolTypeOK' /\ PoolIntact'
        BY <1>4, ResetIsIntact DEF ClientReset
    <2>2. \A e \in Nodes : ~HandedOut(e)'
        BY <1>4, MaxElementsAssumption
        DEF ClientReset, Reset, FreshList, HandedOut, Nodes, POOL_TERMINAL
    <2> QED BY <1>4, <2>1, <2>2 DEF ClientIInv, ClientTypeOK, ClientReset, Nodes
<1>5. ASSUME UNCHANGED clientVars PROVE ClientIInv'
    <2>1. UNCHANGED poolVars /\ held' = held
        BY <1>5 DEF clientVars, poolVars
    <2>2. PoolTypeOK' /\ PoolIntact' /\ \A e : HandedOut(e)' <=> HandedOut(e)
        BY <1>1, <2>1, StutterIsIntact
    <2> QED BY <1>1, <2>1, <2>2 DEF ClientIInv, ClientTypeOK
<1> QED BY <1>2, <1>3, <1>4, <1>5 DEF ClientNext, ClientMalloc, ClientFree, ClientRefused

(***************************************************************************)
(* Types hold, and the marks always agree with what was given out.         *)
(***************************************************************************)
THEOREM ClientIsIntact == ClientSpec => []ClientIInv
BY ClientInitIInv, ClientNextIInv, PTL DEF ClientSpec

\* The types hold, and the marks in FreeList are what has been given out.
THEOREM ClientTypeCorrect == ClientSpec => []ClientTypeOK
<1>1. ClientIInv => ClientTypeOK
    BY DEF ClientIInv
<1> QED BY <1>1, ClientIsIntact, PTL

(***************************************************************************)
(* No order of mallocs, frees, double frees and wild frees loses an        *)
(* element or puts one in the list twice.                                  *)
(***************************************************************************)
THEOREM PoolAlwaysIntact == ClientSpec => []PoolIntact
<1>1. ClientIInv => PoolIntact
    BY DEF ClientIInv
<1> QED BY <1>1, ClientIsIntact, PTL

(***************************************************************************)
(* Malloc refuses, and hands out the address past the end of Buffers, only *)
(* when the client holds every element.                                    *)
(***************************************************************************)
THEOREM PoolNeverLeaks == ClientSpec => []NothingLeaks
<1>1. ClientIInv => NothingLeaks
    <2> SUFFICES ASSUME ClientIInv, Exhausted \/ FreePtr = PastEnd PROVE Elements \subseteq held
        BY DEF NothingLeaks
    <2>1. FreePtr \notin Elements
        BY MaxElementsAssumption DEF Exhausted, Elements, PastEnd, POOL_TERMINAL
    <2>2. \A e \in Elements : e \in Nodes
        BY MaxElementsAssumption DEF Elements, Nodes
    <2> QED BY <2>1, <2>2, HeadOfIntact DEF ClientIInv, ClientTypeOK
<1> QED BY <1>1, ClientIsIntact, PTL

-----------------------------------------------------------------------------
Holding == {"mBinInsert", "mBinSearch", "placed", "searched"}
Placing == {"mBinInsert", "placed"}

\* Where a thread inside UpdateRecord can be, and in which method.
UpdateStage(at, op) == at = "relock" \/ (at # "idle" /\ op \in {"DeleteRecord", "InsertRecord"})

ControlTypeOK ==
    /\ srtdb_mutex \in Threads \cup {NoThread}
    /\ pc \in [Threads -> Pcs]
    /\ call \in [Threads -> AnyCall \cup {NoCall}]
    /\ updating \in [Threads -> BOOLEAN]
    /\ ret \in [Threads -> BOOLEAN]
    /\ disturbed \in [Threads -> BOOLEAN]

ControlOK ==
    /\ ControlTypeOK
    /\ \A t \in Threads : srtdb_mutex = t <=> pc[t] \in Holding
    /\ \A t \in Threads : pc[t] # "idle" => call[t] \in AnyCall
    /\ \A t \in Threads : updating[t] => UpdateStage(pc[t], call[t].op)
    /\ \A t \in Threads : pc[t] \in Placing => call[t].op \in {"InsertRecord", "SearchOnKey2"}
    /\ \A t \in Threads : pc[t] \in Placing /\ call[t].op = "InsertRecord"
                            => TotNoOfRecords < MaxRecords

TableTypeOK ==
    /\ PoolTypeOK
    /\ TotNoOfRecords \in 0 .. MaxRecords
    /\ Data \in [Positions -> Nodes \cup {NULL, NotWritten}]
    /\ Buffers \in [Nodes -> Record \cup {Unused}]

TableOK ==
    /\ TableTypeOK
    /\ PoolIntact
    /\ NoLeakNoAlias
    /\ NeverPastEnd
    /\ \A i \in Slots : RecordAt(i) \in Record
    /\ StrictlySorted

LocalsTypeOK ==
    /\ low \in 0 .. MaxRecords
    /\ hi \in -1 .. MaxRecords
    /\ index \in -1 .. MaxRecords

Position(t) ==
    /\ index \in 0 .. TotNoOfRecords
    /\ \A i \in 0 .. index - 1 : Compare(SortingCriteria, call[t].key, i) = SmallerKey
    /\ \A i \in index .. TotNoOfRecords - 1 : Compare(SortingCriteria, call[t].key, i) = BiggerKey

Found(t) ==
    /\ index \in Slots
    /\ Compare(CriteriaOf(call[t]), call[t].key, index) = EqualKey

ResultSound ==
    \A t \in Threads : index # INVALID_INDEX =>
        /\ pc[t] = "placed" => Position(t)
        /\ pc[t] = "searched" => Found(t)

SearchOK == LocalsTypeOK /\ WindowSound /\ ResultSound

IInv == ControlOK /\ TableOK /\ SearchOK

-----------------------------------------------------------------------------
(***************************************************************************)
(* CompareKeys is a strict total preorder under any criteria, and a search *)
(* on the leading levels only is consistent with the order on all.         *)
(***************************************************************************)
AllKeys == [Levels -> Nat]

(***************************************************************************)
(* The comparison gives one of its three answers.                          *)
(***************************************************************************)
LEMMA CompareType ==
    ASSUME NEW C, NEW a \in AllKeys, NEW b \in AllKeys
    PROVE  CompareKeys(C, a, b) \in {SmallerKey, EqualKey, BiggerKey}
BY DEF CompareKeys, CompareField

(***************************************************************************)
(* The searched key is smaller than a record's exactly when the record's,  *)
(* searched for, would be bigger.                                          *)
(***************************************************************************)
LEMMA CompareFlips ==
    ASSUME NEW C, NEW a \in AllKeys, NEW b \in AllKeys
    PROVE  /\ CompareKeys(C, a, b) = SmallerKey <=> CompareKeys(C, b, a) = BiggerKey
           /\ CompareKeys(C, a, b) = EqualKey <=> CompareKeys(C, b, a) = EqualKey
<1>1. \A l \in Levels : a[l] \in Nat /\ b[l] \in Nat
    BY DEF AllKeys
<1>2. \A x, y \in Nat : /\ CompareField(x, y) = SmallerKey <=> CompareField(y, x) = BiggerKey
                        /\ CompareField(x, y) = EqualKey <=> CompareField(y, x) = EqualKey
    BY DEF CompareField, SmallerKey, EqualKey, BiggerKey
<1>3. 1 \in Levels /\ 2 \in Levels /\ 3 \in Levels /\ 4 \in Levels
    BY DEF Levels
<1> QED BY <1>1, <1>2, <1>3 DEF CompareKeys

(***************************************************************************)
(* If a is bigger than b under criteria C, then a search under the first n *)
(* levels of C sees them in the same order or as equal: what is bigger     *)
(* than a is bigger than b, what is smaller than b is smaller than a.      *)
(***************************************************************************)
LEMMA CompareTransitive ==
    ASSUME NEW C \in SUBSET Levels, NEW n \in 0 .. 4, NEW D, D = C \cap 1 .. n,
           NEW k \in AllKeys, NEW a \in AllKeys, NEW b \in AllKeys,
           CompareKeys(C, a, b) = BiggerKey
    PROVE  /\ CompareKeys(D, k, a) = BiggerKey => CompareKeys(D, k, b) = BiggerKey
           /\ CompareKeys(D, k, b) = SmallerKey => CompareKeys(D, k, a) = SmallerKey
<1>1. /\ a[1] \in Nat /\ a[2] \in Nat /\ a[3] \in Nat /\ a[4] \in Nat
      /\ b[1] \in Nat /\ b[2] \in Nat /\ b[3] \in Nat /\ b[4] \in Nat
      /\ k[1] \in Nat /\ k[2] \in Nat /\ k[3] \in Nat /\ k[4] \in Nat
    BY DEF AllKeys, Levels
<1>2. /\ 2 \in D <=> 2 \in C /\ n >= 2
      /\ 3 \in D <=> 3 \in C /\ n >= 3
      /\ 4 \in D <=> 4 \in C /\ n >= 4
    OBVIOUS
<1>3. /\ 4 \in D => (3 \in D <=> 3 \in C)
      /\ 3 \in D => (2 \in D <=> 2 \in C)
      /\ 4 \in D => (2 \in D <=> 2 \in C)
      /\ 2 \in D => 2 \in C
      /\ 3 \in D => 3 \in C
      /\ 4 \in D => 4 \in C
    BY <1>2
<1> QED BY <1>1, <1>3 DEF CompareKeys, CompareField, SmallerKey, EqualKey, BiggerKey

-----------------------------------------------------------------------------
\* What the proofs use of the constants.
LEMMA ConstantsOK ==
    /\ MaxElements \in Nat \ {0} /\ MaxRecords = MaxElements
    /\ SortingCriteria \subseteq Levels /\ Keys \subseteq AllKeys
    /\ NoThread \notin Threads
BY MaxElementsAssumption, KeysAssumption, CriteriaAssumption, DistinctAssumption
   DEF MaxRecords, AllKeys

\* A call a thread may start is one a thread may be in.
LEMMA CallsAreCalls == Calls \subseteq AnyCall
BY DEF Calls, Writers, Lookups, AnyCall, Methods, Smaller, Greater

\* The empty table satisfies the invariant.
LEMMA InitIInv == Init => IInv
<1> SUFFICES ASSUME Init PROVE IInv
    OBVIOUS
<1> USE ConstantsOK
<1>1. ControlOK
    BY DEF Init, ControlOK, ControlTypeOK, Pcs, Holding, Placing
<1>2. TableTypeOK /\ PoolIntact
    BY FreshIsIntact DEF Init, TableTypeOK, Positions
<1>3. \A e \in Nodes : ~HandedOut(e)
    BY DEF Init, PoolInit, FreshList, HandedOut, Nodes, POOL_TERMINAL
<1>4. Elements \subseteq Nodes /\ PastEnd \in Nodes /\ Slots = {}
    BY DEF Init, Elements, Nodes, PastEnd, Slots
<1>5. NoLeakNoAlias /\ NeverPastEnd /\ StrictlySorted /\ \A i \in Slots : RecordAt(i) \in Record
    BY <1>3, <1>4 DEF Init, NoLeakNoAlias, NeverPastEnd, StrictlySorted
<1>6. SearchOK
    BY DEF Init, SearchOK, LocalsTypeOK, WindowSound, ResultSound, INVALID_INDEX
<1> QED BY <1>1, <1>2, <1>5, <1>6 DEF IInv, TableOK

-----------------------------------------------------------------------------
(***************************************************************************)
(* Control.                                                                *)
(***************************************************************************)

\* What a step of thread t may do to the control state without breaking it.
LEMMA ControlStep ==
    ASSUME ControlOK, NEW t \in Threads, NEW at \in Pcs, NEW c,
           pc' = [pc EXCEPT ![t] = at],
           call' = [call EXCEPT ![t] = c],
           at = "idle" \/ c \in AnyCall,
           c \in AnyCall \cup {NoCall},
           srtdb_mutex \in {NoThread, t},
           srtdb_mutex' = IF at \in Holding THEN t ELSE NoThread,
           at \in Placing => c.op \in {"InsertRecord", "SearchOnKey2"},
           at \in Placing /\ c.op = "InsertRecord" => TotNoOfRecords' < MaxRecords,
           updating' \in [Threads -> BOOLEAN],
           \A u \in Threads : u # t => updating'[u] = updating[u],
           updating'[t] => UpdateStage(at, c.op),
           ret' \in [Threads -> BOOLEAN],
           disturbed' \in [Threads -> BOOLEAN]
    PROVE  ControlOK'
<1> USE ConstantsOK
<1>1. ControlTypeOK'
    BY DEF ControlOK, ControlTypeOK
<1>2. pc \in [Threads -> Pcs] /\ call \in [Threads -> AnyCall \cup {NoCall}]
    BY DEF ControlOK, ControlTypeOK
<1>3. \A u \in Threads : pc'[u] = (IF u = t THEN at ELSE pc[u]) /\ call'[u] = (IF u = t THEN c ELSE call[u])
    BY <1>2
<1>4. \A u \in Threads : u # t => pc[u] \notin Holding
    BY DEF ControlOK
<1>5. \A u \in Threads : srtdb_mutex' = u <=> pc'[u] \in Holding
    BY <1>3, <1>4
<1>6. \A u \in Threads : u # t => pc'[u] \notin Placing
    BY <1>3, <1>4 DEF Holding, Placing
<1>7. \A u \in Threads : pc'[u] # "idle" => call'[u] \in AnyCall
    BY <1>3 DEF ControlOK
<1>8. \A u \in Threads : updating'[u] => UpdateStage(pc'[u], call'[u].op)
    BY <1>3 DEF ControlOK
<1> QED BY <1>1, <1>3, <1>5, <1>6, <1>7, <1>8 DEF ControlOK

\* The history variable keeps its type.
LEMMA DisturbType ==
    ASSUME ControlTypeOK, NEW t, Disturb(t)
    PROVE  disturbed' \in [Threads -> BOOLEAN]
<1>1. \A u \in Threads : (disturbed[u] \/ (u # t /\ updating[u])) \in BOOLEAN
    OBVIOUS
<1> QED BY <1>1 DEF Disturb

\* A call that may start is a call, and the mutex is free.
LEMMA StartsCall ==
    ASSUME ControlOK, NEW t \in Threads, NEW c, Starts(t, c)
    PROVE  /\ c \in AnyCall /\ srtdb_mutex = NoThread
           /\ updating[t] => c = call[t] /\ c.op \in {"DeleteRecord", "InsertRecord"}
BY CallsAreCalls DEF Starts, ControlOK, UpdateStage

\* Taking the mutex makes the thread its only holder.
LEMMA EntersControl ==
    ASSUME ControlOK, NEW t \in Threads, NEW c,
           \/ InsertRecord(t, c) \/ SearchOnKey2(t, c) \/ SearchFirst(t, c)
    PROVE  ControlOK'
<1> USE ConstantsOK
<1>1. /\ c \in AnyCall /\ srtdb_mutex = NoThread
      /\ updating[t] => c.op \in {"DeleteRecord", "InsertRecord"}
    BY StartsCall DEF InsertRecord, SearchOnKey2, SearchFirst
<1>2. PICK at \in Holding : /\ pc' = [pc EXCEPT ![t] = at]
                            /\ at \in Placing <=> c.op \in {"InsertRecord", "SearchOnKey2"}
    BY DEF InsertRecord, SearchOnKey2, SearchFirst, Search, Holding, Placing
<1>3. call' = [call EXCEPT ![t] = c] /\ srtdb_mutex' = t
    BY DEF InsertRecord, SearchOnKey2, SearchFirst, Search
<1>4. UNCHANGED <<tableVars, updating, ret, disturbed>>
    BY DEF InsertRecord, SearchOnKey2, SearchFirst
<1>5. c.op = "InsertRecord" => TotNoOfRecords' < MaxRecords
    BY <1>4 DEF InsertRecord, SearchOnKey2, SearchFirst, tableVars
<1>6. at \in Pcs /\ at # "idle"
    BY <1>2 DEF Holding, Pcs
<1>7. /\ updating' \in [Threads -> BOOLEAN] /\ ret' \in [Threads -> BOOLEAN]
      /\ disturbed' \in [Threads -> BOOLEAN]
    BY <1>4 DEF ControlOK, ControlTypeOK
<1>8. /\ \A u \in Threads : u # t => updating'[u] = updating[u]
      /\ updating'[t] => UpdateStage(at, c.op)
    BY <1>1, <1>4, <1>6 DEF UpdateStage
<1> QED BY <1>1, <1>2, <1>3, <1>5, <1>6, <1>7, <1>8, ControlStep

\* Going on inside UpdateRecord: only the method changes.
LEMMA NextMethod ==
    ASSUME NEW c \in AnyCall, NEW op \in Methods
    PROVE  [c EXCEPT !.op = op] \in AnyCall
BY DEF AnyCall

\* A section ends: its call returns to the caller or to UpdateRecord.
LEMMA ReturnsControl ==
    ASSUME ControlOK, NEW t \in Threads, NEW c, NEW ok \in BOOLEAN,
           call[t] \in AnyCall \/ ~updating[t],
           srtdb_mutex \in {NoThread, t}, srtdb_mutex' = NoThread,
           InsertReturns(t, c, ok) \/ DeleteReturns(t, c, ok),
           UNCHANGED updating, disturbed' \in [Threads -> BOOLEAN]
    PROVE  ControlOK'
<1> USE ConstantsOK
<1>1. /\ updating' \in [Threads -> BOOLEAN] /\ ret \in [Threads -> BOOLEAN]
      /\ pc \in [Threads -> Pcs] /\ call \in [Threads -> AnyCall \cup {NoCall}]
    BY DEF ControlOK, ControlTypeOK
<1>2. /\ ret' \in [Threads -> BOOLEAN]
      /\ \A u \in Threads : u # t => updating'[u] = updating[u]
    BY <1>1 DEF InsertReturns, DeleteReturns
<1>3. CASE ~updating[t]
    <2>1. pc' = [pc EXCEPT ![t] = "idle"] /\ call' = [call EXCEPT ![t] = NoCall]
        BY <1>3 DEF InsertReturns, DeleteReturns, Reply
    <2>2. "idle" \in Pcs /\ "idle" \notin Holding /\ "idle" \notin Placing
        BY DEF Pcs, Holding, Placing
    <2> QED BY <1>1, <1>2, <1>3, <2>1, <2>2, ControlStep
<1>4. CASE updating[t]
    <2>1. PICK op \in Methods, at \in {"enter", "relock"} :
             /\ pc' = [pc EXCEPT ![t] = at] /\ call' = [call EXCEPT ![t].op = op]
             /\ at = "enter" => op = "InsertRecord"
        BY <1>4 DEF InsertReturns, DeleteReturns, GoOn, Methods
    <2>2. [call[t] EXCEPT !.op = op] \in AnyCall
        BY <1>4, <2>1, NextMethod
    <2>3. call' = [call EXCEPT ![t] = [call[t] EXCEPT !.op = op]]
        BY <1>1, <2>1
    <2>4. at \in Pcs /\ at \notin Holding /\ at \notin Placing
        BY <2>1 DEF Pcs, Holding, Placing
    <2>5. UpdateStage(at, [call[t] EXCEPT !.op = op].op)
        BY <1>4, <2>1 DEF UpdateStage, AnyCall
    <2> QED BY <1>1, <1>2, <2>1, <2>2, <2>3, <2>4, <2>5, ControlStep
<1> QED BY <1>3, <1>4

\* An iteration stays inside the section that the mutex guards.
LEMMA IteratesControl ==
    ASSUME ControlOK, NEW t \in Threads, Iterates(t)
    PROVE  ControlOK'
<1> USE ConstantsOK
<1>1. /\ pc[t] \in {"mBinInsert", "mBinSearch"}
      /\ UNCHANGED <<tableVars, srtdb_mutex, call, updating, ret, disturbed>>
    BY DEF Iterates, BinInsertIteration, BinSearchIteration
<1>2. /\ pc \in [Threads -> Pcs] /\ call \in [Threads -> AnyCall \cup {NoCall}]
      /\ call[t] \in AnyCall /\ srtdb_mutex = t
      /\ updating' \in [Threads -> BOOLEAN] /\ ret' \in [Threads -> BOOLEAN]
      /\ disturbed' \in [Threads -> BOOLEAN]
    BY <1>1 DEF ControlOK, ControlTypeOK, Holding
<1>3. PICK at \in Holding : /\ pc' = [pc EXCEPT ![t] = at]
                            /\ at \in Placing <=> pc[t] \in Placing
    BY DEF Iterates, BinInsertIteration, BinSearchIteration, Loops, Holding, Placing
<1>4. call' = [call EXCEPT ![t] = call[t]]
    BY <1>1, <1>2
<1>5. at \in Placing => call[t].op \in {"InsertRecord", "SearchOnKey2"}
    BY <1>3 DEF ControlOK
<1>6. at \in Placing /\ call[t].op = "InsertRecord" => TotNoOfRecords' < MaxRecords
    BY <1>1, <1>3 DEF ControlOK, tableVars
<1>7. at \in Pcs /\ at # "idle"
    BY DEF Holding, Pcs
<1>8. /\ \A u \in Threads : u # t => updating'[u] = updating[u]
      /\ updating'[t] => UpdateStage(at, call[t].op)
    BY <1>1, <1>7 DEF ControlOK, UpdateStage
<1> QED BY <1>1, <1>2, <1>3, <1>4, <1>5, <1>6, <1>7, <1>8, ControlStep

\* A section or an update ends and replies to the caller.
LEMMA RepliesControl ==
    ASSUME ControlOK, NEW t \in Threads,
           srtdb_mutex \in {NoThread, t}, srtdb_mutex' = NoThread,
           pc' = [pc EXCEPT ![t] = "idle"], call' = [call EXCEPT ![t] = NoCall],
           updating' \in [Threads -> BOOLEAN], ret' \in [Threads -> BOOLEAN],
           \A u \in Threads : u # t => updating'[u] = updating[u], ~updating'[t],
           disturbed' \in [Threads -> BOOLEAN]
    PROVE  ControlOK'
<1>1. "idle" \in Pcs /\ "idle" \notin Holding /\ "idle" \notin Placing
    BY DEF Pcs, Holding, Placing
<1> QED BY <1>1, ControlStep

\* Leaving a section gives the mutex up and goes where the method goes.
LEMMA LeavesControl ==
    ASSUME ControlOK, NEW t \in Threads, Leaves(t)
    PROVE  ControlOK'
<1> USE ConstantsOK
<1> DEFINE Replies == \/ UpdateNotFound(t) \/ QueryReturns(t) \/ SearchReturns(t)
                      \/ PrefixReturns(t) \/ Key2Returns(t)
           Ends == InsertCommits(t) \/ InsertRefused(t) \/ DeleteCommits(t) \/ DeleteNotFound(t)
<1>1. ControlTypeOK
    BY DEF ControlOK
<1>2. pc[t] \in {"placed", "searched"}
    BY DEF Leaves, InsertCommits, InsertRefused, DeleteCommits, DeleteNotFound, UpdateFound,
           UpdateNotFound, QueryReturns, SearchReturns, PrefixReturns, Key2SearchesAgain,
           Key2Returns, After
<1>3. srtdb_mutex = t /\ call[t] \in AnyCall
    BY <1>2 DEF ControlOK, Holding
<1>4. ASSUME Ends PROVE ControlOK'
    <2>1. srtdb_mutex' = NoThread /\ UNCHANGED updating
        BY <1>4 DEF InsertCommits, InsertRefused, DeleteCommits, DeleteNotFound, Unlock
    <2>2. disturbed' \in [Threads -> BOOLEAN]
        BY <1>1, <1>4, DisturbType
        DEF InsertCommits, InsertRefused, DeleteCommits, DeleteNotFound, ControlTypeOK
    <2>3. PICK ok \in BOOLEAN : InsertReturns(t, call[t], ok) \/ DeleteReturns(t, call[t], ok)
        BY <1>4 DEF InsertCommits, InsertRefused, DeleteCommits, DeleteNotFound
    <2> QED BY <1>3, <2>1, <2>2, <2>3, ReturnsControl
<1>5. ASSUME Replies PROVE ControlOK'
    <2>1. /\ srtdb_mutex' = NoThread /\ UNCHANGED <<updating, ret, disturbed>>
          /\ pc' = [pc EXCEPT ![t] = "idle"] /\ call' = [call EXCEPT ![t] = NoCall]
        BY <1>5 DEF UpdateNotFound, QueryReturns, SearchReturns, PrefixReturns, Key2Returns,
                    Unlock, Fails, Reply
    <2>2. call[t].op \notin {"DeleteRecord", "InsertRecord"}
        BY <1>5 DEF UpdateNotFound, QueryReturns, SearchReturns, PrefixReturns, Key2Returns, After
    <2>3. ~updating[t]
        BY <1>2, <2>2 DEF ControlOK, UpdateStage
    <2>4. /\ updating' \in [Threads -> BOOLEAN] /\ ret' \in [Threads -> BOOLEAN]
          /\ disturbed' \in [Threads -> BOOLEAN]
        BY <1>1, <2>1 DEF ControlTypeOK
    <2> QED BY <1>3, <2>1, <2>3, <2>4, RepliesControl
<1>6. ASSUME UpdateFound(t) PROVE ControlOK'
    <2>1. /\ updating' = [updating EXCEPT ![t] = TRUE] /\ UNCHANGED <<ret, disturbed>>
          /\ pc' = [pc EXCEPT ![t] = "enter"] /\ call' = [call EXCEPT ![t].op = "DeleteRecord"]
          /\ srtdb_mutex' = NoThread
        BY <1>6 DEF UpdateFound, GoOn, Unlock
    <2>2. call' = [call EXCEPT ![t] = [call[t] EXCEPT !.op = "DeleteRecord"]]
        BY <1>1, <2>1 DEF ControlTypeOK
    <2>3. [call[t] EXCEPT !.op = "DeleteRecord"] \in AnyCall
        BY <1>3, NextMethod DEF Methods
    <2>4. "enter" \in Pcs /\ "enter" \notin Holding /\ "enter" \notin Placing
        BY DEF Pcs, Holding, Placing
    <2>5. /\ updating' \in [Threads -> BOOLEAN] /\ ret' \in [Threads -> BOOLEAN]
          /\ disturbed' \in [Threads -> BOOLEAN]
        BY <1>1, <2>1 DEF ControlTypeOK
    <2>6. /\ \A u \in Threads : u # t => updating'[u] = updating[u]
          /\ UpdateStage("enter", [call[t] EXCEPT !.op = "DeleteRecord"].op)
        BY <1>1, <1>3, <2>1 DEF ControlTypeOK, UpdateStage, AnyCall
    <2> QED BY <1>3, <2>1, <2>2, <2>3, <2>4, <2>5, <2>6, ControlStep
<1>7. ASSUME Key2SearchesAgain(t) PROVE ControlOK'
    <2>1. PICK at \in {"mBinSearch", "searched"} : pc' = [pc EXCEPT ![t] = at]
        BY <1>7 DEF Key2SearchesAgain, Search
    <2>2. /\ call' = [call EXCEPT ![t] = call[t]] /\ srtdb_mutex' = t
          /\ UNCHANGED <<updating, ret, disturbed>>
        BY <1>7 DEF Key2SearchesAgain, Search
    <2>3. at \in Pcs /\ at \in Holding /\ at \notin Placing
        BY <2>1 DEF Pcs, Holding, Placing
    <2>4. /\ \A u \in Threads : u # t => updating'[u] = updating[u]
          /\ ~updating'[t]
        BY <1>2, <1>7, <2>2 DEF Key2SearchesAgain, After, ControlOK, UpdateStage
    <2>5. /\ updating' \in [Threads -> BOOLEAN] /\ ret' \in [Threads -> BOOLEAN]
          /\ disturbed' \in [Threads -> BOOLEAN]
        BY <1>1, <2>2 DEF ControlTypeOK
    <2> QED BY <1>3, <2>1, <2>2, <2>3, <2>4, <2>5, ControlStep
<1> QED BY <1>4, <1>5, <1>6, <1>7 DEF Leaves

\* The steps that are a section of their own leave nobody inside.
LEMMA WholeControl ==
    ASSUME ControlOK, NEW t \in Threads, Whole(t)
    PROVE  ControlOK'
<1> USE ConstantsOK
<1>1. ControlTypeOK
    BY DEF ControlOK
<1>2. ASSUME UpdateReturns(t) PROVE ControlOK'
    <2>1. /\ srtdb_mutex = NoThread /\ srtdb_mutex' = NoThread
          /\ pc' = [pc EXCEPT ![t] = "idle"] /\ call' = [call EXCEPT ![t] = NoCall]
        BY <1>2 DEF UpdateReturns, Reply
    <2>2. /\ updating' \in [Threads -> BOOLEAN] /\ ret' \in [Threads -> BOOLEAN]
          /\ disturbed' \in [Threads -> BOOLEAN]
          /\ \A u \in Threads : u # t => updating'[u] = updating[u]
          /\ ~updating'[t]
        BY <1>1, <1>2 DEF UpdateReturns, ControlTypeOK
    <2> QED BY <2>1, <2>2, RepliesControl
<1>3. ASSUME ClearTable(t) PROVE ControlOK'
    <2>1. /\ srtdb_mutex = NoThread /\ UNCHANGED <<srtdb_mutex, pc, call, updating, ret>>
          /\ disturbed' \in [Threads -> BOOLEAN]
        BY <1>1, <1>3, DisturbType DEF ClearTable
    <2>2. \A u \in Threads : pc[u] \notin Placing
        BY <2>1 DEF ControlOK, Holding, Placing
    <2> QED BY <1>1, <2>1, <2>2 DEF ControlOK, ControlTypeOK
<1>4. ASSUME NEW i, QueryOnIndex(t, i) PROVE ControlOK'
    BY <1>4 DEF QueryOnIndex, ControlOK, ControlTypeOK, tableVars
<1> QED BY <1>2, <1>3, <1>4 DEF Whole

\* No step breaks the control part of the invariant.
LEMMA NextControl == ControlOK /\ [Next]_vars => ControlOK'
<1> SUFFICES ASSUME ControlOK, [Next]_vars PROVE ControlOK'
    OBVIOUS
<1> USE ConstantsOK
<1>1. ASSUME NEW t \in Threads, NEW c, InsertIntoFull(t, c) PROVE ControlOK'
    <2>1. /\ c \in AnyCall /\ srtdb_mutex = NoThread
          /\ updating[t] => c = call[t]
        BY <1>1, StartsCall DEF InsertIntoFull
    <2>2. /\ InsertReturns(t, c, FALSE) /\ UNCHANGED <<srtdb_mutex, updating>>
          /\ disturbed' \in [Threads -> BOOLEAN]
        BY <1>1 DEF InsertIntoFull, ControlOK, ControlTypeOK
    <2>3. call[t] \in AnyCall \/ ~updating[t]
        BY <2>1
    <2> QED BY <2>1, <2>2, <2>3, ReturnsControl
<1>2. ASSUME NEW t \in Threads, Enters(t) PROVE ControlOK'
    BY <1>1, <1>2, EntersControl DEF Enters
<1>3. ASSUME UNCHANGED vars PROVE ControlOK'
    BY <1>3 DEF vars, ControlOK, ControlTypeOK
<1> QED BY <1>2, <1>3, IteratesControl, LeavesControl, WholeControl DEF Next

-----------------------------------------------------------------------------
(***************************************************************************)
(* The table.                                                              *)
(***************************************************************************)
LEMMA TableStutters == TableOK /\ UNCHANGED tableVars => TableOK'
<1> SUFFICES ASSUME TableOK, UNCHANGED tableVars PROVE TableOK'
    OBVIOUS
<1>1. UNCHANGED <<FreePtr, FreeList, TotNoOfRecords, Data, Buffers>>
    BY DEF tableVars
<1>2. PoolTypeOK' /\ PoolIntact' /\ \A e : HandedOut(e)' <=> HandedOut(e)
    BY <1>1, StutterIsIntact DEF TableOK, TableTypeOK, poolVars
<1>3. TableTypeOK'
    BY <1>1, <1>2 DEF TableOK, TableTypeOK
<1>4. Slots' = Slots /\ \A i : RecordAt(i)' = RecordAt(i)
    BY <1>1 DEF Slots, RecordAt
<1>5. NoLeakNoAlias' /\ NeverPastEnd'
    BY <1>1, <1>2, <1>4 DEF TableOK, NoLeakNoAlias, NeverPastEnd
<1>6. StrictlySorted' /\ \A i \in Slots' : RecordAt(i)' \in Record
    BY <1>4 DEF TableOK, StrictlySorted
<1> QED BY <1>2, <1>3, <1>5, <1>6 DEF TableOK

(***************************************************************************)
(* As long as the table has room, the pool has an element to give, and it  *)
(* is inside Buffers.  If it had none, every element would be the target   *)
(* of a position in use, and there are fewer of those than elements.       *)
(***************************************************************************)
LEMMA RoomInPool ==
    ASSUME TableOK, TotNoOfRecords < MaxRecords
    PROVE  FreePtr \in Elements /\ ~HandedOut(FreePtr)
<1> USE ConstantsOK
<1>1. PoolTypeOK /\ PoolIntact /\ TotNoOfRecords \in Nat
    BY DEF TableOK, TableTypeOK
<1>2. ASSUME FreePtr \notin Elements PROVE FALSE
    <2> DEFINE f == [e \in Elements |-> CHOOSE i \in Slots : Data[i] = e]
    <2>1. \A e \in Elements : \E i \in Slots : Data[i] = e
        BY <1>1, <1>2, HeadOfIntact DEF TableOK, NoLeakNoAlias
    <2>2. f \in [Elements -> Slots] /\ \A e \in Elements : Data[f[e]] = e
        BY <2>1
    <2>3. IsFiniteSet(Elements) /\ Cardinality(Elements) = MaxElements
        <3>1. 0 \in Int /\ MaxElements - 1 \in Int /\ ~(0 > MaxElements - 1)
            OBVIOUS
        <3> QED BY <3>1, FS_Interval DEF Elements
    <2>4. IsFiniteSet(Slots) /\ Cardinality(Slots) = TotNoOfRecords
        <3>1. 0 \in Int /\ TotNoOfRecords - 1 \in Int
            BY <1>1
        <3> QED BY <1>1, <3>1, FS_Interval DEF Slots
    <2> HIDE DEF f
    <2>5. \E x, y \in Elements : x # y /\ f[x] = f[y]
        BY <2>2, <2>3, <2>4, FS_PigeonHole
    <2> QED BY <2>2, <2>5
<1>3. FreePtr \in Nodes
    BY <1>2 DEF Elements, Nodes
<1> QED BY <1>1, <1>2, <1>3, HeadOfIntact

\* A record inserted at a sound position keeps the table in order and whole.
LEMMA InsertKeepsTable ==
    ASSUME TableOK, NEW t \in Threads, call[t] \in AnyCall, Position(t),
           TotNoOfRecords < MaxRecords, InsertCommits(t)
    PROVE  TableOK'
<1> USE ConstantsOK
<1> DEFINE rec == [key |-> call[t].key, data |-> call[t].data]
           old(i) == IF i < index THEN i ELSE i - 1
<1>1. PICK ptr \in Nodes :
        /\ Malloc(ptr)
        /\ Data' = [i \in Positions |->
                      IF i < index \/ i > TotNoOfRecords THEN Data[i]
                      ELSE IF i = index THEN ptr ELSE Data[i - 1]]
        /\ Buffers' = [Buffers EXCEPT ![ptr] = rec]
    BY DEF InsertCommits
<1>2. /\ TotNoOfRecords \in Nat /\ index \in 0 .. TotNoOfRecords
      /\ TotNoOfRecords' = TotNoOfRecords + 1
      /\ TotNoOfRecords' \in 0 .. MaxRecords
      /\ Buffers \in [Nodes -> Record \cup {Unused}]
      /\ Data \in [Positions -> Nodes \cup {NULL, NotWritten}]
      /\ rec \in Record
    BY DEF TableOK, TableTypeOK, Position, InsertCommits, Inserts, AnyCall, Record
<1>3. ptr \in Elements /\ ~HandedOut(ptr) /\ ptr # PastEnd
    BY <1>1, RoomInPool DEF Malloc, Elements, PastEnd
<1>4. /\ PoolTypeOK' /\ PoolIntact'
      /\ \A e \in Nodes : HandedOut(e)' <=> HandedOut(e) \/ e = ptr
    BY <1>1, MallocIsIntact DEF TableOK, TableTypeOK
<1>5. \A i \in Slots' : /\ i \in Positions
                        /\ Data'[i] = IF i = index THEN ptr ELSE Data[old(i)]
                        /\ i # index => old(i) \in Slots
    BY <1>1, <1>2 DEF Slots, Positions
<1>6. \A i \in Slots : /\ Data[i] \in Elements /\ HandedOut(Data[i])
                       /\ Data[i] \in Nodes /\ Data[i] # ptr
    BY <1>3 DEF TableOK, NoLeakNoAlias, Elements, Nodes
<1>7. \A i \in Slots' : RecordAt(i)' = IF i = index THEN rec ELSE RecordAt(old(i))
    BY <1>1, <1>2, <1>5, <1>6 DEF RecordAt
<1>8. TableTypeOK'
    <2>1. Data' \in [Positions -> Nodes \cup {NULL, NotWritten}]
        BY <1>1, <1>2 DEF Positions
    <2>2. Buffers' \in [Nodes -> Record \cup {Unused}]
        BY <1>1, <1>2
    <2> QED BY <1>2, <1>4, <2>1, <2>2 DEF TableTypeOK
<1>9. NoLeakNoAlias'
    <2>1. \A i \in Slots' : Data'[i] \in Elements /\ HandedOut(Data[i])'
        BY <1>3, <1>4, <1>5, <1>6 DEF HandedOut
    <2>2. ASSUME NEW i \in Slots', NEW j \in Slots', Data'[i] = Data'[j] PROVE i = j
        <3>1. i = index <=> j = index
            BY <1>5, <1>6, <2>2
        <3>2. i # index /\ j # index => old(i) = old(j)
            BY <1>5, <2>2 DEF TableOK, NoLeakNoAlias
        <3> QED BY <1>2, <3>1, <3>2 DEF Slots
    <2>3. ASSUME NEW e \in Elements, HandedOut(e)' PROVE \E i \in Slots' : Data'[i] = e
        <3>1. CASE e = ptr
            <4>1. index \in Slots'
                BY <1>2 DEF Slots
            <4> QED BY <1>5, <3>1, <4>1
        <3>2. CASE e # ptr
            <4>1. HandedOut(e)
                BY <1>4, <2>3, <3>2 DEF Elements, Nodes
            <4>2. PICK k \in Slots : Data[k] = e
                BY <4>1 DEF TableOK, NoLeakNoAlias
            <4>3. \E i \in Slots' : i # index /\ old(i) = k
                <5>1. CASE k < index
                    BY <1>2, <5>1 DEF Slots
                <5>2. CASE k >= index
                    <6>1. k + 1 \in Slots' /\ k + 1 # index /\ old(k + 1) = k
                        BY <1>2, <5>2 DEF Slots
                    <6> QED BY <6>1
                <5> QED BY <1>2, <5>1, <5>2 DEF Slots
            <4> QED BY <1>5, <4>2, <4>3
        <3> QED BY <3>1, <3>2
    <2> QED BY <2>1, <2>2, <2>3 DEF NoLeakNoAlias
<1>10. NeverPastEnd'
    <2>1. PastEnd \in Nodes
        BY DEF PastEnd, Nodes
    <2> QED BY <1>1, <1>2, <1>3, <1>4, <2>1 DEF TableOK, NeverPastEnd, PastEnd
<1>11. \A i \in Slots' : RecordAt(i)' \in Record
    BY <1>2, <1>5, <1>7 DEF TableOK
<1>12. StrictlySorted'
    <2> SUFFICES ASSUME NEW i \in Slots', NEW j \in Slots', i < j
                 PROVE  CompareKeys(SortingCriteria, RecordAt(i)'.key, RecordAt(j)'.key) = BiggerKey
        BY DEF StrictlySorted
    <2>1. /\ rec.key \in AllKeys /\ rec.key = call[t].key
          /\ \A k \in Slots : RecordAt(k).key \in AllKeys /\ k < TotNoOfRecords
        BY <1>2 DEF TableOK, Record, Slots
    <2>2. CASE i # index /\ j # index
        <3>1. old(i) < old(j) /\ old(i) \in Slots /\ old(j) \in Slots
            BY <1>2, <1>5, <2>2 DEF Slots
        <3> QED BY <1>7, <2>2, <3>1 DEF TableOK, StrictlySorted
    <2>3. CASE i = index
        <3>1. j # index /\ old(j) \in Slots /\ old(j) \in index .. TotNoOfRecords - 1
            BY <1>2, <1>5, <2>3 DEF Slots
        <3>2. CompareKeys(SortingCriteria, rec.key, RecordAt(old(j)).key) = BiggerKey
            BY <2>1, <3>1 DEF Position, Compare
        <3> QED BY <1>7, <2>3, <3>1, <3>2
    <2>4. CASE j = index
        <3>1. i # index /\ old(i) \in Slots /\ old(i) \in 0 .. index - 1
            BY <1>2, <1>5, <2>4 DEF Slots
        <3>2. CompareKeys(SortingCriteria, rec.key, RecordAt(old(i)).key) = SmallerKey
            BY <2>1, <3>1 DEF Position, Compare
        <3>3. CompareKeys(SortingCriteria, RecordAt(old(i)).key, rec.key) = BiggerKey
            BY <2>1, <3>1, <3>2, CompareFlips
        <3> QED BY <1>7, <2>4, <3>1, <3>3
    <2> QED BY <2>2, <2>3, <2>4
<1> QED BY <1>4, <1>8, <1>9, <1>10, <1>11, <1>12 DEF TableOK

\* Removing a record in use keeps the table in order and gives its element back.
LEMMA DeleteKeepsTable ==
    ASSUME TableOK, NEW t \in Threads, index \in Slots, DeleteCommits(t)
    PROVE  TableOK'
<1> USE ConstantsOK
<1> DEFINE gone == Data[index]
           old(i) == IF i < index THEN i ELSE i + 1
<1>1. /\ Free(gone)
      /\ Buffers' = [Buffers EXCEPT ![gone] = Unused]
      /\ TotNoOfRecords' = TotNoOfRecords - 1
      /\ Data' = [i \in Positions |->
                    IF i < index \/ i >= TotNoOfRecords THEN Data[i]
                    ELSE IF i < TotNoOfRecords - 1 THEN Data[i + 1] ELSE NULL]
    BY DEF DeleteCommits
<1>2. /\ TotNoOfRecords \in Nat /\ TotNoOfRecords <= MaxRecords /\ TotNoOfRecords > 0
      /\ index \in Nat /\ index < TotNoOfRecords
      /\ TotNoOfRecords' \in 0 .. MaxRecords
      /\ Buffers \in [Nodes -> Record \cup {Unused}]
      /\ Data \in [Positions -> Nodes \cup {NULL, NotWritten}]
    BY <1>1 DEF TableOK, TableTypeOK, Slots
<1>3. \A i \in Slots : Data[i] \in Elements /\ HandedOut(Data[i]) /\ Data[i] \in Nodes
    BY DEF TableOK, NoLeakNoAlias, Elements, Nodes
<1>4. gone \in Elements /\ gone \in Nodes /\ gone # PastEnd
    BY <1>3 DEF Elements, PastEnd
<1>5. /\ PoolTypeOK' /\ PoolIntact'
      /\ \A e \in Nodes : HandedOut(e)' <=> HandedOut(e) /\ (e = gone => e = PastEnd)
    BY <1>1, FreeIsIntact DEF TableOK, TableTypeOK
<1>6. \A i \in Slots' : /\ i \in Positions /\ Data'[i] = Data[old(i)]
                        /\ old(i) \in Slots /\ old(i) # index
    BY <1>1, <1>2 DEF Slots, Positions
<1>7. \A i \in Slots' : Data'[i] # gone
    BY <1>6 DEF TableOK, NoLeakNoAlias
<1>8. \A i \in Slots' : RecordAt(i)' = RecordAt(old(i))
    BY <1>1, <1>2, <1>3, <1>6, <1>7 DEF RecordAt
<1>9. TableTypeOK'
    <2>1. Data' \in [Positions -> Nodes \cup {NULL, NotWritten}]
        BY <1>1, <1>2 DEF Positions
    <2>2. Buffers' \in [Nodes -> Record \cup {Unused}]
        BY <1>1, <1>2
    <2> QED BY <1>2, <1>5, <2>1, <2>2 DEF TableTypeOK
<1>10. NoLeakNoAlias'
    <2>1. \A i \in Slots' : Data'[i] \in Elements /\ HandedOut(Data[i])'
        BY <1>3, <1>5, <1>6, <1>7 DEF HandedOut
    <2>2. ASSUME NEW i \in Slots', NEW j \in Slots', Data'[i] = Data'[j] PROVE i = j
        <3>1. old(i) = old(j)
            BY <1>6, <2>2 DEF TableOK, NoLeakNoAlias
        <3> QED BY <1>2, <3>1 DEF Slots
    <2>3. ASSUME NEW e \in Elements, HandedOut(e)' PROVE \E i \in Slots' : Data'[i] = e
        <3>1. HandedOut(e) /\ e # gone
            BY <1>4, <1>5, <2>3 DEF Elements, Nodes, PastEnd
        <3>2. PICK k \in Slots : Data[k] = e
            BY <3>1 DEF TableOK, NoLeakNoAlias
        <3>3. \E i \in Slots' : old(i) = k
            <4>1. CASE k < index
                BY <1>1, <1>2, <4>1 DEF Slots
            <4>2. CASE k > index
                <5>1. k - 1 \in Slots' /\ old(k - 1) = k
                    BY <1>1, <1>2, <4>2 DEF Slots
                <5> QED BY <5>1
            <4>3. k # index
                BY <3>1, <3>2
            <4>4. k < index \/ k > index
                BY <1>2, <4>3 DEF Slots
            <4> QED BY <4>1, <4>2, <4>4
        <3> QED BY <1>6, <3>2, <3>3
    <2> QED BY <2>1, <2>2, <2>3 DEF NoLeakNoAlias
<1>11. NeverPastEnd'
    <2>1. PastEnd \in Nodes
        BY DEF PastEnd, Nodes
    <2> QED BY <1>1, <1>2, <1>4, <1>5, <2>1 DEF TableOK, NeverPastEnd, PastEnd
<1>12. \A i \in Slots' : RecordAt(i)' \in Record
    BY <1>6, <1>8 DEF TableOK
<1>13. StrictlySorted'
    <2> SUFFICES ASSUME NEW i \in Slots', NEW j \in Slots', i < j
                 PROVE  CompareKeys(SortingCriteria, RecordAt(i)'.key, RecordAt(j)'.key) = BiggerKey
        BY DEF StrictlySorted
    <2>1. old(i) < old(j)
        BY <1>2 DEF Slots
    <2> QED BY <1>6, <1>8, <2>1 DEF TableOK, StrictlySorted
<1> QED BY <1>5, <1>9, <1>10, <1>11, <1>12, <1>13 DEF TableOK

\* A cleared table is in order and its pool is fresh.
LEMMA ClearKeepsTable ==
    ASSUME TableOK, NEW t \in Threads, ClearTable(t)
    PROVE  TableOK'
<1> USE ConstantsOK
<1>1. /\ TotNoOfRecords' = 0 /\ Reset
      /\ Data' = [i \in Positions |-> NULL] /\ Buffers' = [n \in Nodes |-> Unused]
    BY DEF ClearTable
<1>2. PoolTypeOK' /\ PoolIntact'
    BY <1>1, ResetIsIntact
<1>3. TableTypeOK'
    BY <1>1, <1>2 DEF TableTypeOK
<1>4. Slots' = {} /\ PastEnd \in Nodes /\ Elements \subseteq Nodes
    BY <1>1 DEF Slots, PastEnd, Nodes, Elements
<1>5. \A e \in Nodes : ~HandedOut(e)'
    BY <1>1 DEF Reset, FreshList, HandedOut, Nodes, POOL_TERMINAL
<1>6. NoLeakNoAlias' /\ NeverPastEnd' /\ StrictlySorted'
    BY <1>1, <1>4, <1>5 DEF NoLeakNoAlias, NeverPastEnd, StrictlySorted, PastEnd
<1> QED BY <1>2, <1>3, <1>4, <1>6 DEF TableOK

\* No step breaks the table part of the invariant.
LEMMA NextTable == IInv /\ [Next]_vars => TableOK'
<1> SUFFICES ASSUME IInv, [Next]_vars PROVE TableOK'
    OBVIOUS
<1>1. ControlOK /\ TableOK /\ SearchOK
    BY DEF IInv
<1>2. ASSUME NEW t \in Threads, InsertCommits(t) PROVE TableOK'
    <2>1. pc[t] = "placed" /\ call[t].op = "InsertRecord" /\ index # INVALID_INDEX
        BY <1>2 DEF InsertCommits, After, Inserts
    <2>2. call[t] \in AnyCall /\ TotNoOfRecords < MaxRecords
        BY <1>1, <2>1 DEF ControlOK, Placing
    <2>3. Position(t)
        BY <1>1, <2>1 DEF SearchOK, ResultSound
    <2> QED BY <1>1, <1>2, <2>2, <2>3, InsertKeepsTable
<1>3. ASSUME NEW t \in Threads, DeleteCommits(t) PROVE TableOK'
    <2>1. Found(t)
        BY <1>1, <1>3 DEF DeleteCommits, After, SearchOK, ResultSound
    <2> QED BY <1>1, <1>3, <2>1, DeleteKeepsTable DEF Found
<1>4. ASSUME UNCHANGED tableVars PROVE TableOK'
    BY <1>1, <1>4, TableStutters
<1>5. ASSUME NEW t \in Threads, Enters(t) \/ Iterates(t) PROVE UNCHANGED tableVars
    BY <1>5 DEF Enters, Iterates, InsertRecord, InsertIntoFull, SearchOnKey2, SearchFirst,
                BinInsertIteration, BinSearchIteration
<1>6. ASSUME NEW t \in Threads, Leaves(t) PROVE TableOK'
    <2>1. \/ InsertCommits(t) \/ DeleteCommits(t) \/ UNCHANGED tableVars
        BY <1>6 DEF Leaves, InsertRefused, DeleteNotFound, UpdateFound, UpdateNotFound,
                    QueryReturns, SearchReturns, PrefixReturns, Key2SearchesAgain, Key2Returns
    <2> QED BY <1>2, <1>3, <1>4, <2>1
<1>7. ASSUME NEW t \in Threads, Whole(t) PROVE TableOK'
    <2>1. \/ ClearTable(t) \/ UNCHANGED tableVars
        BY <1>7 DEF Whole, UpdateReturns, QueryOnIndex
    <2> QED BY <1>1, <1>4, <2>1, ClearKeepsTable
<1>8. UNCHANGED vars => UNCHANGED tableVars
    BY DEF vars, tableVars
<1> QED BY <1>4, <1>5, <1>6, <1>7, <1>8 DEF Next

-----------------------------------------------------------------------------
(***************************************************************************)
(* The bisections.                                                         *)
(***************************************************************************)

\* Along the table, a key's comparisons only go from smaller over equal to
\* bigger, whichever leading levels the search looks at.
LEMMA ComparisonsAscend ==
    ASSUME TableOK, NEW c \in AnyCall, NEW i \in Slots
    PROVE  /\ Compare(CriteriaOf(c), c.key, i) \in {SmallerKey, EqualKey, BiggerKey}
           /\ Compare(CriteriaOf(c), c.key, i) = SmallerKey
                => \A j \in 0 .. i : Compare(CriteriaOf(c), c.key, j) = SmallerKey
           /\ Compare(CriteriaOf(c), c.key, i) = BiggerKey
                => \A j \in i .. TotNoOfRecords - 1 : Compare(CriteriaOf(c), c.key, j) = BiggerKey
<1> USE ConstantsOK
<1>1. PICK n \in 0 .. 4 : CriteriaOf(c) = SortingCriteria \cap 1 .. n
    <2>1. SortingCriteria = SortingCriteria \cap 1 .. 4
        BY DEF Levels
    <2> QED BY <2>1 DEF CriteriaOf, AnyCall
<1>2. c.key \in AllKeys /\ TotNoOfRecords \in Nat
    BY DEF AnyCall, TableOK, TableTypeOK
<1>3. \A j \in Slots : /\ RecordAt(j).key \in AllKeys
                       /\ Compare(CriteriaOf(c), c.key, j) = CompareKeys(CriteriaOf(c), c.key, RecordAt(j).key)
    BY <1>2 DEF TableOK, Record, Compare, Slots
<1>4. ASSUME NEW j \in Slots, NEW k \in Slots, j < k
      PROVE  /\ Compare(CriteriaOf(c), c.key, j) = BiggerKey
                   => Compare(CriteriaOf(c), c.key, k) = BiggerKey
             /\ Compare(CriteriaOf(c), c.key, k) = SmallerKey
                   => Compare(CriteriaOf(c), c.key, j) = SmallerKey
    <2>1. CompareKeys(SortingCriteria, RecordAt(j).key, RecordAt(k).key) = BiggerKey
        BY <1>4 DEF TableOK, StrictlySorted
    <2> DEFINE D == CriteriaOf(c)
    <2>2. /\ RecordAt(j).key \in AllKeys /\ RecordAt(k).key \in AllKeys
          /\ SortingCriteria \in SUBSET Levels /\ n \in 0 .. 4 /\ D = SortingCriteria \cap 1 .. n
        BY <1>1, <1>3
    <2> HIDE DEF D
    <2>3. /\ CompareKeys(D, c.key, RecordAt(j).key) = BiggerKey
               => CompareKeys(D, c.key, RecordAt(k).key) = BiggerKey
          /\ CompareKeys(D, c.key, RecordAt(k).key) = SmallerKey
               => CompareKeys(D, c.key, RecordAt(j).key) = SmallerKey
        BY <1>2, <2>1, <2>2, CompareTransitive
    <2> QED BY <1>3, <2>3 DEF D
<1>5. Compare(CriteriaOf(c), c.key, i) \in {SmallerKey, EqualKey, BiggerKey}
    BY <1>2, <1>3, CompareType
<1>6. \A j \in 0 .. i : j \in Slots /\ (j < i \/ j = i)
    BY <1>2 DEF Slots
<1>7. \A j \in i .. TotNoOfRecords - 1 : j \in Slots /\ (i < j \/ j = i)
    BY <1>2 DEF Slots
<1> QED BY <1>4, <1>5, <1>6, <1>7

\* What has to be shown of a step that leaves thread t, at most, inside.
LEMMA SearchStep ==
    ASSUME ControlOK', LocalsTypeOK', NEW t \in Threads, srtdb_mutex' \in {NoThread, t},
           pc'[t] \in {"mBinInsert", "mBinSearch"} => Window(t)',
           index' # INVALID_INDEX /\ pc'[t] = "placed" => Position(t)',
           index' # INVALID_INDEX /\ pc'[t] = "searched" => Found(t)'
    PROVE  SearchOK'
<1>1. \A u \in Threads : u # t => pc'[u] \notin Holding
    BY ConstantsOK DEF ControlOK
<1>2. WindowSound'
    BY <1>1 DEF WindowSound, Holding
<1>3. ResultSound'
    BY <1>1 DEF ResultSound, Holding
<1> QED BY <1>2, <1>3 DEF SearchOK

\* With the mutex free there is no search to be sound.
LEMMA NobodyInside ==
    ASSUME ControlOK', LocalsTypeOK', srtdb_mutex' = NoThread
    PROVE  SearchOK'
<1>1. \A u \in Threads : pc'[u] \notin Holding
    BY ConstantsOK DEF ControlOK
<1> QED BY <1>1 DEF SearchOK, WindowSound, ResultSound, Holding

\* Every bisection starts with the whole table in its window.
LEMMA SearchBegins ==
    ASSUME TableOK, ControlOK', NEW t \in Threads, pc \in [Threads -> Pcs],
           NEW c, NEW loop \in {"mBinInsert", "mBinSearch"}, NEW after \in {"placed", "searched"},
           NEW criteria, NEW result \in {INVALID_INDEX, 0},
           result = 0 => TotNoOfRecords = 0 /\ after = "placed",
           Search(t, c, loop, after, criteria, result), UNCHANGED tableVars
    PROVE  SearchOK'
<1> USE ConstantsOK
<1>1. TotNoOfRecords \in 0 .. MaxRecords /\ TotNoOfRecords' = TotNoOfRecords
    BY DEF TableOK, TableTypeOK, tableVars
<1>2. /\ low' = 0 /\ hi' = TotNoOfRecords - 1 /\ index' = result /\ srtdb_mutex' = t
      /\ pc'[t] = IF Primary \in criteria /\ TotNoOfRecords > 0 THEN loop ELSE after
    BY DEF Search
<1>3. LocalsTypeOK'
    BY <1>1, <1>2 DEF LocalsTypeOK, INVALID_INDEX
<1>4. pc'[t] \in {"mBinInsert", "mBinSearch"} => Window(t)'
    <2> SUFFICES ASSUME pc'[t] \in {"mBinInsert", "mBinSearch"} PROVE Window(t)'
        OBVIOUS
    <2>1. TotNoOfRecords > 0 /\ index' = INVALID_INDEX
        BY <1>2 DEF INVALID_INDEX
    <2>2. 0 .. low' - 1 = {} /\ hi' + 1 .. TotNoOfRecords' - 1 = {}
        BY <1>1, <1>2
    <2> QED BY <1>1, <1>2, <2>1, <2>2 DEF Window, INVALID_INDEX
<1>5. index' # INVALID_INDEX /\ pc'[t] = "placed" => Position(t)'
    <2> SUFFICES ASSUME index' # INVALID_INDEX PROVE Position(t)'
        OBVIOUS
    <2>1. index' = 0 /\ TotNoOfRecords' = 0
        BY <1>1, <1>2
    <2>2. 0 .. index' - 1 = {} /\ index' .. TotNoOfRecords' - 1 = {}
        BY <2>1
    <2> QED BY <2>1, <2>2 DEF Position
<1>6. ~(index' # INVALID_INDEX /\ pc'[t] = "searched")
    BY <1>1, <1>2
<1> QED BY <1>2, <1>3, <1>4, <1>5, <1>6, SearchStep

\* The window, and a fact at one position, rule out everything on one side.
LEMMA MidIsInside ==
    ASSUME TableOK, LocalsTypeOK, NEW t \in Threads, Window(t)
    PROVE  /\ low \in Nat /\ hi \in Nat /\ TotNoOfRecords \in Nat /\ TotNoOfRecords <= MaxRecords
           /\ (low + hi) \div 2 \in Nat
           /\ low <= (low + hi) \div 2 /\ (low + hi) \div 2 <= hi
           /\ low \in Slots /\ hi \in Slots /\ (low + hi) \div 2 \in Slots
<1>1. low \in Nat /\ hi \in Int /\ TotNoOfRecords \in Nat /\ TotNoOfRecords <= MaxRecords
    BY ConstantsOK DEF TableOK, TableTypeOK, LocalsTypeOK
<1>2. low <= hi /\ hi < TotNoOfRecords
    BY DEF Window
<1> QED BY <1>1, <1>2 DEF Slots

\* An iteration of mBinSearch drops only records that the key cannot equal.
LEMMA BinSearchSound ==
    ASSUME IInv, ControlOK', NEW t \in Threads, BinSearchIteration(t)
    PROVE  SearchOK'
<1> USE ConstantsOK
<1> DEFINE c == call[t]
           mid == (low + hi) \div 2
           At(i) == Compare(CriteriaOf(c), c.key, i)
<1>1. /\ TableOK /\ LocalsTypeOK /\ pc[t] = "mBinSearch" /\ srtdb_mutex = t /\ c \in AnyCall
      /\ pc \in [Threads -> Pcs]
      /\ UNCHANGED <<tableVars, srtdb_mutex, call>>
    BY DEF IInv, SearchOK, ControlOK, ControlTypeOK, Holding, BinSearchIteration
<1>2. Window(t)
    BY <1>1 DEF IInv, SearchOK, WindowSound
<1>3. /\ low \in Nat /\ hi \in Nat /\ mid \in Nat /\ low <= mid /\ mid <= hi /\ mid \in Slots
      /\ TotNoOfRecords \in Nat /\ TotNoOfRecords <= MaxRecords /\ hi < TotNoOfRecords
    BY <1>1, <1>2, MidIsInside DEF Window
<1>4. /\ index' = IF At(mid) = EqualKey THEN mid ELSE INVALID_INDEX
      /\ low' = IF At(mid) = SmallerKey THEN mid + 1 ELSE low
      /\ hi' = IF At(mid) = BiggerKey THEN mid - 1 ELSE hi
      /\ pc'[t] = IF low' <= hi' /\ index' = INVALID_INDEX THEN "mBinSearch" ELSE "searched"
    BY <1>1 DEF BinSearchIteration, Loops
<1>5. /\ At(mid) \in {SmallerKey, EqualKey, BiggerKey}
      /\ At(mid) = SmallerKey => \A j \in 0 .. mid : At(j) = SmallerKey
      /\ At(mid) = BiggerKey => \A j \in mid .. TotNoOfRecords - 1 : At(j) = BiggerKey
    BY <1>1, <1>3, ComparisonsAscend
<1>6. TotNoOfRecords' = TotNoOfRecords /\ call' = call /\ \A i : At(i)' = At(i)
    BY <1>1 DEF tableVars, Compare, RecordAt, CriteriaOf
<1>7. LocalsTypeOK'
    BY <1>3, <1>4 DEF LocalsTypeOK, INVALID_INDEX
<1>8. ASSUME pc'[t] \in {"mBinInsert", "mBinSearch"} PROVE Window(t)'
    <2>1. low' <= hi' /\ index' = INVALID_INDEX /\ At(mid) # EqualKey
        BY <1>3, <1>4, <1>8 DEF INVALID_INDEX
    <2>2. \A i \in 0 .. low' - 1 : At(i) = SmallerKey
        BY <1>2, <1>3, <1>4, <1>5 DEF Window
    <2>3. \A i \in hi' + 1 .. TotNoOfRecords - 1 : At(i) = BiggerKey
        <3>1. CASE At(mid) = BiggerKey
            BY <1>3, <1>4, <1>5, <3>1
        <3>2. CASE At(mid) # BiggerKey
            BY <1>2, <1>4, <3>2 DEF Window
        <3> QED BY <3>1, <3>2
    <2>4. 0 <= low' /\ hi' < TotNoOfRecords
        BY <1>3, <1>4
    <2> QED BY <1>6, <2>1, <2>2, <2>3, <2>4 DEF Window, INVALID_INDEX
<1>9. ASSUME index' # INVALID_INDEX PROVE Found(t)'
    <2>1. index' = mid /\ At(mid) = EqualKey
        BY <1>4, <1>9
    <2>2. At(index)' = EqualKey
        BY <1>6, <2>1
    <2> QED BY <1>3, <1>6, <2>1, <2>2 DEF Found, Slots
<1>10. pc'[t] # "placed"
    BY <1>4
<1> QED BY <1>1, <1>7, <1>8, <1>9, <1>10, SearchStep

\* An iteration of mBinInsert drops only positions the key cannot have.
LEMMA BinInsertSound ==
    ASSUME IInv, ControlOK', NEW t \in Threads, BinInsertIteration(t)
    PROVE  SearchOK'
<1> USE ConstantsOK
<1> DEFINE c == call[t]
           mid == (low + hi) \div 2
           At(i) == Compare(CriteriaOf(c), c.key, i)
<1>1. /\ TableOK /\ LocalsTypeOK /\ pc[t] = "mBinInsert" /\ srtdb_mutex = t /\ c \in AnyCall
      /\ pc \in [Threads -> Pcs] /\ c.op \in {"InsertRecord", "SearchOnKey2"}
      /\ UNCHANGED <<tableVars, srtdb_mutex, call>>
    BY DEF IInv, SearchOK, ControlOK, ControlTypeOK, Holding, Placing, BinInsertIteration
<1>2. Window(t) /\ CriteriaOf(c) = SortingCriteria
    BY <1>1 DEF IInv, SearchOK, WindowSound, CriteriaOf
<1>3. /\ low \in Nat /\ hi \in Nat /\ mid \in Nat /\ low <= mid /\ mid <= hi
      /\ low \in Slots /\ mid \in Slots /\ hi \in Slots
      /\ TotNoOfRecords \in Nat /\ TotNoOfRecords <= MaxRecords /\ hi < TotNoOfRecords
    BY <1>1, <1>2, MidIsInside DEF Window
<1>4. ASSUME NEW i \in Slots
      PROVE  /\ At(i) \in {SmallerKey, EqualKey, BiggerKey}
             /\ At(i) = SmallerKey => \A j \in 0 .. i : At(j) = SmallerKey
             /\ At(i) = BiggerKey => \A j \in i .. TotNoOfRecords - 1 : At(j) = BiggerKey
    BY <1>1, ComparisonsAscend
<1>5. TotNoOfRecords' = TotNoOfRecords /\ call' = call /\ \A i : At(i)' = At(i)
    BY <1>1 DEF tableVars, Compare, RecordAt, CriteriaOf
<1>6. CASE EqualKey \in {At(low), At(hi), At(mid)}
    <2>1. index' = INVALID_INDEX /\ pc'[t] = "placed" /\ UNCHANGED <<low, hi>>
        BY <1>1, <1>2, <1>6 DEF BinInsertIteration
    <2>2. LocalsTypeOK'
        BY <1>1, <2>1 DEF LocalsTypeOK, INVALID_INDEX
    <2> QED BY <1>1, <2>1, <2>2, SearchStep
<1>7. CASE EqualKey \notin {At(low), At(hi), At(mid)}
    <2>1. /\ index' = IF At(hi) = SmallerKey THEN hi + 1
                      ELSE IF At(low) = BiggerKey THEN low ELSE INVALID_INDEX
          /\ low' = IF At(mid) = SmallerKey THEN mid + 1 ELSE low
          /\ hi' = IF At(mid) = BiggerKey THEN mid - 1 ELSE hi
          /\ pc'[t] = IF low' <= hi' /\ index' = INVALID_INDEX THEN "mBinInsert" ELSE "placed"
        BY <1>1, <1>2, <1>7 DEF BinInsertIteration, Loops
    <2>2. LocalsTypeOK'
        BY <1>3, <2>1 DEF LocalsTypeOK, INVALID_INDEX
    <2>3. At(mid) \in {SmallerKey, BiggerKey}
        BY <1>3, <1>4, <1>7
    <2>4. ASSUME pc'[t] \in {"mBinInsert", "mBinSearch"} PROVE Window(t)'
        <3>1. low' <= hi' /\ index' = INVALID_INDEX
            BY <2>1, <2>4
        <3>2. \A i \in 0 .. low' - 1 : At(i) = SmallerKey
            <4>1. CASE At(mid) = SmallerKey
                BY <1>3, <1>4, <2>1, <4>1
            <4>2. CASE At(mid) # SmallerKey
                BY <1>2, <2>1, <4>2 DEF Window
            <4> QED BY <4>1, <4>2
        <3>3. \A i \in hi' + 1 .. TotNoOfRecords - 1 : At(i) = BiggerKey
            <4>1. CASE At(mid) = BiggerKey
                BY <1>3, <1>4, <2>1, <4>1
            <4>2. CASE At(mid) # BiggerKey
                BY <1>2, <2>1, <4>2 DEF Window
            <4> QED BY <4>1, <4>2
        <3>4. 0 <= low' /\ hi' < TotNoOfRecords
            BY <1>3, <2>1
        <3> QED BY <1>5, <3>1, <3>2, <3>3, <3>4 DEF Window, INVALID_INDEX
    <2>5. ASSUME index' # INVALID_INDEX PROVE Position(t)'
        <3>1. /\ index' \in 0 .. TotNoOfRecords
              /\ \A i \in 0 .. index' - 1 : At(i) = SmallerKey
              /\ \A i \in index' .. TotNoOfRecords - 1 : At(i) = BiggerKey
            <4>1. CASE At(hi) = SmallerKey
                BY <1>2, <1>3, <1>4, <2>1, <4>1 DEF Window
            <4>2. CASE At(hi) # SmallerKey
                <5>1. index' = low /\ At(low) = BiggerKey
                    BY <2>1, <2>5, <4>2
                <5>2. \A i \in low .. TotNoOfRecords - 1 : At(i) = BiggerKey
                    BY <1>3, <1>4, <5>1
                <5> QED BY <1>2, <1>3, <5>1, <5>2 DEF Window
            <4> QED BY <4>1, <4>2
        <3>2. \A i : Compare(SortingCriteria, call[t].key, i)' = At(i)
            BY <1>2, <1>5
        <3> HIDE DEF At
        <3> QED BY <1>5, <3>1, <3>2 DEF Position
    <2>6. pc'[t] # "searched"
        BY <2>1
    <2> QED BY <1>1, <2>2, <2>4, <2>5, <2>6, SearchStep
<1> QED BY <1>6, <1>7

\* No step breaks the search part of the invariant.
LEMMA NextSearch == IInv /\ [Next]_vars => SearchOK'
<1> SUFFICES ASSUME IInv, [Next]_vars PROVE SearchOK'
    OBVIOUS
<1> USE ConstantsOK
<1>1. ControlOK /\ ControlOK' /\ TableOK /\ LocalsTypeOK /\ pc \in [Threads -> Pcs]
    BY NextControl DEF IInv, SearchOK, ControlOK, ControlTypeOK
<1>2. ASSUME NEW t \in Threads, NEW c, InsertRecord(t, c) \/ SearchOnKey2(t, c) PROVE SearchOK'
    <2>1. /\ Search(t, c, "mBinInsert", "placed", SortingCriteria, FirstPlace)
          /\ UNCHANGED tableVars
        BY <1>2 DEF InsertRecord, SearchOnKey2
    <2>2. FirstPlace \in {INVALID_INDEX, 0} /\ (FirstPlace = 0 => TotNoOfRecords = 0)
        BY DEF FirstPlace, INVALID_INDEX
    <2> QED BY <1>1, <2>1, <2>2, SearchBegins
<1>3. ASSUME NEW t \in Threads, NEW c, SearchFirst(t, c) PROVE SearchOK'
    <2>1. /\ Search(t, c, "mBinSearch", "searched", CriteriaOf(c), INVALID_INDEX)
          /\ UNCHANGED tableVars
        BY <1>3 DEF SearchFirst
    <2> QED BY <1>1, <2>1, SearchBegins DEF INVALID_INDEX
<1>4. ASSUME NEW t \in Threads, Key2SearchesAgain(t) PROVE SearchOK'
    <2>1. /\ Search(t, call[t], "mBinSearch", "searched", SortingCriteria, INVALID_INDEX)
          /\ UNCHANGED tableVars
        BY <1>4 DEF Key2SearchesAgain
    <2> QED BY <1>1, <2>1, SearchBegins DEF INVALID_INDEX
<1>5. ASSUME srtdb_mutex' = NoThread, DropLocals \/ UNCHANGED locals PROVE SearchOK'
    <2>1. LocalsTypeOK'
        BY <1>1, <1>5 DEF DropLocals, locals, LocalsTypeOK, INVALID_INDEX
    <2> QED BY <1>1, <1>5, <2>1, NobodyInside
<1>6. ASSUME NEW t \in Threads, Leaves(t) PROVE SearchOK'
    <2>1. Key2SearchesAgain(t) \/ Unlock(t)
        BY <1>6 DEF Leaves, InsertCommits, InsertRefused, DeleteCommits, DeleteNotFound,
                    UpdateFound, UpdateNotFound, QueryReturns, SearchReturns, PrefixReturns,
                    Key2Returns
    <2> QED BY <1>4, <1>5, <2>1 DEF Unlock
<1>7. ASSUME NEW t \in Threads, Whole(t) PROVE SearchOK'
    <2>1. srtdb_mutex' = NoThread /\ UNCHANGED locals
        BY <1>7 DEF Whole, UpdateReturns, ClearTable, QueryOnIndex
    <2> QED BY <1>5, <2>1
<1>8. ASSUME NEW t \in Threads, NEW c, InsertIntoFull(t, c) PROVE SearchOK'
    <2>1. srtdb_mutex' = NoThread /\ UNCHANGED locals
        BY <1>8 DEF InsertIntoFull, Starts
    <2> QED BY <1>5, <2>1
<1>9. ASSUME UNCHANGED vars PROVE SearchOK'
    BY <1>9 DEF IInv, SearchOK, LocalsTypeOK, WindowSound, Window, ResultSound, Position, Found,
                vars, Compare, RecordAt, CriteriaOf, Slots
<1>10. ASSUME NEW t \in Threads, Enters(t) PROVE SearchOK'
    BY <1>2, <1>3, <1>8, <1>10 DEF Enters
<1> QED BY <1>1, <1>6, <1>7, <1>9, <1>10, BinInsertSound, BinSearchSound DEF Next, Iterates

\* Every step of every thread keeps control, table and search right.
LEMMA NextIInv == IInv /\ [Next]_vars => IInv'
BY NextControl, NextTable, NextSearch DEF IInv

-----------------------------------------------------------------------------
(***************************************************************************)
(* What the bisections' results say of the table, and the answers.         *)
(***************************************************************************)
Present(t) == \E i \in Slots : Compare(CriteriaOf(call[t]), call[t].key, i) = EqualKey

(***************************************************************************)
(* Without a result, mBinSearch has shown that there is no record and      *)
(* mBinInsert that there is one; so SearchOnKey2's second search finds it. *)
(***************************************************************************)
Outcome(t) ==
    /\ pc[t] = "searched" /\ index = INVALID_INDEX => ~Present(t)
    /\ pc[t] = "placed" => IF index # INVALID_INDEX THEN Primary \in SortingCriteria
                           ELSE Primary \in SortingCriteria => Present(t)
    /\ pc[t] \in {"mBinSearch", "searched"} =>
          /\ call[t].op = "SearchOnKey2" /\ TotNoOfRecords > 0 => Present(t)
          /\ call[t].op = "SearchOnPrefix" => call[t].arg \in 1 .. 3

OutcomeOK ==
    /\ TotNoOfRecords > 0 => Primary \in SortingCriteria
    /\ \A t \in Threads :
          /\ pc[t] = "enter" => call[t].op \in {"DeleteRecord", "InsertRecord"}
          /\ pc[t] = "relock" => call[t].op = "UpdateRecord"
          /\ pc[t] \in {"enter", "relock"} => updating[t]
          /\ updating[t] => Primary \in SortingCriteria
          /\ Outcome(t)

\* An update that is alone finds the record to delete, then the place for the new one.
Lone(t) == updating[t] /\ ~disturbed[t] =>
    /\ pc[t] # "relock" /\ call[t].op = "DeleteRecord" => Present(t)
    /\ pc[t] # "relock" /\ call[t].op = "InsertRecord" => ~Present(t) /\ TotNoOfRecords < MaxRecords
    /\ pc[t] = "relock" => (ret[t] <=> call[t].data # NoData)

LoneOK == \A t \in Threads : Lone(t)

\* A key is not equal to two records that the table tells apart.
LEMMA EqualToOne ==
    ASSUME NEW C \in SUBSET Levels, NEW k \in AllKeys, NEW a \in AllKeys, NEW b \in AllKeys,
           CompareKeys(C, a, b) = BiggerKey
    PROVE  ~ (CompareKeys(C, k, a) = EqualKey /\ CompareKeys(C, k, b) = EqualKey)
<1>1. /\ a[1] \in Nat /\ a[2] \in Nat /\ a[3] \in Nat /\ a[4] \in Nat
      /\ b[1] \in Nat /\ b[2] \in Nat /\ b[3] \in Nat /\ b[4] \in Nat
      /\ k[1] \in Nat /\ k[2] \in Nat /\ k[3] \in Nat /\ k[4] \in Nat
    BY DEF AllKeys, Levels
<1> QED BY <1>1 DEF CompareKeys, CompareField, SmallerKey, EqualKey, BiggerKey

\* Agreement on the first n levels is equality for the search that looks at those.
LEMMA AgreementIsEquality ==
    ASSUME NEW C \in SUBSET Levels, NEW n \in 1 .. 3, NEW k \in AllKeys, NEW a \in AllKeys,
           \A l \in 1 .. n : k[l] = a[l]
    PROVE  CompareKeys(C \cap 1 .. n, k, a) = EqualKey
<1>1. /\ a[1] \in Nat /\ a[2] \in Nat /\ a[3] \in Nat /\ a[4] \in Nat
      /\ k[1] \in Nat /\ k[2] \in Nat /\ k[3] \in Nat /\ k[4] \in Nat
    BY DEF AllKeys, Levels
<1>2. k[1] = a[1] /\ (n >= 2 => k[2] = a[2]) /\ (n >= 3 => k[3] = a[3])
    OBVIOUS
<1> QED BY <1>1, <1>2 DEF CompareKeys, CompareField, EqualKey, SmallerKey, BiggerKey

\* If that search cannot tell apart two records that the table can, the key agrees
\* with both on the first n levels.
LEMMA EqualityIsAgreement ==
    ASSUME NEW C \in SUBSET Levels, NEW n \in 1 .. 3, NEW D, D = C \cap 1 .. n,
           NEW k \in AllKeys, NEW a \in AllKeys, NEW b \in AllKeys,
           CompareKeys(C, a, b) = BiggerKey,
           CompareKeys(D, k, a) = EqualKey, CompareKeys(D, k, b) = EqualKey
    PROVE  \A l \in 1 .. n : k[l] = a[l] /\ k[l] = b[l]
<1>1. /\ a[1] \in Nat /\ a[2] \in Nat /\ a[3] \in Nat /\ a[4] \in Nat
      /\ b[1] \in Nat /\ b[2] \in Nat /\ b[3] \in Nat /\ b[4] \in Nat
      /\ k[1] \in Nat /\ k[2] \in Nat /\ k[3] \in Nat /\ k[4] \in Nat
    BY DEF AllKeys, Levels
<1>2. /\ k[1] = a[1] /\ (n >= 2 => k[2] = a[2]) /\ (n >= 3 => k[3] = a[3])
      /\ k[1] = b[1] /\ (n >= 2 => k[2] = b[2]) /\ (n >= 3 => k[3] = b[3])
    BY <1>1 DEF CompareKeys, CompareField, EqualKey, SmallerKey, BiggerKey
<1>3. \A l \in 1 .. n : l = 1 \/ (l = 2 /\ n >= 2) \/ (l = 3 /\ n >= 3)
    OBVIOUS
<1> QED BY <1>2, <1>3

\* A call finds at most one record under the table's own criteria.
LEMMA OneRecord ==
    ASSUME TableOK, NEW c \in AnyCall, CriteriaOf(c) = SortingCriteria,
           NEW i \in Slots, NEW j \in Slots,
           Compare(CriteriaOf(c), c.key, i) = EqualKey, Compare(CriteriaOf(c), c.key, j) = EqualKey
    PROVE  i = j
<1> USE ConstantsOK
<1>1. /\ TotNoOfRecords \in Nat /\ c.key \in AllKeys
      /\ RecordAt(i).key \in AllKeys /\ RecordAt(j).key \in AllKeys
    BY DEF AnyCall, TableOK, TableTypeOK, Record
<1>2. /\ CompareKeys(SortingCriteria, c.key, RecordAt(i).key) = EqualKey
      /\ CompareKeys(SortingCriteria, c.key, RecordAt(j).key) = EqualKey
    BY <1>1 DEF Compare, Slots
<1>3. SortingCriteria \in SUBSET Levels
    OBVIOUS
<1>4. ~ (i < j) /\ ~ (j < i)
    BY <1>1, <1>2, <1>3, EqualToOne DEF TableOK, StrictlySorted
<1> QED BY <1>1, <1>4 DEF Slots

\* What has to be shown of a step that leaves thread t, at most, inside.
LEMMA OutcomeStep ==
    ASSUME ControlOK', NEW t \in Threads, srtdb_mutex' \in {NoThread, t}, Outcome(t)',
           TotNoOfRecords' > 0 => Primary \in SortingCriteria,
           \A u \in Threads :
              /\ pc'[u] = "enter" => call'[u].op \in {"DeleteRecord", "InsertRecord"}
              /\ pc'[u] = "relock" => call'[u].op = "UpdateRecord"
              /\ pc'[u] \in {"enter", "relock"} => updating'[u]
              /\ updating'[u] => Primary \in SortingCriteria
    PROVE  OutcomeOK'
<1>1. \A u \in Threads : u # t => pc'[u] \notin Holding
    BY ConstantsOK DEF ControlOK
<1>2. \A u \in Threads : u # t => Outcome(u)'
    BY <1>1 DEF Outcome, Holding
<1> QED BY <1>2 DEF OutcomeOK

\* A call that starts has the arguments of its method.
LEMMA StartsArguments ==
    ASSUME OutcomeOK, NEW t \in Threads, NEW c, Starts(t, c)
    PROVE  c.op = "SearchOnPrefix" => c.arg \in 1 .. 3
BY DEF Starts, Calls, Writers, Lookups, OutcomeOK

\* A bisection begins with everything open, or on an empty table.
LEMMA OutcomeBegins ==
    ASSUME IInv, OutcomeOK, ControlOK', NEW t \in Threads, NEW c \in AnyCall,
           \/ InsertRecord(t, c) \/ SearchOnKey2(t, c) \/ SearchFirst(t, c)
           \/ c = call[t] /\ Key2SearchesAgain(t)
    PROVE  OutcomeOK'
<1> USE ConstantsOK
<1>1. /\ TableOK /\ ControlOK /\ TotNoOfRecords \in Nat
      /\ pc \in [Threads -> Pcs] /\ call \in [Threads -> AnyCall \cup {NoCall}]
    BY DEF IInv, TableOK, TableTypeOK, ControlOK, ControlTypeOK
<1>2. UNCHANGED <<tableVars, updating>> /\ srtdb_mutex' = t
    BY DEF InsertRecord, SearchOnKey2, SearchFirst, Key2SearchesAgain, Search
<1>3. /\ TotNoOfRecords' = TotNoOfRecords
      /\ \A C, k, i : Compare(C, k, i)' = Compare(C, k, i)
    BY <1>2 DEF tableVars, Compare, RecordAt
<1>4. PICK at \in Holding : pc' = [pc EXCEPT ![t] = at]
    BY DEF InsertRecord, SearchOnKey2, SearchFirst, Key2SearchesAgain, Search, Holding
<1>5. call' = [call EXCEPT ![t] = c]
    BY <1>1 DEF InsertRecord, SearchOnKey2, SearchFirst, Key2SearchesAgain, Search
<1>6. pc'[t] = at /\ call'[t] = c /\ Slots' = Slots
    BY <1>1, <1>3, <1>4, <1>5 DEF Slots
<1>7. Present(t)' <=> \E i \in Slots : Compare(CriteriaOf(c), c.key, i) = EqualKey
    BY <1>3, <1>6 DEF Present, CriteriaOf
<1>8. \A u \in Threads :
         /\ pc'[u] = "enter" => call'[u].op \in {"DeleteRecord", "InsertRecord"}
         /\ pc'[u] = "relock" => call'[u].op = "UpdateRecord"
         /\ pc'[u] \in {"enter", "relock"} => updating'[u]
         /\ updating'[u] => Primary \in SortingCriteria
    BY <1>1, <1>2, <1>4, <1>5 DEF OutcomeOK, Holding
<1>9. Outcome(t)'
    <2>1. CASE InsertRecord(t, c) \/ SearchOnKey2(t, c)
        <3>1. index' = FirstPlace /\ at = (IF Primary \in SortingCriteria /\ TotNoOfRecords > 0
                                           THEN "mBinInsert" ELSE "placed")
            BY <1>1, <1>6, <2>1 DEF InsertRecord, SearchOnKey2, Search
        <3>2. at = "placed" => IF Primary \in SortingCriteria THEN index' = 0 ELSE index' = INVALID_INDEX
            BY <1>1, <3>1 DEF FirstPlace
        <3> QED BY <1>6, <3>1, <3>2 DEF Outcome, INVALID_INDEX
    <2>2. CASE SearchFirst(t, c)
        <3>1. /\ c.op \notin {"InsertRecord", "SearchOnKey2"} /\ index' = INVALID_INDEX
              /\ at = (IF Primary \in CriteriaOf(c) /\ TotNoOfRecords > 0 THEN "mBinSearch" ELSE "searched")
            BY <1>1, <1>6, <2>2 DEF SearchFirst, Search
        <3>2. c.op = "SearchOnPrefix" => c.arg \in 1 .. 3
            BY <2>2, StartsArguments DEF SearchFirst
        <3>3. Primary \in SortingCriteria => Primary \in CriteriaOf(c)
            BY <3>2 DEF CriteriaOf, Primary
        <3>4. at = "searched" => Slots = {}
            BY <1>1, <3>1, <3>3 DEF OutcomeOK, Slots
        <3> QED BY <1>6, <1>7, <3>1, <3>2, <3>4 DEF Outcome
    <2>3. CASE c = call[t] /\ Key2SearchesAgain(t)
        <3>1. /\ c.op = "SearchOnKey2" /\ pc[t] = "placed" /\ index = INVALID_INDEX /\ index' = INVALID_INDEX
              /\ at = (IF Primary \in SortingCriteria /\ TotNoOfRecords > 0 THEN "mBinSearch" ELSE "searched")
            BY <1>1, <1>6, <2>3 DEF Key2SearchesAgain, Search, After
        <3>2. at = "searched" => Slots = {} /\ TotNoOfRecords = 0
            BY <1>1, <3>1 DEF OutcomeOK, Slots
        <3>3. Primary \in SortingCriteria => \E i \in Slots : Compare(CriteriaOf(c), c.key, i) = EqualKey
            BY <2>3, <3>1 DEF OutcomeOK, Outcome, Present
        <3> QED BY <1>3, <1>6, <1>7, <3>1, <3>2, <3>3 DEF Outcome, OutcomeOK
    <2> QED BY <2>1, <2>2, <2>3
<1>10. TotNoOfRecords' > 0 => Primary \in SortingCriteria
    BY <1>3 DEF OutcomeOK
<1> QED BY <1>2, <1>8, <1>9, <1>10, OutcomeStep

\* mBinInsert gives up only where it has seen an equal key.
LEMMA BinInsertOutcome ==
    ASSUME IInv, OutcomeOK, ControlOK', NEW t \in Threads, BinInsertIteration(t)
    PROVE  OutcomeOK'
<1> USE ConstantsOK
<1> DEFINE c == call[t]
           mid == (low + hi) \div 2
           At(i) == Compare(CriteriaOf(c), c.key, i)
<1>1. /\ TableOK /\ LocalsTypeOK /\ pc[t] = "mBinInsert" /\ srtdb_mutex = t /\ c \in AnyCall
      /\ pc \in [Threads -> Pcs] /\ c.op \in {"InsertRecord", "SearchOnKey2"}
      /\ UNCHANGED <<tableVars, srtdb_mutex, call, updating>>
    BY DEF IInv, SearchOK, ControlOK, ControlTypeOK, Holding, Placing, BinInsertIteration
<1>2. Window(t) /\ CriteriaOf(c) = SortingCriteria
    BY <1>1 DEF IInv, SearchOK, WindowSound, CriteriaOf
<1>3. /\ low \in Nat /\ hi \in Nat /\ mid \in Nat /\ low <= mid /\ mid <= hi
      /\ low \in Slots /\ mid \in Slots /\ hi \in Slots /\ TotNoOfRecords \in Nat
    BY <1>1, <1>2, MidIsInside DEF Window
<1>4. \A i \in Slots : At(i) \in {SmallerKey, EqualKey, BiggerKey}
    BY <1>1, ComparisonsAscend
<1>5. /\ TotNoOfRecords' = TotNoOfRecords /\ Slots' = Slots /\ call' = call
      /\ Present(t)' <=> \E i \in Slots : At(i) = EqualKey
    BY <1>1 DEF tableVars, Compare, RecordAt, CriteriaOf, Present, Slots
<1>6. Primary \in SortingCriteria
    BY <1>3 DEF OutcomeOK, Slots
<1>7. CASE EqualKey \in {At(low), At(hi), At(mid)}
    <2>1. pc' = [pc EXCEPT ![t] = "placed"] /\ index' = INVALID_INDEX
        BY <1>2, <1>7 DEF BinInsertIteration
    <2>2. Present(t)'
        BY <1>3, <1>5, <1>7
    <2>3. Outcome(t)'
        BY <1>1, <2>1, <2>2 DEF Outcome
    <2> QED BY <1>1, <1>5, <1>6, <2>1, <2>3, OutcomeStep DEF OutcomeOK
<1>8. CASE EqualKey \notin {At(low), At(hi), At(mid)}
    <2>1. /\ index' = IF At(hi) = SmallerKey THEN hi + 1
                      ELSE IF At(low) = BiggerKey THEN low ELSE INVALID_INDEX
          /\ low' = IF At(mid) = SmallerKey THEN mid + 1 ELSE low
          /\ hi' = IF At(mid) = BiggerKey THEN mid - 1 ELSE hi
        BY <1>2, <1>8 DEF BinInsertIteration
    <2>2. pc' = [pc EXCEPT ![t] = IF low' <= hi' /\ index' = INVALID_INDEX THEN "mBinInsert" ELSE "placed"]
        BY <1>2, <1>8 DEF BinInsertIteration, Loops
    <2>3. At(hi) = SmallerKey \/ At(low) = BiggerKey \/ (index' = INVALID_INDEX /\ low' <= hi')
        <3> SUFFICES ASSUME At(hi) # SmallerKey, At(low) # BiggerKey
                     PROVE  index' = INVALID_INDEX /\ low' <= hi'
            OBVIOUS
        <3>1. At(hi) = BiggerKey /\ At(low) = SmallerKey /\ At(mid) \in {SmallerKey, BiggerKey}
            BY <1>3, <1>4, <1>8
        <3>2. (At(mid) = SmallerKey => mid # hi) /\ (At(mid) = BiggerKey => mid # low)
            BY <3>1 DEF SmallerKey, BiggerKey
        <3> HIDE DEF At, mid
        <3> QED BY <1>3, <2>1, <3>1, <3>2 DEF SmallerKey, BiggerKey
    <2>4. pc'[t] = "placed" => index' # INVALID_INDEX
        <3>1. At(hi) = SmallerKey \/ At(low) = BiggerKey => index' \in Nat
            BY <1>3, <2>1
        <3> QED BY <1>1, <2>2, <2>3, <3>1 DEF INVALID_INDEX
    <2>5. Outcome(t)'
        BY <1>1, <1>6, <2>2, <2>4 DEF Outcome
    <2> QED BY <1>1, <1>5, <1>6, <2>2, <2>5, OutcomeStep DEF OutcomeOK
<1> QED BY <1>7, <1>8

\* mBinSearch gives up only when every record is bigger or smaller.
LEMMA BinSearchOutcome ==
    ASSUME IInv, OutcomeOK, ControlOK', NEW t \in Threads, BinSearchIteration(t)
    PROVE  OutcomeOK'
<1> USE ConstantsOK
<1> DEFINE c == call[t]
           mid == (low + hi) \div 2
           At(i) == Compare(CriteriaOf(c), c.key, i)
<1>1. /\ TableOK /\ LocalsTypeOK /\ pc[t] = "mBinSearch" /\ srtdb_mutex = t /\ c \in AnyCall
      /\ pc \in [Threads -> Pcs]
      /\ UNCHANGED <<tableVars, srtdb_mutex, call, updating>>
    BY DEF IInv, SearchOK, ControlOK, ControlTypeOK, Holding, BinSearchIteration
<1>2. Window(t)
    BY <1>1 DEF IInv, SearchOK, WindowSound
<1>3. /\ low \in Nat /\ hi \in Nat /\ mid \in Nat /\ low <= mid /\ mid <= hi /\ mid \in Slots
      /\ TotNoOfRecords \in Nat /\ hi < TotNoOfRecords
    BY <1>1, <1>2, MidIsInside DEF Window
<1>4. /\ index' = IF At(mid) = EqualKey THEN mid ELSE INVALID_INDEX
      /\ low' = IF At(mid) = SmallerKey THEN mid + 1 ELSE low
      /\ hi' = IF At(mid) = BiggerKey THEN mid - 1 ELSE hi
      /\ pc' = [pc EXCEPT ![t] = IF low' <= hi' /\ index' = INVALID_INDEX THEN "mBinSearch" ELSE "searched"]
    BY DEF BinSearchIteration, Loops
<1>5. /\ At(mid) \in {SmallerKey, EqualKey, BiggerKey}
      /\ At(mid) = SmallerKey => \A j \in 0 .. mid : At(j) = SmallerKey
      /\ At(mid) = BiggerKey => \A j \in mid .. TotNoOfRecords - 1 : At(j) = BiggerKey
    BY <1>1, <1>3, ComparisonsAscend
<1>6. /\ TotNoOfRecords' = TotNoOfRecords /\ Slots' = Slots /\ call' = call
      /\ Present(t)' <=> \E i \in Slots : At(i) = EqualKey
    BY <1>1 DEF tableVars, Compare, RecordAt, CriteriaOf, Present, Slots
<1>7. ASSUME pc'[t] = "searched", index' = INVALID_INDEX, NEW i \in Slots
      PROVE  At(i) # EqualKey
    <2>1. At(mid) # EqualKey /\ low' > hi'
        BY <1>1, <1>3, <1>4, <1>7 DEF INVALID_INDEX, LocalsTypeOK
    <2>2. CASE At(mid) = SmallerKey
        <3>1. i \in 0 .. mid \/ i \in hi + 1 .. TotNoOfRecords - 1
            BY <1>3, <1>4, <2>1, <2>2 DEF SmallerKey, BiggerKey, Slots
        <3>2. At(i) \in {SmallerKey, BiggerKey}
            BY <1>2, <1>5, <2>2, <3>1 DEF Window
        <3> QED BY <3>2 DEF SmallerKey, BiggerKey, EqualKey
    <2>3. CASE At(mid) = BiggerKey
        <3>1. i \in mid .. TotNoOfRecords - 1 \/ i \in 0 .. low - 1
            BY <1>3, <1>4, <2>1, <2>3 DEF SmallerKey, BiggerKey, Slots
        <3>2. At(i) \in {SmallerKey, BiggerKey}
            BY <1>2, <1>5, <2>3, <3>1 DEF Window
        <3> QED BY <3>2 DEF SmallerKey, BiggerKey, EqualKey
    <2> QED BY <1>5, <2>1, <2>2, <2>3
<1>8. Outcome(t)'
    <2>1. Present(t)' <=> Present(t)
        BY <1>6 DEF Present
    <2>2. pc'[t] \in {"mBinSearch", "searched"}
        BY <1>1, <1>4
    <2>3. /\ c.op = "SearchOnKey2" /\ TotNoOfRecords > 0 => Present(t)
          /\ c.op = "SearchOnPrefix" => c.arg \in 1 .. 3
        BY <1>1 DEF OutcomeOK, Outcome
    <2> HIDE DEF At
    <2> QED BY <1>6, <1>7, <2>1, <2>2, <2>3 DEF Outcome
<1> QED BY <1>1, <1>4, <1>6, <1>8, OutcomeStep DEF OutcomeOK

\* A section that ends leaves nobody inside; a record gets into the table, and
\* an update begins, only where there is a primary key.
LEMMA OutcomeLeaves ==
    ASSUME IInv, OutcomeOK, ControlOK', NEW t \in Threads,
           \/ Leaves(t) /\ ~Key2SearchesAgain(t)
           \/ Whole(t)
           \/ \E c : InsertIntoFull(t, c)
    PROVE  OutcomeOK'
<1> USE ConstantsOK
<1>1. /\ TableOK /\ ControlOK /\ TotNoOfRecords \in Nat
      /\ pc \in [Threads -> Pcs] /\ call \in [Threads -> AnyCall \cup {NoCall}]
      /\ updating \in [Threads -> BOOLEAN]
    BY DEF IInv, TableOK, TableTypeOK, ControlOK, ControlTypeOK
<1>2. srtdb_mutex' = NoThread
    BY DEF Leaves, InsertCommits, InsertRefused, DeleteCommits, DeleteNotFound, UpdateFound,
           UpdateNotFound, QueryReturns, SearchReturns, PrefixReturns, Key2Returns, Unlock,
           Whole, UpdateReturns, ClearTable, QueryOnIndex, InsertIntoFull, Starts
<1>3. pc'[t] \notin Holding
    BY <1>2 DEF ControlOK
<1>4. Outcome(t)'
    BY <1>3 DEF Outcome, Holding
<1>5. /\ \A u \in Threads : u # t => pc'[u] = pc[u] /\ call'[u] = call[u] /\ updating'[u] = updating[u]
      /\ pc'[t] = "enter" => call'[t].op \in {"DeleteRecord", "InsertRecord"}
      /\ pc'[t] = "relock" => call'[t].op = "UpdateRecord"
      /\ pc'[t] \in {"enter", "relock"} => updating'[t]
      /\ updating'[t] => updating[t] \/ UpdateFound(t)
    <2>1. CASE InsertCommits(t) \/ InsertRefused(t) \/ \E c : InsertIntoFull(t, c)
        <3>1. PICK c, ok : InsertReturns(t, c, ok)
            BY <2>1 DEF InsertCommits, InsertRefused, InsertIntoFull
        <3>2. UNCHANGED updating
            BY <2>1 DEF InsertCommits, InsertRefused, InsertIntoFull
        <3>3. updating[t] => call[t] \in AnyCall
            BY <1>1 DEF ControlOK, UpdateStage
        <3> QED BY <1>1, <3>1, <3>2, <3>3 DEF InsertReturns, GoOn, Reply, AnyCall
    <2>2. CASE DeleteCommits(t) \/ DeleteNotFound(t)
        <3>1. PICK c, ok : DeleteReturns(t, c, ok)
            BY <2>2 DEF DeleteCommits, DeleteNotFound
        <3>2. UNCHANGED updating
            BY <2>2 DEF DeleteCommits, DeleteNotFound
        <3>3. updating[t] => call[t] \in AnyCall
            BY <1>1 DEF ControlOK, UpdateStage
        <3> QED BY <1>1, <3>1, <3>2, <3>3 DEF DeleteReturns, GoOn, Reply, AnyCall
    <2>3. CASE UpdateFound(t)
        <3>1. call[t] \in AnyCall
            BY <1>1, <2>3 DEF UpdateFound, After, ControlOK
        <3> QED BY <1>1, <2>3, <3>1 DEF UpdateFound, GoOn, AnyCall
    <2>4. CASE \/ UpdateNotFound(t) \/ QueryReturns(t) \/ SearchReturns(t) \/ PrefixReturns(t)
               \/ Key2Returns(t)
        <3>1. pc' = [pc EXCEPT ![t] = "idle"] /\ call' = [call EXCEPT ![t] = NoCall] /\ UNCHANGED updating
            BY <2>4 DEF UpdateNotFound, QueryReturns, SearchReturns, PrefixReturns, Key2Returns,
                        Fails, Reply
        <3> QED BY <1>1, <3>1
    <2>5. CASE UpdateReturns(t)
        BY <1>1, <2>5 DEF UpdateReturns, Reply
    <2>6. CASE ClearTable(t) \/ \E i : QueryOnIndex(t, i)
        BY <1>1, <2>6 DEF ClearTable, QueryOnIndex, OutcomeOK
    <2> QED BY <2>1, <2>2, <2>3, <2>4, <2>5, <2>6 DEF Leaves, Whole
<1>6. UpdateFound(t) => Primary \in SortingCriteria
    <2> SUFFICES ASSUME UpdateFound(t) PROVE Primary \in SortingCriteria
        OBVIOUS
    <2>1. Found(t)
        BY DEF UpdateFound, After, IInv, SearchOK, ResultSound
    <2> QED BY <1>1, <2>1 DEF Found, Slots, OutcomeOK
<1>7. TotNoOfRecords' > 0 => Primary \in SortingCriteria
    <2>1. CASE InsertCommits(t)
        BY <2>1 DEF InsertCommits, After, Inserts, OutcomeOK, Outcome
    <2>2. CASE DeleteCommits(t) \/ ClearTable(t)
        <3>1. TotNoOfRecords' = TotNoOfRecords - 1 \/ TotNoOfRecords' = 0
            BY <2>2 DEF DeleteCommits, ClearTable
        <3> QED BY <1>1, <3>1 DEF OutcomeOK
    <2>3. CASE UNCHANGED tableVars
        BY <2>3 DEF tableVars, OutcomeOK
    <2> QED BY <2>1, <2>2, <2>3
            DEF Leaves, InsertRefused, DeleteNotFound, UpdateFound, UpdateNotFound, QueryReturns,
                SearchReturns, PrefixReturns, Key2Returns, Whole, UpdateReturns, QueryOnIndex,
                InsertIntoFull
<1>8. \A u \in Threads :
         /\ pc'[u] = "enter" => call'[u].op \in {"DeleteRecord", "InsertRecord"}
         /\ pc'[u] = "relock" => call'[u].op = "UpdateRecord"
         /\ pc'[u] \in {"enter", "relock"} => updating'[u]
         /\ updating'[u] => Primary \in SortingCriteria
    BY <1>5, <1>6 DEF OutcomeOK
<1> QED BY <1>2, <1>4, <1>7, <1>8, OutcomeStep

\* No step breaks what the results mean.
LEMMA NextOutcome == IInv /\ OutcomeOK /\ [Next]_vars => OutcomeOK'
<1> SUFFICES ASSUME IInv, OutcomeOK, [Next]_vars PROVE OutcomeOK'
    OBVIOUS
<1>1. ControlOK /\ ControlOK'
    BY NextControl DEF IInv
<1>2. ASSUME NEW t \in Threads, Enters(t) PROVE OutcomeOK'
    <2>1. PICK c : InsertRecord(t, c) \/ InsertIntoFull(t, c) \/ SearchOnKey2(t, c) \/ SearchFirst(t, c)
        BY <1>2 DEF Enters
    <2>2. c \in AnyCall
        BY <1>1, <2>1, StartsCall DEF InsertRecord, InsertIntoFull, SearchOnKey2, SearchFirst
    <2> QED BY <1>1, <2>1, <2>2, OutcomeBegins, OutcomeLeaves
<1>3. ASSUME NEW t \in Threads, Leaves(t) PROVE OutcomeOK'
    <2>1. Key2SearchesAgain(t) => call[t] \in AnyCall
        BY <1>1 DEF Key2SearchesAgain, After, ControlOK
    <2> QED BY <1>1, <1>3, <2>1, OutcomeBegins, OutcomeLeaves
<1>4. ASSUME UNCHANGED vars PROVE OutcomeOK'
    BY <1>4 DEF OutcomeOK, Outcome, Present, vars, Compare, RecordAt, CriteriaOf, Slots
<1> QED BY <1>1, <1>2, <1>3, <1>4, OutcomeLeaves, BinInsertOutcome, BinSearchOutcome DEF Next, Iterates

-----------------------------------------------------------------------------
(***************************************************************************)
(* UpdateRecord.                                                           *)
(***************************************************************************)

\* What has to be shown of a step of thread t: to an update of another thread it is a
\* stutter, or disturbs it.
LEMMA LoneStep ==
    ASSUME LoneOK, ControlTypeOK, NEW t \in Threads, Lone(t)', UNCHANGED tableVars \/ Disturb(t),
           \A u \in Threads : u # t => /\ pc'[u] = pc[u] /\ call'[u] = call[u] /\ ret'[u] = ret[u]
                                       /\ updating'[u] = updating[u]
                                       /\ disturbed[u] => disturbed'[u]
    PROVE  LoneOK'
<1>1. ASSUME NEW u \in Threads, u # t PROVE Lone(u)'
    <2>1. CASE UNCHANGED tableVars
        <3>1. Present(u)' <=> Present(u)
            BY <1>1, <2>1 DEF Present, Compare, RecordAt, CriteriaOf, Slots, tableVars
        <3> QED BY <1>1, <2>1, <3>1 DEF LoneOK, Lone, tableVars
    <2>2. CASE Disturb(t)
        <3>1. updating[u] => disturbed'[u]
            BY <1>1, <2>2 DEF Disturb, ControlTypeOK
        <3> QED BY <1>1, <3>1 DEF Lone
    <2> QED BY <2>1, <2>2
<1> QED BY <1>1 DEF LoneOK

\* After its record is deleted, no record of the table equals the key.
LEMMA DeletedIsGone ==
    ASSUME TableOK, NEW t \in Threads, call[t] \in AnyCall, call[t].op = "DeleteRecord",
           Found(t), DeleteCommits(t)
    PROVE  /\ TotNoOfRecords' < MaxRecords
           /\ \A i \in Slots' : CompareKeys(SortingCriteria, call[t].key, RecordAt(i)'.key) # EqualKey
<1> USE ConstantsOK
<1> DEFINE old(i) == IF i < index THEN i ELSE i + 1
<1>1. /\ Buffers' = [Buffers EXCEPT ![Data[index]] = Unused]
      /\ TotNoOfRecords' = TotNoOfRecords - 1
      /\ Data' = [i \in Positions |->
                    IF i < index \/ i >= TotNoOfRecords THEN Data[i]
                    ELSE IF i < TotNoOfRecords - 1 THEN Data[i + 1] ELSE NULL]
    BY DEF DeleteCommits
<1>2. /\ TotNoOfRecords \in Nat /\ TotNoOfRecords <= MaxRecords
      /\ index \in Slots /\ index \in Nat /\ index < TotNoOfRecords
      /\ Buffers \in [Nodes -> Record \cup {Unused}]
      /\ CriteriaOf(call[t]) = SortingCriteria
      /\ Compare(SortingCriteria, call[t].key, index) = EqualKey
    BY DEF TableOK, TableTypeOK, Found, Slots, CriteriaOf
<1>3. \A i \in Slots : Data[i] \in Nodes
    BY DEF TableOK, NoLeakNoAlias, Elements, Nodes
<1>4. \A i \in Slots' : /\ i \in Positions /\ Data'[i] = Data[old(i)]
                        /\ old(i) \in Slots /\ old(i) # index
    BY <1>1, <1>2 DEF Slots, Positions
<1>5. \A i \in Slots' : Data'[i] # Data[index]
    <2>1. \A i \in Slots, j \in Slots : Data[i] = Data[j] => i = j
        BY DEF TableOK, NoLeakNoAlias
    <2> QED BY <1>2, <1>4, <2>1
<1>6. \A i \in Slots' : RecordAt(i)' = RecordAt(old(i))
    BY <1>1, <1>2, <1>3, <1>4, <1>5 DEF RecordAt
<1>7. ASSUME NEW i \in Slots'
      PROVE  CompareKeys(SortingCriteria, call[t].key, RecordAt(i)'.key) # EqualKey
    <2> DEFINE j == old(i)
    <2>1. j \in Slots /\ j # index /\ RecordAt(i)' = RecordAt(j)
        BY <1>4, <1>6
    <2> HIDE DEF j
    <2>2. Compare(SortingCriteria, call[t].key, j) # EqualKey
        BY <1>2, <2>1, OneRecord
    <2>3. Compare(SortingCriteria, call[t].key, j) = CompareKeys(SortingCriteria, call[t].key, RecordAt(j).key)
        BY <1>2, <2>1 DEF Compare, Slots
    <2> QED BY <2>1, <2>2, <2>3
<1> QED BY <1>1, <1>2, <1>7

\* A step of one thread does not move the others, and tells their updates if it
\* changes the table.
LEMMA OthersStay ==
    ASSUME ControlOK, NEW t \in Threads, Enters(t) \/ Iterates(t) \/ Leaves(t) \/ Whole(t)
    PROVE  /\ UNCHANGED tableVars \/ Disturb(t)
           /\ \A u \in Threads : u # t => /\ pc'[u] = pc[u] /\ call'[u] = call[u] /\ ret'[u] = ret[u]
                                          /\ updating'[u] = updating[u]
                                          /\ disturbed[u] => disturbed'[u]
<1>1. /\ pc \in [Threads -> Pcs] /\ call \in [Threads -> AnyCall \cup {NoCall}]
      /\ updating \in [Threads -> BOOLEAN] /\ ret \in [Threads -> BOOLEAN]
      /\ disturbed \in [Threads -> BOOLEAN]
    BY DEF ControlOK, ControlTypeOK
<1> DEFINE Moves == \A u \in Threads : u # t => pc'[u] = pc[u] /\ call'[u] = call[u] /\ ret'[u] = ret[u]
           Stays == \A u \in Threads : u # t => /\ updating'[u] = updating[u]
                                                /\ disturbed[u] => disturbed'[u]
<1>2. ASSUME Disturb(t) PROVE \A u \in Threads : disturbed[u] => disturbed'[u]
    BY <1>2 DEF Disturb
<1>3. ASSUME NEW c, NEW ok, InsertReturns(t, c, ok) \/ DeleteReturns(t, c, ok) PROVE Moves
    BY <1>1, <1>3 DEF InsertReturns, DeleteReturns, GoOn, Reply
<1>4. CASE Enters(t)
    <2>1. PICK c : InsertRecord(t, c) \/ InsertIntoFull(t, c) \/ SearchOnKey2(t, c) \/ SearchFirst(t, c)
        BY <1>4 DEF Enters
    <2>2. CASE InsertIntoFull(t, c)
        <3>1. UNCHANGED <<tableVars, updating, disturbed>> /\ InsertReturns(t, c, FALSE)
            BY <2>2 DEF InsertIntoFull
        <3> QED BY <1>3, <3>1
    <2>3. CASE InsertRecord(t, c) \/ SearchOnKey2(t, c) \/ SearchFirst(t, c)
        <3>1. UNCHANGED <<tableVars, updating, disturbed, ret>>
            BY <2>3 DEF InsertRecord, SearchOnKey2, SearchFirst
        <3>2. \A u \in Threads : u # t => pc'[u] = pc[u] /\ call'[u] = call[u]
            BY <1>1, <2>3 DEF InsertRecord, SearchOnKey2, SearchFirst, Search
        <3> QED BY <3>1, <3>2
    <2> QED BY <2>1, <2>2, <2>3
<1>5. CASE Iterates(t)
    <2>1. UNCHANGED <<tableVars, call, updating, ret, disturbed>>
        BY <1>5 DEF Iterates, BinInsertIteration, BinSearchIteration
    <2>2. \A u \in Threads : u # t => pc'[u] = pc[u]
        BY <1>1, <1>5 DEF Iterates, BinInsertIteration, BinSearchIteration, Loops
    <2> QED BY <2>1, <2>2
<1>6. CASE InsertCommits(t) \/ InsertRefused(t) \/ DeleteCommits(t) \/ DeleteNotFound(t)
    <2>1. PICK ok : InsertReturns(t, call[t], ok) \/ DeleteReturns(t, call[t], ok)
        BY <1>6 DEF InsertCommits, InsertRefused, DeleteCommits, DeleteNotFound
    <2>2. UNCHANGED updating /\ (Disturb(t) \/ UNCHANGED <<tableVars, disturbed>>)
        BY <1>6 DEF InsertCommits, InsertRefused, DeleteCommits, DeleteNotFound
    <2> QED BY <1>2, <1>3, <2>1, <2>2
<1>7. CASE UpdateFound(t)
    <2>1. UNCHANGED <<tableVars, ret, disturbed>>
        BY <1>7 DEF UpdateFound
    <2>2. Moves /\ \A u \in Threads : u # t => updating'[u] = updating[u]
        BY <1>1, <1>7 DEF UpdateFound, GoOn
    <2> QED BY <2>1, <2>2
<1>8. CASE \/ UpdateNotFound(t) \/ QueryReturns(t) \/ SearchReturns(t) \/ PrefixReturns(t)
           \/ Key2Returns(t)
    <2>1. UNCHANGED <<tableVars, updating, ret, disturbed>>
        BY <1>8 DEF UpdateNotFound, QueryReturns, SearchReturns, PrefixReturns, Key2Returns
    <2>2. pc' = [pc EXCEPT ![t] = "idle"] /\ call' = [call EXCEPT ![t] = NoCall]
        BY <1>8 DEF UpdateNotFound, QueryReturns, SearchReturns, PrefixReturns, Key2Returns,
                    Fails, Reply
    <2> QED BY <1>1, <2>1, <2>2
<1>9. CASE Key2SearchesAgain(t)
    <2>1. UNCHANGED <<tableVars, updating, ret, disturbed>>
        BY <1>9 DEF Key2SearchesAgain
    <2>2. \A u \in Threads : u # t => pc'[u] = pc[u] /\ call'[u] = call[u]
        BY <1>1, <1>9 DEF Key2SearchesAgain, Search
    <2> QED BY <2>1, <2>2
<1>10. CASE UpdateReturns(t)
    <2>1. UNCHANGED tableVars
        BY <1>10 DEF UpdateReturns
    <2>2. Moves /\ Stays
        BY <1>1, <1>10 DEF UpdateReturns, Reply
    <2> QED BY <2>1, <2>2
<1>11. CASE ClearTable(t)
    <2>1. Disturb(t) /\ UNCHANGED <<pc, call, updating, ret>>
        BY <1>11 DEF ClearTable
    <2> QED BY <1>2, <2>1
<1>12. CASE \E i : QueryOnIndex(t, i)
    BY <1>12 DEF QueryOnIndex
<1> QED BY <1>4, <1>5, <1>6, <1>7, <1>8, <1>9, <1>10, <1>11, <1>12 DEF Leaves, Whole

\* A step inside an undisturbed update leads to the next stage of its success.
LEMMA LoneSelf ==
    ASSUME IInv, OutcomeOK, LoneOK, NEW t \in Threads,
           Enters(t) \/ Iterates(t) \/ Leaves(t) \/ Whole(t)
    PROVE  Lone(t)'
<1> USE ConstantsOK
<1>1. /\ ControlOK /\ TableOK /\ SearchOK /\ TotNoOfRecords \in Nat
      /\ pc \in [Threads -> Pcs] /\ call \in [Threads -> AnyCall \cup {NoCall}]
      /\ updating \in [Threads -> BOOLEAN] /\ ret \in [Threads -> BOOLEAN]
      /\ disturbed \in [Threads -> BOOLEAN]
    BY DEF IInv, TableOK, TableTypeOK, ControlOK, ControlTypeOK
<1>2. \A C, k, i : UNCHANGED tableVars => /\ Compare(C, k, i)' = Compare(C, k, i)
                                          /\ Slots' = Slots /\ TotNoOfRecords' = TotNoOfRecords
    BY DEF tableVars, Compare, RecordAt, Slots
<1>3. ASSUME UNCHANGED <<tableVars, call, updating, ret, disturbed>>, pc'[t] # "relock", pc[t] # "relock"
      PROVE  Lone(t)'
    <2>1. Present(t)' <=> Present(t)
        BY <1>2, <1>3 DEF Present, CriteriaOf
    <2> QED BY <1>2, <1>3, <2>1 DEF LoneOK, Lone
<1>4. ASSUME ~updating'[t] PROVE Lone(t)'
    BY <1>4 DEF Lone
<1>5. CASE Enters(t)
    <2>1. PICK c : InsertRecord(t, c) \/ InsertIntoFull(t, c) \/ SearchOnKey2(t, c) \/ SearchFirst(t, c)
        BY <1>5 DEF Enters
    <2>2. /\ UNCHANGED <<tableVars, updating, disturbed>>
          /\ updating[t] => c = call[t] /\ c.op \in {"DeleteRecord", "InsertRecord"}
        BY <1>1, <2>1, StartsCall DEF InsertRecord, InsertIntoFull, SearchOnKey2, SearchFirst
    <2>3. CASE ~updating[t]
        BY <1>4, <2>2, <2>3
    <2>4. CASE InsertIntoFull(t, c) /\ updating[t]
        <3>1. pc[t] # "relock" /\ call[t].op = "InsertRecord" /\ TotNoOfRecords >= MaxRecords
            BY <1>1, <2>2, <2>4 DEF InsertIntoFull, Starts, ControlOK, UpdateStage
        <3> QED BY <1>1, <2>2, <3>1 DEF LoneOK, Lone
    <2>5. CASE (InsertRecord(t, c) \/ SearchOnKey2(t, c) \/ SearchFirst(t, c)) /\ updating[t]
        <3>1. UNCHANGED ret /\ pc[t] # "relock"
            BY <1>1, <2>5 DEF InsertRecord, SearchOnKey2, SearchFirst, Starts, ControlOK, UpdateStage
        <3>2. UNCHANGED call /\ pc'[t] # "relock"
            BY <1>1, <2>2, <2>5 DEF InsertRecord, SearchOnKey2, SearchFirst, Search
        <3> QED BY <1>3, <2>2, <3>1, <3>2
    <2> QED BY <2>1, <2>3, <2>4, <2>5
<1>6. CASE Iterates(t)
    <2>1. UNCHANGED <<tableVars, call, updating, ret, disturbed>> /\ pc[t] # "relock"
        BY <1>6 DEF Iterates, BinInsertIteration, BinSearchIteration
    <2>2. pc'[t] # "relock"
        BY <1>1, <1>6 DEF Iterates, BinInsertIteration, BinSearchIteration, Loops
    <2> QED BY <1>3, <2>1, <2>2
<1>7. ASSUME updating[t], ~disturbed[t], pc[t] \in {"placed", "searched"}
      PROVE  /\ call[t] \in AnyCall
             /\ call[t].op = "DeleteRecord" => Present(t)
             /\ call[t].op = "InsertRecord" => ~Present(t) /\ TotNoOfRecords < MaxRecords
             /\ Primary \in SortingCriteria
    BY <1>1, <1>7 DEF ControlOK, LoneOK, Lone, OutcomeOK
<1>8. CASE InsertCommits(t)
    <2>1. call[t].data # NoData /\ pc[t] = "placed" /\ UNCHANGED updating
        BY <1>8 DEF InsertCommits, After, Inserts
    <2>2. CASE updating[t]
        <3>1. /\ ret' = [ret EXCEPT ![t] = TRUE] /\ call' = [call EXCEPT ![t].op = "UpdateRecord"]
              /\ pc' = [pc EXCEPT ![t] = "relock"]
            BY <1>8, <2>2 DEF InsertCommits, InsertReturns, GoOn
        <3>2. call[t] \in AnyCall
            BY <1>1, <2>1 DEF ControlOK
        <3>3. call'[t].data = call[t].data /\ pc'[t] = "relock" /\ ret'[t]
            BY <1>1, <3>1, <3>2 DEF AnyCall
        <3> QED BY <2>1, <3>3 DEF Lone
    <2> QED BY <1>4, <2>1, <2>2
<1>9. CASE InsertRefused(t)
    <2>1. /\ pc[t] = "placed" /\ call[t].op = "InsertRecord" /\ ~Inserts(call[t])
          /\ UNCHANGED <<updating, disturbed>>
        BY <1>9 DEF InsertRefused, After
    <2>2. CASE updating[t] /\ ~disturbed[t]
        <3>1. /\ ret' = [ret EXCEPT ![t] = FALSE] /\ call' = [call EXCEPT ![t].op = "UpdateRecord"]
              /\ pc' = [pc EXCEPT ![t] = "relock"]
            BY <1>9, <2>2 DEF InsertRefused, InsertReturns, GoOn
        <3>2. call[t] \in AnyCall /\ ~Present(t) /\ TotNoOfRecords < MaxRecords /\ Primary \in SortingCriteria
            BY <1>7, <2>1, <2>2
        <3>3. index # INVALID_INDEX
            BY <2>1, <3>2 DEF OutcomeOK, Outcome
        <3>4. ~Exhausted
            BY <1>1, <3>2, RoomInPool, HeadOfIntact DEF Exhausted, Elements, POOL_TERMINAL
        <3>5. call[t].data = NoData
            BY <2>1, <3>3, <3>4 DEF Inserts
        <3>6. call'[t].data = call[t].data /\ pc'[t] = "relock" /\ ~ret'[t]
            BY <1>1, <3>1, <3>2 DEF AnyCall
        <3> QED BY <3>5, <3>6 DEF Lone
    <2> QED BY <1>4, <2>1, <2>2 DEF Lone
<1>10. CASE DeleteCommits(t)
    <2>1. /\ pc[t] = "searched" /\ call[t].op = "DeleteRecord" /\ UNCHANGED updating
          /\ Found(t) /\ call[t] \in AnyCall
        BY <1>1, <1>10 DEF DeleteCommits, After, SearchOK, ResultSound, ControlOK
    <2>2. CASE updating[t]
        <3>1. call' = [call EXCEPT ![t].op = "InsertRecord"] /\ pc' = [pc EXCEPT ![t] = "enter"]
            BY <1>10, <2>2 DEF DeleteCommits, DeleteReturns, GoOn
        <3>2. call'[t].op = "InsertRecord" /\ call'[t].key = call[t].key /\ pc'[t] = "enter"
            BY <1>1, <2>1, <3>1 DEF AnyCall
        <3>3. /\ TotNoOfRecords' < MaxRecords
              /\ \A i \in Slots' : CompareKeys(SortingCriteria, call[t].key, RecordAt(i)'.key) # EqualKey
            BY <1>1, <1>10, <2>1, DeletedIsGone
        <3>4. TotNoOfRecords' \in Nat
            BY <1>1, <1>10, <2>1 DEF DeleteCommits, Found, Slots
        <3>5. ~Present(t)'
            BY <3>2, <3>3, <3>4 DEF Present, Compare, CriteriaOf, Slots
        <3> QED BY <3>2, <3>3, <3>5 DEF Lone
    <2> QED BY <1>4, <2>1, <2>2
<1>11. CASE DeleteNotFound(t)
    <2>1. /\ pc[t] = "searched" /\ call[t].op = "DeleteRecord" /\ index = INVALID_INDEX
          /\ UNCHANGED <<updating, disturbed>>
        BY <1>11 DEF DeleteNotFound, After
    <2>2. ~Present(t)
        BY <2>1 DEF OutcomeOK, Outcome
    <2> QED BY <1>7, <2>1, <2>2 DEF Lone
<1>12. CASE UpdateFound(t)
    <2>1. /\ pc[t] = "searched" /\ call[t].op = "UpdateRecord" /\ UNCHANGED tableVars
          /\ Found(t) /\ call[t] \in AnyCall
        BY <1>1, <1>12 DEF UpdateFound, After, SearchOK, ResultSound, ControlOK
    <2>2. call' = [call EXCEPT ![t].op = "DeleteRecord"] /\ pc' = [pc EXCEPT ![t] = "enter"]
        BY <1>12 DEF UpdateFound, GoOn
    <2>3. call'[t].op = "DeleteRecord" /\ call'[t].key = call[t].key /\ pc'[t] = "enter"
        BY <1>1, <2>1, <2>2 DEF AnyCall
    <2>4. Present(t)'
        BY <1>2, <2>1, <2>3 DEF Present, Found, CriteriaOf
    <2> QED BY <2>3, <2>4 DEF Lone
<1>13. CASE \/ UpdateNotFound(t) \/ QueryReturns(t) \/ SearchReturns(t) \/ PrefixReturns(t)
            \/ Key2Returns(t) \/ Key2SearchesAgain(t)
    <2>1. UNCHANGED updating
        BY <1>13 DEF UpdateNotFound, QueryReturns, SearchReturns, PrefixReturns, Key2Returns,
                     Key2SearchesAgain
    <2>2. pc[t] \in {"placed", "searched"} /\ call[t].op \notin {"DeleteRecord", "InsertRecord"}
        BY <1>13 DEF UpdateNotFound, QueryReturns, SearchReturns, PrefixReturns, Key2Returns,
                     Key2SearchesAgain, After
    <2>3. ~updating[t]
        BY <1>1, <2>2 DEF ControlOK, UpdateStage
    <2> QED BY <1>4, <2>1, <2>3
<1>14. CASE UpdateReturns(t)
    BY <1>1, <1>4, <1>14 DEF UpdateReturns
<1>15. CASE ClearTable(t) \/ \E i : QueryOnIndex(t, i)
    <2>1. pc[t] = "idle" /\ UNCHANGED updating
        BY <1>15 DEF ClearTable, QueryOnIndex
    <2>2. ~updating[t]
        BY <1>1, <2>1 DEF ControlOK, UpdateStage
    <2> QED BY <1>4, <2>1, <2>2
<1> QED BY <1>5, <1>6, <1>8, <1>9, <1>10, <1>11, <1>12, <1>13, <1>14, <1>15 DEF Leaves, Whole

\* No step breaks the stages of an undisturbed update.
LEMMA NextLone == IInv /\ OutcomeOK /\ LoneOK /\ [Next]_vars => LoneOK'
<1> SUFFICES ASSUME IInv, OutcomeOK, LoneOK, [Next]_vars PROVE LoneOK'
    OBVIOUS
<1>1. ASSUME NEW t \in Threads, Enters(t) \/ Iterates(t) \/ Leaves(t) \/ Whole(t) PROVE LoneOK'
    <2>1. ControlOK /\ ControlTypeOK
        BY DEF IInv, ControlOK
    <2>2. Lone(t)'
        BY <1>1, LoneSelf
    <2> QED BY <1>1, <2>1, <2>2, OthersStay, LoneStep
<1>2. ASSUME UNCHANGED vars PROVE LoneOK'
    BY <1>2 DEF LoneOK, Lone, Present, Compare, RecordAt, CriteriaOf, Slots, vars
<1> QED BY <1>1, <1>2 DEF Next

-----------------------------------------------------------------------------
(***************************************************************************)
(* Answers.                                                                *)
(***************************************************************************)

\* What the answer to a call must say of the positions it is about.
Exact(c, ok, from, to, data) ==
    /\ ok <=> Hits(c) # {}
    /\ ok /\ c.op = "QueryOnKey" => \E i \in Hits(c) : Hits(c) = {i} /\ RecordAt(i).data = data
    /\ ok /\ c.op = "SearchOnKey2" =>
          /\ from \in Hits(c)
          /\ \A i \in Hits(c) : IF c.arg = Greater THEN i <= from ELSE i >= from
    /\ ok /\ c.op \notin {"QueryOnKey", "SearchOnKey2"} => Hits(c) = from .. to

\* Thread t's call answers, exactly, with a range of positions or with none.
AnswersRange(t) ==
    \E ok \in BOOLEAN : \E from, to :
        /\ Reply(t, call[t], ok, from, to, NoData)
        /\ Exact(call[t], ok, from, to, NoData)
        /\ from \in Int /\ to \in Int
        /\ ~ok => from = 0 /\ to = 0
        /\ call[t].op = "SearchOnKey2" => from = to

\* Such an answer is exact when it is given, the table being what it was.
LEMMA ReplyIsExact ==
    ASSUME NEW t, NEW c, NEW ok \in BOOLEAN, NEW from, NEW to, NEW data,
           Reply(t, c, ok, from, to, data), Exact(c, ok, from, to, data), UNCHANGED tableVars
    PROVE  AnswersExact'
<1>1. /\ answer'.op = c.op /\ answer'.key = c.key /\ answer'.arg = c.arg /\ answer'.ok = ok
      /\ answer'.from = from /\ answer'.to = to /\ answer'.data = data
    BY DEF Reply
<1>2. /\ Slots' = Slots /\ \A i : RecordAt(i)' = RecordAt(i)
      /\ \A C, k, i : Compare(C, k, i)' = Compare(C, k, i)
    BY DEF tableVars, Slots, RecordAt, Compare
<1>3. CriteriaOf(answer)' = CriteriaOf(c)
    BY <1>1 DEF CriteriaOf
<1>4. Hits(answer)' = Hits(c)
    BY <1>1, <1>2, <1>3 DEF Hits
<1> QED BY <1>1, <1>2, <1>4 DEF AnswersExact, Exact

\* Some natural numbers have a least one.
LEMMA LeastOf ==
    ASSUME NEW S, S \subseteq Nat, S # {}
    PROVE  \E x \in S : \A y \in S : x =< y
<1> DEFINE R == {p \in Nat \X Nat : p[1] < p[2]}
<1>1. IsWellFoundedOn(R, Nat)
    BY NatLessThanWellFounded DEF OpToRel
<1>2. \A x, y \in Nat : y < x => <<y, x>> \in R
    OBVIOUS
<1> HIDE DEF R
<1>3. PICK x \in S : \A y \in S : <<y, x>> \notin R
    BY <1>1, WFMin
<1>4. \A y \in S : ~ (y < x) /\ x \in Nat /\ y \in Nat
    BY <1>2, <1>3
<1> QED BY <1>4

\* The walks of PrefixReturns from i come to a stop.
LEMMA WalksStop ==
    ASSUME NEW A, NEW last \in Nat, NEW i \in 0 .. last
    PROVE  /\ \E f \in 0 .. i : (\A j \in f .. i - 1 : j \in A) /\ (f = 0 \/ f - 1 \notin A)
           /\ \E e \in i .. last : (\A j \in i + 1 .. e : j \in A) /\ (e = last \/ e + 1 \notin A)
<1>1. \E f \in 0 .. i : (\A j \in f .. i - 1 : j \in A) /\ (f = 0 \/ f - 1 \notin A)
    <2> DEFINE S == {f \in 0 .. i : \A j \in f .. i - 1 : j \in A}
    <2>1. i \in S /\ S \subseteq Nat
        OBVIOUS
    <2>2. PICK f \in S : \A y \in S : f =< y
        <3> HIDE DEF S
        <3> QED BY <2>1, LeastOf
    <2>3. ASSUME f # 0 PROVE f - 1 \notin A
        <3>1. f - 1 \notin S /\ f - 1 \in 0 .. i
            BY <2>2, <2>3
        <3>2. PICK j \in f - 1 .. i - 1 : j \notin A
            BY <3>1
        <3> QED BY <2>2, <3>2
    <2> QED BY <2>2, <2>3
<1>2. \E e \in i .. last : (\A j \in i + 1 .. e : j \in A) /\ (e = last \/ e + 1 \notin A)
    <2> DEFINE S == {n \in 0 .. last - i : \A j \in i + 1 .. last - n : j \in A}
    <2>1. last - i \in S /\ S \subseteq Nat
        OBVIOUS
    <2>2. PICK n \in S : \A y \in S : n =< y
        <3> HIDE DEF S
        <3> QED BY <2>1, LeastOf
    <2>3. ASSUME n # 0 PROVE (last - n) + 1 \notin A
        <3>1. n - 1 \notin S /\ n - 1 \in 0 .. last - i
            BY <2>2, <2>3
        <3>2. PICK j \in i + 1 .. last - (n - 1) : j \notin A
            BY <3>1
        <3> QED BY <2>2, <2>3, <3>2
    <2>4. last - n \in i .. last /\ \A j \in i + 1 .. last - n : j \in A
        BY <2>2
    <2> QED BY <2>2, <2>3, <2>4
<1> QED BY <1>1, <1>2

\* What an ended bisection of mBinSearch tells of the records.
LEMMA Searched ==
    ASSUME IInv, OutcomeOK, NEW t \in Threads, pc[t] = "searched"
    PROVE  /\ call[t] \in AnyCall
           /\ index # INVALID_INDEX => Found(t)
           /\ index = INVALID_INDEX => ~Present(t)
           /\ call[t].op = "SearchOnKey2" /\ TotNoOfRecords > 0 => Present(t)
           /\ call[t].op = "SearchOnPrefix" => call[t].arg \in 1 .. 3
BY DEF IInv, ControlOK, SearchOK, ResultSound, OutcomeOK, Outcome

\* QueryOnKey and SearchOnKey find the one record with the key.
LEMMA OneHit ==
    ASSUME IInv, OutcomeOK, NEW t \in Threads, pc[t] = "searched",
           call[t].op \in {"QueryOnKey", "SearchOnKey"}
    PROVE  Hits(call[t]) = IF index = INVALID_INDEX THEN {} ELSE {index}
<1> DEFINE c == call[t]
<1>1. CriteriaOf(c) = SortingCriteria /\ Hits(c) = {i \in Slots : Compare(CriteriaOf(c), c.key, i) = EqualKey}
    BY DEF CriteriaOf, Hits
<1>2. CASE index = INVALID_INDEX
    BY <1>1, <1>2, Searched DEF Present
<1>3. CASE index # INVALID_INDEX
    <2>1. Found(t) /\ c \in AnyCall /\ TableOK
        BY <1>3, Searched DEF IInv
    <2>2. \A i \in Slots : Compare(CriteriaOf(c), c.key, i) = EqualKey <=> i = index
        BY <1>1, <2>1, OneRecord DEF Found
    <2> QED BY <1>1, <1>3, <2>1, <2>2 DEF Found
<1> QED BY <1>2, <1>3

\* A query answers with the record of its key, found if there is one.
LEMMA QueryIsExact ==
    ASSUME IInv, OutcomeOK, NEW t \in Threads, QueryReturns(t)
    PROVE  AnswersExact'
<1> DEFINE c == call[t]
<1>1. pc[t] = "searched" /\ c.op = "QueryOnKey" /\ UNCHANGED tableVars
    BY DEF QueryReturns, After
<1>2. Hits(c) = IF index = INVALID_INDEX THEN {} ELSE {index}
    BY <1>1, OneHit
<1>3. CASE index # INVALID_INDEX
    <2>1. Reply(t, c, TRUE, 0, 0, RecordAt(index).data)
        BY <1>3 DEF QueryReturns
    <2>2. Exact(c, TRUE, 0, 0, RecordAt(index).data)
        BY <1>1, <1>2, <1>3 DEF Exact
    <2> QED BY <1>1, <2>1, <2>2, ReplyIsExact
<1>4. CASE index = INVALID_INDEX
    <2>1. Reply(t, c, FALSE, 0, 0, NoData) /\ Exact(c, FALSE, 0, 0, NoData)
        BY <1>2, <1>4 DEF QueryReturns, Fails, Exact
    <2> QED BY <1>1, <2>1, ReplyIsExact
<1> QED BY <1>3, <1>4

\* A search for a key answers with the position of its record.
LEMMA SearchIsExact ==
    ASSUME IInv, OutcomeOK, NEW t \in Threads, SearchReturns(t)
    PROVE  AnswersExact'
<1> DEFINE c == call[t]
<1>1. pc[t] = "searched" /\ c.op = "SearchOnKey" /\ UNCHANGED tableVars
    BY DEF SearchReturns, After
<1>2. Hits(c) = IF index = INVALID_INDEX THEN {} ELSE {index}
    BY <1>1, OneHit
<1>3. CASE index # INVALID_INDEX
    <2>1. Reply(t, c, TRUE, index, index, NoData)
        BY <1>3 DEF SearchReturns
    <2>2. index \in Int
        BY ConstantsOK DEF IInv, SearchOK, LocalsTypeOK
    <2>3. index .. index = {index}
        BY <2>2
    <2>4. Exact(c, TRUE, index, index, NoData)
        BY <1>1, <1>2, <1>3, <2>3 DEF Exact
    <2> QED BY <1>1, <2>1, <2>4, ReplyIsExact
<1>4. CASE index = INVALID_INDEX
    <2>1. Reply(t, c, FALSE, 0, 0, NoData) /\ Exact(c, FALSE, 0, 0, NoData)
        BY <1>2, <1>4 DEF SearchReturns, Fails, Exact
    <2> QED BY <1>1, <2>1, ReplyIsExact
<1> QED BY <1>3, <1>4

(***************************************************************************)
(* The walks of the SearchOnPrimary... methods cover the records equal for *)
(* the search: they are next to each other, and besides the one found      *)
(* they are those that agree on the key levels.                            *)
(***************************************************************************)
LEMMA PrefixAnswers ==
    ASSUME IInv, OutcomeOK, NEW t \in Threads, PrefixReturns(t)
    PROVE  AnswersRange(t)
<1> USE ConstantsOK
<1> DEFINE c == call[t]
           At(i) == Compare(CriteriaOf(c), c.key, i)
           Agrees(i) == AgreesAt(c.key, c.arg, i)
           from == CHOOSE f \in 0 .. index :
                     (\A i \in f .. index - 1 : Agrees(i)) /\ (f = 0 \/ ~Agrees(f - 1))
           to   == CHOOSE e \in index .. TotNoOfRecords - 1 :
                     /\ \A i \in index + 1 .. e : Agrees(i)
                     /\ e = TotNoOfRecords - 1 \/ ~Agrees(e + 1)
<1>1. /\ pc[t] = "searched" /\ c.op = "SearchOnPrefix" /\ UNCHANGED tableVars
      /\ IF index # INVALID_INDEX THEN Reply(t, c, TRUE, from, to, NoData) ELSE Fails(t, c)
    BY DEF PrefixReturns, After
<1>2. /\ TableOK /\ c \in AnyCall /\ c.key \in AllKeys /\ c.arg \in 1 .. 3 /\ TotNoOfRecords \in Nat
      /\ CriteriaOf(c) = SortingCriteria \cap 1 .. c.arg
    BY <1>1, Searched DEF IInv, AnyCall, CriteriaOf, TableOK, TableTypeOK
<1>3. Hits(c) = {i \in Slots : At(i) = EqualKey}
    BY <1>1 DEF Hits
<1>4. CASE index = INVALID_INDEX
    <2>1. ~Present(t)
        BY <1>1, <1>4, Searched
    <2>2. Reply(t, c, FALSE, 0, 0, NoData) /\ Exact(c, FALSE, 0, 0, NoData)
        BY <1>1, <1>3, <1>4, <2>1 DEF Fails, Exact, Present
    <2>3. 0 \in Int
        OBVIOUS
    <2> QED BY <2>2, <2>3, Zenon DEF AnswersRange
<1>5. CASE index # INVALID_INDEX
    <2>1. index \in Slots /\ At(index) = EqualKey /\ index \in Nat /\ index =< TotNoOfRecords - 1
        <3>1. Found(t)
            BY <1>1, <1>5, Searched
        <3> QED BY <1>2, <3>1 DEF Found, Slots
    <2>2. ASSUME NEW i \in Slots
          PROVE  /\ Agrees(i) => At(i) = EqualKey
                 /\ At(i) = EqualKey /\ i # index => Agrees(i)
        <3>1. RecordAt(i).key \in AllKeys /\ RecordAt(index).key \in AllKeys
            BY <1>2, <2>1 DEF TableOK, Record
        <3>2. /\ At(i) = CompareKeys(SortingCriteria \cap 1 .. c.arg, c.key, RecordAt(i).key)
              /\ At(index) = CompareKeys(SortingCriteria \cap 1 .. c.arg, c.key, RecordAt(index).key)
            BY <1>2, <2>1 DEF Compare, Slots
        <3>3. i # index => \/ CompareKeys(SortingCriteria, RecordAt(i).key, RecordAt(index).key) = BiggerKey
                           \/ CompareKeys(SortingCriteria, RecordAt(index).key, RecordAt(i).key) = BiggerKey
            BY <1>2, <2>1 DEF TableOK, StrictlySorted, Slots
        <3> HIDE DEF c, At
        <3>4. SortingCriteria \in SUBSET Levels
            OBVIOUS
        <3>5. Agrees(i) => At(i) = EqualKey
            <4> SUFFICES ASSUME Agrees(i)
                         PROVE  CompareKeys(SortingCriteria \cap 1 .. c.arg, c.key, RecordAt(i).key) = EqualKey
                BY <3>2
            <4>1. \A l \in 1 .. c.arg : c.key[l] = RecordAt(i).key[l]
                BY DEF AgreesAt
            <4> QED BY <1>2, <3>1, <3>4, <4>1, AgreementIsEquality
        <3>6. At(i) = EqualKey /\ i # index => Agrees(i)
            <4> SUFFICES ASSUME At(i) = EqualKey, i # index
                         PROVE  \A l \in 1 .. c.arg : c.key[l] = RecordAt(i).key[l]
                BY DEF AgreesAt
            <4> DEFINE n == c.arg
                       D == SortingCriteria \cap 1 .. n
                       k == c.key
                       a == RecordAt(i).key
                       b == RecordAt(index).key
            <4>1. k \in AllKeys /\ a \in AllKeys /\ b \in AllKeys /\ n \in 1 .. 3
                BY <1>2, <3>1
            <4>2. CompareKeys(D, k, a) = EqualKey /\ CompareKeys(D, k, b) = EqualKey
                BY <2>1, <3>2
            <4>3. CompareKeys(SortingCriteria, a, b) = BiggerKey \/ CompareKeys(SortingCriteria, b, a) = BiggerKey
                BY <3>3
            <4>4. D = SortingCriteria \cap 1 .. n
                OBVIOUS
            <4> HIDE DEF n, k, a, b, D
            <4>5. \A l \in 1 .. n : k[l] = a[l]
                BY <3>4, <4>1, <4>2, <4>3, <4>4, EqualityIsAgreement
            <4> QED BY <4>5 DEF n, k, a
        <3> QED BY <3>5, <3>6
    <2>3. ASSUME NEW i \in Slots, NEW j \in Slots, At(i) = EqualKey,
                 \/ i <= j /\ j <= index
                 \/ index <= j /\ j <= i
          PROVE  At(j) = EqualKey
        <3>1. /\ At(j) \in {SmallerKey, EqualKey, BiggerKey}
              /\ At(j) = SmallerKey => \A k \in 0 .. j : At(k) = SmallerKey
              /\ At(j) = BiggerKey => \A k \in j .. TotNoOfRecords - 1 : At(k) = BiggerKey
            BY <1>2, ComparisonsAscend
        <3>2. i \in Nat /\ j \in Nat /\ i =< TotNoOfRecords - 1
            BY <1>2 DEF Slots
        <3>3. (i \in 0 .. j \/ index \in 0 .. j) /\ (i \in j .. TotNoOfRecords - 1 \/ index \in j .. TotNoOfRecords - 1)
            BY <1>2, <2>1, <2>3, <3>2
        <3> HIDE DEF At
        <3> QED BY <2>1, <2>3, <3>1, <3>3 DEF SmallerKey, EqualKey, BiggerKey
    <2>4. /\ from \in 0 .. index /\ (\A i \in from .. index - 1 : Agrees(i))
          /\ from = 0 \/ ~Agrees(from - 1)
          /\ to \in index .. TotNoOfRecords - 1 /\ (\A i \in index + 1 .. to : Agrees(i))
          /\ to = TotNoOfRecords - 1 \/ ~Agrees(to + 1)
        <3> DEFINE A == {i \in Slots : Agrees(i)}
        <3>1. /\ \E f \in 0 .. index : (\A j \in f .. index - 1 : j \in A) /\ (f = 0 \/ f - 1 \notin A)
              /\ \E e \in index .. TotNoOfRecords - 1 :
                    (\A j \in index + 1 .. e : j \in A) /\ (e = TotNoOfRecords - 1 \/ e + 1 \notin A)
            <4> HIDE DEF A
            <4>1. TotNoOfRecords - 1 \in Nat /\ index \in 0 .. TotNoOfRecords - 1
                BY <1>2, <2>1
            <4> QED BY <4>1, WalksStop
        <3> HIDE DEF Agrees
        <3>2. \E f \in 0 .. index : (\A j \in f .. index - 1 : Agrees(j)) /\ (f = 0 \/ ~Agrees(f - 1))
            <4>1. PICK f \in 0 .. index : (\A j \in f .. index - 1 : j \in A) /\ (f = 0 \/ f - 1 \notin A)
                BY <3>1
            <4>2. f # 0 => f - 1 \in Slots
                BY <1>2, <2>1 DEF Slots
            <4> QED BY <4>1, <4>2
        <3>3. \E e \in index .. TotNoOfRecords - 1 :
                 (\A j \in index + 1 .. e : Agrees(j)) /\ (e = TotNoOfRecords - 1 \/ ~Agrees(e + 1))
            <4>1. PICK e \in index .. TotNoOfRecords - 1 :
                     (\A j \in index + 1 .. e : j \in A) /\ (e = TotNoOfRecords - 1 \/ e + 1 \notin A)
                BY <3>1
            <4>2. e # TotNoOfRecords - 1 => e + 1 \in Slots
                BY <1>2, <2>1 DEF Slots
            <4> QED BY <4>1, <4>2
        <3> QED BY <3>2, <3>3
    <2> HIDE DEF from, to, Agrees, At
    <2>5. ASSUME NEW i \in from .. to PROVE i \in Slots /\ At(i) = EqualKey
        <3>1. i \in Slots
            BY <1>2, <2>4 DEF Slots
        <3>2. i \in from .. index - 1 \/ i = index \/ i \in index + 1 .. to
            BY <2>1, <2>4
        <3> QED BY <2>1, <2>2, <2>4, <3>1, <3>2
    <2>6. ASSUME NEW i \in Slots, At(i) = EqualKey PROVE i \in from .. to
        <3>0. i \in Nat /\ i =< TotNoOfRecords - 1
            BY <1>2 DEF Slots
        <3>1. ASSUME i < from PROVE FALSE
            <4>1. from - 1 \in Slots /\ i <= from - 1 /\ from - 1 <= index /\ from - 1 # index /\ from # 0
                BY <1>2, <2>1, <2>4, <3>0, <3>1 DEF Slots
            <4> QED BY <2>2, <2>3, <2>4, <2>6, <4>1
        <3>2. ASSUME i > to PROVE FALSE
            <4>1. /\ to + 1 \in Slots /\ to + 1 <= i /\ index <= to + 1 /\ to + 1 # index
                  /\ to # TotNoOfRecords - 1
                BY <1>2, <2>1, <2>4, <3>0, <3>2 DEF Slots
            <4> QED BY <2>2, <2>3, <2>4, <2>6, <4>1
        <3> QED BY <2>4, <3>0, <3>1, <3>2
    <2>7. Hits(c) = from .. to
        BY <1>3, <2>5, <2>6
    <2>8. index \in Hits(c)
        BY <1>3, <2>1
    <2>9. Exact(c, TRUE, from, to, NoData)
        BY <1>1, <2>7, <2>8 DEF Exact
    <2>10. from \in Int /\ to \in Int
        BY <1>2, <2>1, <2>4
    <2> QED BY <1>1, <1>5, <2>9, <2>10 DEF AnswersRange
<1> QED BY <1>4, <1>5

\* So the walks answer exactly.
LEMMA PrefixIsExact ==
    ASSUME IInv, OutcomeOK, NEW t \in Threads, PrefixReturns(t)
    PROVE  AnswersExact'
<1>1. UNCHANGED tableVars
    BY DEF PrefixReturns
<1>2. AnswersRange(t)
    BY PrefixAnswers
<1>3. PICK ok \in BOOLEAN : \E from, to :
            Reply(t, call[t], ok, from, to, NoData) /\ Exact(call[t], ok, from, to, NoData)
    BY <1>2 DEF AnswersRange
<1>4. PICK from, to : Reply(t, call[t], ok, from, to, NoData) /\ Exact(call[t], ok, from, to, NoData)
    BY <1>3
<1> DEFINE c == call[t]
<1>5. Reply(t, c, ok, from, to, NoData) /\ Exact(c, ok, from, to, NoData)
    BY <1>4
<1> HIDE DEF c
<1> QED BY <1>1, <1>5, ReplyIsExact

(***************************************************************************)
(* SearchOnKey2 answers from the insertion position, with records not      *)
(* smaller than the key below it and records not bigger from it on, or     *)
(* from the record of the key itself.                                      *)
(***************************************************************************)
LEMMA Key2Answers ==
    ASSUME IInv, OutcomeOK, NEW t \in Threads, Key2Returns(t)
    PROVE  AnswersRange(t)
<1> USE ConstantsOK
<1> DEFINE c == call[t]
           At(i) == Compare(CriteriaOf(c), c.key, i)
           result == IF pc[t] = "placed"
                     THEN IF c.arg = Greater THEN index - 1 ELSE index
                     ELSE IF index # INVALID_INDEX THEN index
                          ELSE IF c.arg = Greater THEN index - 1 ELSE index + 1
<1>1. /\ c.op = "SearchOnKey2" /\ UNCHANGED tableVars
      /\ pc[t] = "searched" \/ (pc[t] = "placed" /\ index # INVALID_INDEX)
      /\ IF result \in 0 .. TotNoOfRecords - 1
         THEN Reply(t, c, TRUE, result, result, NoData) ELSE Fails(t, c)
    BY DEF Key2Returns, After
<1>2. /\ TableOK /\ c \in AnyCall /\ TotNoOfRecords \in Nat /\ index \in Int
      /\ CriteriaOf(c) = SortingCriteria
    BY <1>1 DEF IInv, ControlOK, SearchOK, LocalsTypeOK, CriteriaOf, TableOK, TableTypeOK
<1>3. Hits(c) = {i \in Slots : IF c.arg = Greater THEN At(i) # BiggerKey ELSE At(i) # SmallerKey}
    BY <1>1 DEF Hits
<1>4. \/ /\ result \in Hits(c)
         /\ \A i \in Hits(c) : IF c.arg = Greater THEN i <= result ELSE i >= result
      \/ result \notin Slots /\ Hits(c) = {}
    <2>1. CASE pc[t] = "placed"
        <3>1. Position(t) /\ result = IF c.arg = Greater THEN index - 1 ELSE index
            BY <1>1, <2>1 DEF IInv, SearchOK, ResultSound
        <3>2. /\ index \in 0 .. TotNoOfRecords
              /\ \A i \in Slots : At(i) = IF i < index THEN SmallerKey ELSE BiggerKey
            BY <1>2, <3>1 DEF Position, Slots
        <3> HIDE DEF At, result
        <3>3. \A i \in Slots : i \in Hits(c) <=> IF c.arg = Greater THEN i < index ELSE i >= index
            BY <1>2, <1>3, <3>2 DEF SmallerKey, BiggerKey, Slots
        <3>4. Hits(c) \subseteq Slots /\ \A i \in Slots : i \in Nat /\ i < TotNoOfRecords
            BY <1>2, <1>3 DEF Slots
        <3>5. CASE c.arg = Greater
            <4>1. result = index - 1 /\ (index # 0 => result \in Slots)
                BY <1>2, <3>1, <3>2, <3>5 DEF Slots
            <4> QED BY <1>2, <3>2, <3>3, <3>4, <3>5, <4>1
        <3>6. CASE c.arg # Greater
            <4>1. result = index /\ (index # TotNoOfRecords => result \in Slots)
                BY <1>2, <3>1, <3>2, <3>6 DEF Slots
            <4> QED BY <1>2, <3>2, <3>3, <3>4, <3>6, <4>1
        <3> QED BY <3>5, <3>6
    <2>2. CASE pc[t] # "placed" /\ index # INVALID_INDEX
        <3>1. index \in Slots /\ At(index) = EqualKey /\ result = index
            BY <1>1, <2>2, Searched DEF Found
        <3>2. ASSUME NEW i \in Slots
              PROVE  /\ At(i) \in {SmallerKey, EqualKey, BiggerKey}
                     /\ At(i) = EqualKey => i = index
                     /\ At(i) = SmallerKey => i < index
                     /\ At(i) = BiggerKey => i > index
            <4>1. /\ At(i) \in {SmallerKey, EqualKey, BiggerKey}
                  /\ At(i) = SmallerKey => \A j \in 0 .. i : At(j) = SmallerKey
                  /\ At(i) = BiggerKey => \A j \in i .. TotNoOfRecords - 1 : At(j) = BiggerKey
                BY <1>2, ComparisonsAscend
            <4>2. At(i) = EqualKey => i = index
                BY <1>2, <3>1, OneRecord
            <4>3. index \notin 0 .. i => i < index
                BY <1>2, <3>1 DEF Slots
            <4>4. index \notin i .. TotNoOfRecords - 1 => i > index
                BY <1>2, <3>1 DEF Slots
            <4> HIDE DEF At
            <4> QED BY <3>1, <4>1, <4>2, <4>3, <4>4 DEF SmallerKey, EqualKey, BiggerKey
        <3>3. \A i \in Slots : i \in Nat
            BY <1>2 DEF Slots
        <3> HIDE DEF At, result
        <3>4. result \in Hits(c)
            BY <1>3, <3>1 DEF SmallerKey, EqualKey, BiggerKey
        <3>5. ASSUME NEW i \in Hits(c)
              PROVE  IF c.arg = Greater THEN i <= result ELSE i >= result
            <4>1. i \in Slots /\ i \in Nat /\ index \in Nat
                BY <1>3, <3>1, <3>3
            <4>2. IF c.arg = Greater THEN At(i) # BiggerKey ELSE At(i) # SmallerKey
                BY <1>3
            <4> QED BY <3>1, <3>2, <4>1, <4>2
        <3> QED BY <3>4, <3>5
    <2>3. CASE pc[t] # "placed" /\ index = INVALID_INDEX
        <3>1. TotNoOfRecords = 0
            BY <1>1, <1>2, <2>3, Searched
        <3> QED BY <1>3, <3>1 DEF Slots
    <2> QED BY <2>1, <2>2, <2>3
<1> HIDE DEF result
<1>5. CASE result \in Slots
    <2>1. Reply(t, c, TRUE, result, result, NoData)
        BY <1>1, <1>5 DEF Slots
    <2>2. Exact(c, TRUE, result, result, NoData)
        BY <1>1, <1>4, <1>5 DEF Exact
    <2>3. result \in Int
        BY <1>2, <1>5 DEF Slots
    <2> QED BY <2>1, <2>2, <2>3 DEF AnswersRange
<1>6. CASE result \notin Slots
    <2>1. Reply(t, c, FALSE, 0, 0, NoData)
        BY <1>1, <1>6 DEF Slots, Fails
    <2>2. Hits(c) = {}
        BY <1>3, <1>4, <1>6
    <2>3. Exact(c, FALSE, 0, 0, NoData)
        BY <2>2 DEF Exact
    <2>4. 0 \in Int
        OBVIOUS
    <2> QED BY <2>1, <2>3, <2>4, Zenon DEF AnswersRange
<1> QED BY <1>5, <1>6

\* So does SearchOnKey2.
LEMMA Key2IsExact ==
    ASSUME IInv, OutcomeOK, NEW t \in Threads, Key2Returns(t)
    PROVE  AnswersExact'
<1>1. UNCHANGED tableVars
    BY DEF Key2Returns
<1>2. AnswersRange(t)
    BY Key2Answers
<1>3. PICK ok \in BOOLEAN : \E from, to :
            Reply(t, call[t], ok, from, to, NoData) /\ Exact(call[t], ok, from, to, NoData)
    BY <1>2 DEF AnswersRange
<1>4. PICK from, to : Reply(t, call[t], ok, from, to, NoData) /\ Exact(call[t], ok, from, to, NoData)
    BY <1>3
<1> DEFINE c == call[t]
<1>5. Reply(t, c, ok, from, to, NoData) /\ Exact(c, ok, from, to, NoData)
    BY <1>4
<1> HIDE DEF c
<1> QED BY <1>1, <1>5, ReplyIsExact

\* A step that completes none of the four searches keeps the answers exact.
LEMMA NoSearchAnswered ==
    ASSUME \/ answer' = NoAnswer
           \/ answer'.op \notin {"QueryOnKey", "SearchOnKey", "SearchOnKey2", "SearchOnPrefix"}
    PROVE  AnswersExact'
BY DEF AnswersExact

\* Whatever a step answers is exact, the search having been.
LEMMA NextAnswers == IInv /\ OutcomeOK /\ AnswersExact /\ [Next]_vars => AnswersExact'
<1> SUFFICES ASSUME IInv, OutcomeOK, AnswersExact, [Next]_vars PROVE AnswersExact'
    OBVIOUS
<1>1. ASSUME NEW t \in Threads, Enters(t) \/ Iterates(t) PROVE AnswersExact'
    <2>1. CASE Iterates(t)
        BY <2>1, NoSearchAnswered DEF Iterates, BinInsertIteration, BinSearchIteration
    <2>2. CASE Enters(t)
        <3>1. PICK c : InsertRecord(t, c) \/ InsertIntoFull(t, c) \/ SearchOnKey2(t, c) \/ SearchFirst(t, c)
            BY <2>2 DEF Enters
        <3>2. CASE InsertIntoFull(t, c)
            <4>1. \/ answer' = NoAnswer
                  \/ answer'.op = c.op /\ c.op = "InsertRecord"
                BY <3>2 DEF InsertIntoFull, InsertReturns, GoOn, Reply
            <4> QED BY <4>1, NoSearchAnswered
        <3>3. CASE ~InsertIntoFull(t, c)
            BY <3>1, <3>3, NoSearchAnswered DEF InsertRecord, SearchOnKey2, SearchFirst
        <3> QED BY <3>2, <3>3
    <2> QED BY <1>1, <2>1, <2>2
<1>2. ASSUME NEW t \in Threads, Leaves(t) PROVE AnswersExact'
    <2>1. CASE InsertCommits(t) \/ InsertRefused(t)
        <3>1. PICK ok : InsertReturns(t, call[t], ok) /\ call[t].op = "InsertRecord"
            BY <2>1 DEF InsertCommits, InsertRefused, After
        <3>2. answer' = NoAnswer \/ answer'.op = "InsertRecord"
            BY <3>1 DEF InsertReturns, GoOn, Reply
        <3> QED BY <3>2, NoSearchAnswered
    <2>2. CASE DeleteCommits(t) \/ DeleteNotFound(t)
        <3>1. PICK ok : DeleteReturns(t, call[t], ok) /\ call[t].op = "DeleteRecord"
            BY <2>2 DEF DeleteCommits, DeleteNotFound, After
        <3>2. answer' = NoAnswer \/ answer'.op = "DeleteRecord"
            BY <3>1 DEF DeleteReturns, GoOn, Reply
        <3> QED BY <3>2, NoSearchAnswered
    <2>3. CASE UpdateFound(t) \/ UpdateNotFound(t) \/ Key2SearchesAgain(t)
        <3>1. answer' = NoAnswer \/ answer'.op = "UpdateRecord"
            BY <2>3 DEF UpdateFound, UpdateNotFound, Key2SearchesAgain, After, GoOn, Fails, Reply
        <3> QED BY <3>1, NoSearchAnswered
    <2> QED BY <1>2, <2>1, <2>2, <2>3, QueryIsExact, SearchIsExact, PrefixIsExact, Key2IsExact
            DEF Leaves
<1>3. ASSUME NEW t \in Threads, Whole(t) PROVE AnswersExact'
    <2>1. CASE UpdateReturns(t)
        <3>1. answer'.op = "UpdateRecord"
            BY <2>1 DEF UpdateReturns, Reply, OutcomeOK
        <3> QED BY <3>1, NoSearchAnswered
    <2>2. CASE ClearTable(t)
        <3>1. answer'.op = "ClearTable"
            BY <2>2 DEF ClearTable
        <3> QED BY <3>1, NoSearchAnswered
    <2>3. CASE \E i \in 0 .. MaxRecords : QueryOnIndex(t, i)
        <3>1. answer'.op = "QueryOnIndex"
            BY <2>3 DEF QueryOnIndex
        <3> QED BY <3>1, NoSearchAnswered
    <2> QED BY <1>3, <2>1, <2>2, <2>3 DEF Whole
<1>4. ASSUME UNCHANGED vars PROVE AnswersExact'
    <2>1. answer' = answer /\ Slots' = Slots /\ \A i : RecordAt(i)' = RecordAt(i)
        BY <1>4 DEF vars, Slots, RecordAt
    <2>2. \A C, k, i : Compare(C, k, i)' = Compare(C, k, i)
        BY <1>4 DEF vars, Compare, RecordAt
    <2>3. CriteriaOf(answer)' = CriteriaOf(answer)
        BY <2>1 DEF CriteriaOf
    <2>4. Hits(answer)' = Hits(answer)
        BY <2>1, <2>2, <2>3 DEF Hits
    <2> QED BY <2>1, <2>4 DEF AnswersExact
<1> QED BY <1>1, <1>2, <1>3, <1>4 DEF Next

-----------------------------------------------------------------------------
\* Control, table and search are sound in every state of every run of the
\* table: the inductive invariant from which the theorems below follow.
THEOREM TableIsSound == Spec => []IInv
BY InitIInv, NextIInv, PTL DEF Spec

(***************************************************************************)
(* Every variable keeps its type.                                          *)
(***************************************************************************)
THEOREM TableTypeCorrect == Spec => []TypeOK
<1>1. IInv => TypeOK
    BY DEF IInv, ControlOK, ControlTypeOK, TableOK, TableTypeOK, SearchOK, LocalsTypeOK, TypeOK
<1> QED BY <1>1, TableIsSound, PTL

(***************************************************************************)
(* The array and the pool always agree: no record is lost, doubled or      *)
(* freed under the table.                                                  *)
(***************************************************************************)
THEOREM TableNeverLeaks == Spec => []NoLeakNoAlias
<1>1. IInv => NoLeakNoAlias
    BY DEF IInv, TableOK
<1> QED BY <1>1, TableIsSound, PTL

(***************************************************************************)
(* The table never gets the pool's address past the end of Buffers.        *)
(***************************************************************************)
THEOREM TableStaysInside == Spec => []NeverPastEnd
<1>1. IInv => NeverPastEnd
    BY DEF IInv, TableOK
<1> QED BY <1>1, TableIsSound, PTL

(***************************************************************************)
(* The records are always strictly sorted.                                 *)
(***************************************************************************)
THEOREM TableSorted == Spec => []StrictlySorted
<1>1. IInv => StrictlySorted
    BY DEF IInv, TableOK
<1> QED BY <1>1, TableIsSound, PTL

(***************************************************************************)
(* A bisection's window never excludes what it looks for.                  *)
(***************************************************************************)
THEOREM TableWindowsSound == Spec => []WindowSound
<1>1. IInv => WindowSound
    BY DEF IInv, SearchOK
<1> QED BY <1>1, TableIsSound, PTL

-----------------------------------------------------------------------------
\* The invariant with what the searches and the updates rely on.
FullInv == IInv /\ OutcomeOK /\ LoneOK /\ AnswersExact

\* The empty table with nothing asked satisfies the full invariant.
LEMMA InitFullInv == Init => FullInv
<1> SUFFICES ASSUME Init PROVE FullInv
    OBVIOUS
<1>1. IInv
    BY InitIInv
<1>2. OutcomeOK
    BY DEF Init, OutcomeOK, Outcome
<1>3. LoneOK
    BY DEF Init, LoneOK, Lone
<1>4. AnswersExact
    BY DEF Init, AnswersExact
<1> QED BY <1>1, <1>2, <1>3, <1>4 DEF FullInv

\* Every step keeps the full invariant.
LEMMA NextFullInv == FullInv /\ [Next]_vars => FullInv'
<1> SUFFICES ASSUME FullInv, [Next]_vars PROVE FullInv'
    OBVIOUS
<1>1. IInv'
    BY NextIInv DEF FullInv
<1> QED BY <1>1, NextOutcome, NextLone, NextAnswers DEF FullInv

(***************************************************************************)
(* AnswersExact: in a table of any size, with any criteria and any number  *)
(* of threads, what a search or a query answers is what the table holds.   *)
(***************************************************************************)
THEOREM AnswersAreExact == Spec => []AnswersExact
<1>1. FullInv => AnswersExact
    BY DEF FullInv
<1> QED BY InitFullInv, NextFullInv, <1>1, PTL DEF Spec

(***************************************************************************)
(* LoneUpdateSucceeds: an update that nobody disturbs puts its record in   *)
(* the place of the old one, though it gives the mutex up twice.           *)
(***************************************************************************)
THEOREM LoneUpdates == Spec => []LoneUpdateSucceeds
<1>1. FullInv => LoneUpdateSucceeds
    BY DEF FullInv, LoneOK, Lone, LoneUpdateSucceeds, OutcomeOK
<1> QED BY InitFullInv, NextFullInv, <1>1, PTL DEF Spec

-----------------------------------------------------------------------------
\* What TableMap's instance says in its own names.
LEMMA SameCount == \A S : Abstract!Cardinality(S) = Cardinality(S)
BY Zenon DEF Abstract!Cardinality, Cardinality

\* Its key order is the table's.
LEMMA SameOrder ==
    ASSUME NEW C, NEW a, NEW b
    PROVE  /\ Abstract!CompareKeys(C, a, b) = CompareKeys(C, a, b)
           /\ Abstract!SortKey(C, a) = SortKey(C, a)
           /\ Abstract!SmallerKey = SmallerKey /\ Abstract!EqualKey = EqualKey
           /\ Abstract!BiggerKey = BiggerKey /\ Abstract!Primary = Primary
<1>1. \A x, y : Abstract!CompareField(x, y) = CompareField(x, y)
    BY Zenon DEF Abstract!CompareField, CompareField, Abstract!SmallerKey, SmallerKey,
                 Abstract!EqualKey, EqualKey, Abstract!BiggerKey, BiggerKey
<1>2. Abstract!CompareKeys(C, a, b) = CompareKeys(C, a, b)
    BY <1>1, Zenon DEF Abstract!CompareKeys, CompareKeys
<1>3. Abstract!Levels = Levels
    BY Zenon DEF Abstract!Levels, Levels
<1>4. Abstract!Reached(C) = Reached(C)
    BY <1>3, Zenon DEF Abstract!Reached, Reached
<1>5. Abstract!SortKey(C, a) = SortKey(C, a)
    BY <1>4, Zenon DEF Abstract!SortKey, SortKey
<1> QED BY <1>2, <1>5, Zenon DEF Abstract!SmallerKey, SmallerKey, Abstract!EqualKey, EqualKey,
               Abstract!BiggerKey, BiggerKey, Abstract!Primary, Primary

\* Two keys have the same sort key exactly when the comparison calls them equal.
LEMMA SortKeyTells ==
    ASSUME NEW C \in SUBSET Levels, NEW a \in AllKeys, NEW b \in AllKeys
    PROVE  SortKey(C, a) = SortKey(C, b) <=> CompareKeys(C, a, b) = EqualKey
<1>1. SortKey(C, a) = SortKey(C, b) <=> \A l \in Reached(C) : a[l] = b[l]
    <2>1. ASSUME SortKey(C, a) = SortKey(C, b), NEW l \in Reached(C) PROVE a[l] = b[l]
        <3>1. SortKey(C, a)[l] = a[l] /\ SortKey(C, b)[l] = b[l]
            BY DEF SortKey
        <3> QED BY <2>1, <3>1
    <2>2. ASSUME \A l \in Reached(C) : a[l] = b[l] PROVE SortKey(C, a) = SortKey(C, b)
        BY <2>2 DEF SortKey
    <2> QED BY <2>1, <2>2
<1>2. /\ 1 \in Reached(C) /\ (2 \in Reached(C) <=> 2 \in C)
      /\ 3 \in Reached(C) <=> (2 \in C /\ 3 \in C)
      /\ 4 \in Reached(C) <=> (2 \in C /\ 3 \in C /\ 4 \in C)
      /\ Reached(C) \subseteq {1, 2, 3, 4}
    BY DEF Reached, Levels
<1>3. /\ a[1] \in Nat /\ a[2] \in Nat /\ a[3] \in Nat /\ a[4] \in Nat
      /\ b[1] \in Nat /\ b[2] \in Nat /\ b[3] \in Nat /\ b[4] \in Nat
    BY DEF AllKeys, Levels
<1>4. (\A l \in Reached(C) : a[l] = b[l]) <=>
         /\ a[1] = b[1] /\ (2 \in C => a[2] = b[2])
         /\ (2 \in C /\ 3 \in C => a[3] = b[3])
         /\ (2 \in C /\ 3 \in C /\ 4 \in C => a[4] = b[4])
    BY <1>2
<1>5. \A x, y \in Nat : CompareField(x, y) = EqualKey <=> x = y
    BY DEF CompareField, SmallerKey, EqualKey, BiggerKey
<1> QED BY <1>1, <1>3, <1>4, <1>5 DEF CompareKeys

-----------------------------------------------------------------------------
\* The sort key of the record at position i.
KeyAt(i) == SortKey(SortingCriteria, RecordAt(i).key)

\* The map holds the records of the positions, each under its own sort key.
LEMMA MapHolds ==
    ASSUME TableOK
    PROVE  /\ DOMAIN mapBar = {KeyAt(i) : i \in Slots}
           /\ \A i \in Slots : KeyAt(i) \in DOMAIN mapBar /\ mapBar[KeyAt(i)] = RecordAt(i)
           /\ \A i, j \in Slots : KeyAt(i) = KeyAt(j) => i = j
<1> USE ConstantsOK
<1>1. DOMAIN mapBar = {KeyAt(i) : i \in Slots}
    BY DEF mapBar, KeyAt
<1>2. ASSUME NEW i \in Slots, NEW j \in Slots, KeyAt(i) = KeyAt(j) PROVE i = j
    <2>1. RecordAt(i).key \in AllKeys /\ RecordAt(j).key \in AllKeys
        BY DEF TableOK, Record
    <2>2. CompareKeys(SortingCriteria, RecordAt(i).key, RecordAt(j).key) = EqualKey
        BY <1>2, <2>1, SortKeyTells DEF KeyAt
    <2>3. CompareKeys(SortingCriteria, RecordAt(j).key, RecordAt(i).key) = EqualKey
        BY <2>1, <2>2, CompareFlips
    <2>4. ~(i < j) /\ ~(j < i)
        BY <2>2, <2>3 DEF TableOK, StrictlySorted, EqualKey, BiggerKey
    <2>5. i \in Int /\ j \in Int
        BY DEF Slots
    <2> QED BY <2>4, <2>5
<1>3. ASSUME NEW i \in Slots PROVE mapBar[KeyAt(i)] = RecordAt(i)
    <2> DEFINE j == CHOOSE j \in Slots : KeyAt(j) = KeyAt(i)
    <2>1. j \in Slots /\ KeyAt(j) = KeyAt(i)
        BY Zenon
    <2>2. mapBar[KeyAt(i)] = RecordAt(j)
        BY Zenon DEF mapBar, KeyAt
    <2> QED BY <1>2, <2>1, <2>2
<1> QED BY <1>1, <1>2, <1>3

\* As many keys as positions, whichever positions are meant.
LEMMA AsManyKeys ==
    ASSUME TableOK, NEW lo \in Nat, NEW up \in Nat, lo <= up, up <= TotNoOfRecords
    PROVE  Cardinality({KeyAt(i) : i \in lo .. up - 1}) = up - lo
<1> DEFINE S == lo .. up - 1
           T == {KeyAt(i) : i \in S}
           f == [i \in S |-> KeyAt(i)]
<1>1. IsFiniteSet(S) /\ Cardinality(S) = IF lo > up - 1 THEN 0 ELSE up - 1 - lo + 1
    BY FS_Interval
<1>2. S \subseteq Slots
    BY ConstantsOK DEF Slots, TableOK, TableTypeOK
<1>3. \A i, j \in S : KeyAt(i) = KeyAt(j) => i = j
    BY <1>2, MapHolds
<1>4. f \in Bijection(S, T)
    BY <1>3 DEF Bijection, Injection, Surjection, IsInjective
<1>5. ExistsBijection(S, T)
    BY <1>4 DEF ExistsBijection
<1>6. Cardinality(T) = Cardinality(S)
    BY <1>1, <1>5, FS_Bijection
<1> QED BY <1>1, <1>6

\* The instance's order of the ranks is the comparison.
LEMMA ComesFirst ==
    ASSUME NEW a, NEW b
    PROVE  Abstract!Comes(a, b) <=> CompareKeys(SortingCriteria, a, b) = BiggerKey
<1>1. Abstract!CompareKeys(SortingCriteria, a, b) = CompareKeys(SortingCriteria, a, b)
    BY SameOrder, Zenon
<1>2. Abstract!BiggerKey = BiggerKey
    BY SameOrder, Zenon
<1> QED BY <1>1, <1>2 DEF Abstract!Comes

-----------------------------------------------------------------------------
\* The positions of the table, split by a call's key: before a the records
\* are bigger than it, from b on smaller, and between the two equal.
Splits(c, a, b) ==
    /\ a \in 0 .. TotNoOfRecords /\ b \in a .. TotNoOfRecords
    /\ \A i \in Slots : /\ Compare(CriteriaOf(c), c.key, i) = SmallerKey <=> i < a
                        /\ Compare(CriteriaOf(c), c.key, i) = BiggerKey <=> i >= b
                        /\ Compare(CriteriaOf(c), c.key, i) = EqualKey <=> a <= i /\ i < b

\* A sorted table is always split so.
LEMMA TableSplits ==
    ASSUME TableOK, NEW c \in AnyCall
    PROVE  \E a, b : Splits(c, a, b)
<1> DEFINE At(i) == Compare(CriteriaOf(c), c.key, i)
           A == {i \in Slots : At(i) # SmallerKey} \cup {TotNoOfRecords}
           B == {i \in Slots : At(i) = BiggerKey} \cup {TotNoOfRecords}
<1>1. TotNoOfRecords \in Nat /\ \A i : i \in Slots <=> i \in Nat /\ i < TotNoOfRecords
    BY ConstantsOK DEF TableOK, TableTypeOK, Slots
<1>2. PICK a \in A : \A y \in A : a =< y
    BY <1>1, LeastOf
<1>3. PICK b \in B : \A y \in B : b =< y
    BY <1>1, LeastOf
<1>4. \A i \in Slots : At(i) \in {SmallerKey, EqualKey, BiggerKey}
    BY ComparisonsAscend
<1>5. ASSUME NEW i \in Slots, NEW j \in Slots, j =< i, At(i) = SmallerKey PROVE At(j) = SmallerKey
    <2>1. j \in 0 .. i
        BY <1>1, <1>5
    <2> QED BY <1>5, <2>1, ComparisonsAscend
<1>6. ASSUME NEW i \in Slots, NEW j \in Slots, i =< j, At(i) = BiggerKey PROVE At(j) = BiggerKey
    <2>1. j \in i .. TotNoOfRecords - 1
        BY <1>1, <1>6
    <2> QED BY <1>6, <2>1, ComparisonsAscend
<1> HIDE DEF At
<1>7. a \in Nat /\ b \in Nat /\ a =< TotNoOfRecords /\ b =< TotNoOfRecords
    BY <1>1
<1>8. a =< b
    <2>1. B \subseteq A
        BY DEF SmallerKey, BiggerKey
    <2> QED BY <1>2, <2>1
<1>9. \A i \in Slots : At(i) = SmallerKey <=> i < a
    BY <1>1, <1>2, <1>5, <1>7
<1>10. \A i \in Slots : At(i) = BiggerKey <=> i >= b
    BY <1>1, <1>3, <1>6, <1>7
<1>11. \A i \in Slots : At(i) = EqualKey <=> a <= i /\ i < b
    BY <1>1, <1>4, <1>7, <1>9, <1>10 DEF SmallerKey, EqualKey, BiggerKey
<1>12. Splits(c, a, b)
    BY <1>1, <1>7, <1>8, <1>9, <1>10, <1>11 DEF Splits, At
<1> QED BY <1>12

\* The records of the map are those of the positions, and they compare alike.
LEMMA MapCompares ==
    ASSUME TableOK, NEW c \in AnyCall, NEW i \in Slots
    PROVE  /\ RecordAt(i).key \in AllKeys /\ c.key \in AllKeys
           /\ mapBar[KeyAt(i)].key = RecordAt(i).key
           /\ Compare(CriteriaOf(c), c.key, i) = CompareKeys(CriteriaOf(c), c.key, RecordAt(i).key)
<1> USE ConstantsOK
<1>1. RecordAt(i).key \in AllKeys /\ c.key \in AllKeys
    BY DEF TableOK, Record, AnyCall
<1>2. i < TotNoOfRecords
    BY DEF Slots, TableOK, TableTypeOK
<1> QED BY <1>1, <1>2, MapHolds DEF Compare

\* What the map says of a call's key, in positions.
LEMMA MapSees ==
    ASSUME TableOK, NEW c \in AnyCall, CriteriaOf(c) = SortingCriteria,
           NEW a, NEW b, Splits(c, a, b)
    PROVE  /\ Abstract!Present(c.key) <=> a < b
           /\ a < b => /\ b = a + 1 /\ a \in Slots /\ Abstract!KeyOf(c.key) = KeyAt(a)
                       /\ Abstract!RecordOf(c.key) = RecordAt(a)
           /\ Abstract!Above(c.key) = a
           /\ Abstract!Below(c.key) > 0 <=> b < TotNoOfRecords
<1> USE ConstantsOK
<1> DEFINE k == c.key
<1>1. /\ TotNoOfRecords \in Nat /\ a \in Nat /\ b \in Nat /\ a <= b /\ b <= TotNoOfRecords
      /\ \A i : i \in Slots <=> i \in Nat /\ i < TotNoOfRecords
    BY DEF TableOK, TableTypeOK, Slots, Splits
<1>2. \A i \in Slots : /\ CompareKeys(SortingCriteria, k, RecordAt(i).key) = SmallerKey <=> i < a
                       /\ CompareKeys(SortingCriteria, k, RecordAt(i).key) = BiggerKey <=> i >= b
                       /\ CompareKeys(SortingCriteria, k, RecordAt(i).key) = EqualKey <=> a <= i /\ i < b
    BY MapCompares DEF Splits
<1>3. \A i \in Slots : SortKey(SortingCriteria, k) = KeyAt(i) <=> a <= i /\ i < b
    BY <1>2, MapCompares, SortKeyTells DEF KeyAt
<1>4. Abstract!Present(k) <=> a < b
    <2>1. Abstract!Present(k) <=> \E i \in Slots : SortKey(SortingCriteria, k) = KeyAt(i)
        BY MapHolds, SameOrder DEF Abstract!Present, Abstract!KeyOf
    <2> QED BY <1>1, <1>3, <2>1
<1>5. a < b => /\ b = a + 1 /\ a \in Slots /\ Abstract!KeyOf(k) = KeyAt(a)
               /\ Abstract!RecordOf(k) = RecordAt(a)
    <2> SUFFICES ASSUME a < b PROVE /\ b = a + 1 /\ a \in Slots /\ Abstract!KeyOf(k) = KeyAt(a)
                                    /\ Abstract!RecordOf(k) = RecordAt(a)
        OBVIOUS
    <2>1. a \in Slots /\ b - 1 \in Slots
        BY <1>1
    <2>2. KeyAt(a) = KeyAt(b - 1)
        BY <1>1, <1>3, <2>1
    <2>3. a = b - 1
        BY <2>1, <2>2, MapHolds
    <2>4. Abstract!KeyOf(k) = KeyAt(a)
        BY <1>1, <1>3, <2>1, SameOrder DEF Abstract!KeyOf
    <2> QED BY <1>1, <2>1, <2>3, <2>4, MapHolds DEF Abstract!RecordOf
<1>6. Abstract!Above(k) = a
    <2>1. {r \in DOMAIN mapBar : Abstract!Comes(mapBar[r].key, k)} = {KeyAt(i) : i \in 0 .. a - 1}
        <3>1. ASSUME NEW i \in Slots PROVE Abstract!Comes(mapBar[KeyAt(i)].key, k) <=> i < a
            <4>1. mapBar[KeyAt(i)].key = RecordAt(i).key
                BY MapCompares
            <4>2. CompareKeys(SortingCriteria, RecordAt(i).key, k) = BiggerKey
                    <=> CompareKeys(SortingCriteria, k, RecordAt(i).key) = SmallerKey
                <5>1. RecordAt(i).key \in AllKeys /\ k \in AllKeys
                    BY MapCompares
                <5> HIDE DEF k
                <5> QED BY <5>1, CompareFlips
            <4>3. Abstract!Comes(RecordAt(i).key, k)
                    <=> CompareKeys(SortingCriteria, RecordAt(i).key, k) = BiggerKey
                BY ComesFirst
            <4> QED BY <1>2, <4>1, <4>2, <4>3
        <3>2. DOMAIN mapBar = {KeyAt(i) : i \in Slots}
            BY MapHolds
        <3>3. \A i : i \in 0 .. a - 1 <=> i \in Slots /\ i < a
            BY <1>1
        <3> QED BY <3>1, <3>2, <3>3, Zenon
    <2>3. Cardinality({KeyAt(i) : i \in 0 .. a - 1}) = a - 0
        BY <1>1, AsManyKeys
    <2>4. Abstract!Above(k) = Cardinality({KeyAt(i) : i \in 0 .. a - 1})
        BY <2>1, SameCount, Zenon DEF Abstract!Above
    <2> QED BY <1>1, <2>3, <2>4
<1>7. Abstract!Below(k) > 0 <=> b < TotNoOfRecords
    <2>1. {r \in DOMAIN mapBar : Abstract!Comes(k, mapBar[r].key)}
              = {KeyAt(i) : i \in b .. TotNoOfRecords - 1}
        <3>1. \A i \in Slots : Abstract!Comes(k, mapBar[KeyAt(i)].key) <=> i >= b
            BY <1>2, MapCompares, ComesFirst
        <3>2. DOMAIN mapBar = {KeyAt(i) : i \in Slots}
            BY MapHolds
        <3>3. \A i : i \in b .. TotNoOfRecords - 1 <=> i \in Slots /\ i >= b
            BY <1>1
        <3> QED BY <3>1, <3>2, <3>3, Zenon
    <2>3. Cardinality({KeyAt(i) : i \in b .. TotNoOfRecords - 1}) = TotNoOfRecords - b
        BY <1>1, AsManyKeys
    <2>4. Abstract!Below(k) = Cardinality({KeyAt(i) : i \in b .. TotNoOfRecords - 1})
        BY <2>1, SameCount, Zenon DEF Abstract!Below
    <2> QED BY <1>1, <2>3, <2>4
<1> QED BY <1>4, <1>5, <1>6, <1>7

\* The map has as many keys as the table has records.
LEMMA MapSize ==
    ASSUME TableOK
    PROVE  Abstract!Cardinality(DOMAIN mapBar) = TotNoOfRecords
<1>1. TotNoOfRecords \in Nat /\ Slots = 0 .. TotNoOfRecords - 1
    BY ConstantsOK DEF TableOK, TableTypeOK, Slots
<1>2. Cardinality({KeyAt(i) : i \in 0 .. TotNoOfRecords - 1}) = TotNoOfRecords - 0
    BY <1>1, AsManyKeys
<1>3. DOMAIN mapBar = {KeyAt(i) : i \in 0 .. TotNoOfRecords - 1}
    BY <1>1, MapHolds
<1>4. Abstract!Cardinality(DOMAIN mapBar) = Cardinality({KeyAt(i) : i \in 0 .. TotNoOfRecords - 1})
    BY <1>3, SameCount, Zenon
<1> QED BY <1>1, <1>2, <1>4

-----------------------------------------------------------------------------
\* Outside an update a thread has its caller's arguments; inside one it keeps
\* those of UpdateRecord, which has no use for arg.
ArgumentsOK ==
    \A t \in Threads : pc[t] # "idle" =>
        IF updating[t] THEN call[t].arg = 0 ELSE call[t] \in Calls

Steps(t) == Enters(t) \/ Iterates(t) \/ Leaves(t) \/ Whole(t)

\* The arguments of the calls without a use for arg, and without data.
LEMMA CallArguments ==
    ASSUME NEW c \in Calls
    PROVE  /\ c.key \in Keys /\ c.data \in Values \cup {NoData}
           /\ c.op \in {"InsertRecord", "UpdateRecord", "DeleteRecord", "QueryOnKey", "SearchOnKey"}
                => c.arg = 0
           /\ c.op \notin {"InsertRecord", "UpdateRecord"} => c.data = NoData
           /\ c.op = "SearchOnKey2" => c.arg \in {2, 4}
           /\ c.op = "SearchOnPrefix" => c.arg \in 1 .. 3
BY DEF Calls, Writers, Lookups, Smaller, Greater

\* What a thread's own step leaves of its arguments.
LEMMA OwnArguments ==
    ASSUME ControlOK, ArgumentsOK, NEW t \in Threads, Steps(t), pc'[t] # "idle"
    PROVE  IF updating'[t] THEN call'[t].arg = 0 ELSE call'[t] \in Calls
<1>1. /\ pc \in [Threads -> Pcs] /\ call \in [Threads -> AnyCall \cup {NoCall}]
      /\ updating \in [Threads -> BOOLEAN]
    BY DEF ControlOK, ControlTypeOK
<1>2. pc[t] # "idle" => /\ call[t] \in AnyCall
                        /\ IF updating[t] THEN call[t].arg = 0 ELSE call[t] \in Calls
    BY DEF ControlOK, ArgumentsOK
<1>3. pc[t] = "idle" => ~updating[t]
    BY DEF ControlOK, UpdateStage
<1>4. ASSUME NEW op, NEW at, GoOn(t, op, at), pc[t] # "idle" PROVE call'[t].arg = call[t].arg
    <2>1. call'[t] = [call[t] EXCEPT !.op = op]
        BY <1>1, <1>4 DEF GoOn
    <2>2. call[t] \in AnyCall
        BY <1>2, <1>4
    <2> QED BY <2>1, <2>2 DEF AnyCall
<1>5. \A c : InsertReturns(t, c, TRUE) \/ InsertReturns(t, c, FALSE)
            \/ DeleteReturns(t, c, TRUE) \/ DeleteReturns(t, c, FALSE)
              => pc'[t] = "idle" \/ (updating[t] /\ call'[t].arg = call[t].arg)
    BY <1>1, <1>3, <1>4 DEF InsertReturns, DeleteReturns, Reply
<1>6. ASSUME NEW c, Starts(t, c), call' = [call EXCEPT ![t] = c], UNCHANGED updating
      PROVE  IF updating'[t] THEN call'[t].arg = 0 ELSE call'[t] \in Calls
    BY <1>1, <1>2, <1>3, <1>6 DEF Starts
<1>7. CASE Enters(t)
    <2>1. PICK c : InsertRecord(t, c) \/ InsertIntoFull(t, c) \/ SearchOnKey2(t, c) \/ SearchFirst(t, c)
        BY <1>7 DEF Enters
    <2>2. CASE InsertIntoFull(t, c)
        BY <1>2, <1>3, <1>5, <2>2 DEF InsertIntoFull
    <2>3. CASE InsertRecord(t, c) \/ SearchOnKey2(t, c) \/ SearchFirst(t, c)
        BY <1>6, <2>3 DEF InsertRecord, SearchOnKey2, SearchFirst, Search
    <2> QED BY <2>1, <2>2, <2>3
<1>8. CASE Iterates(t)
    BY <1>2, <1>8 DEF Iterates, BinInsertIteration, BinSearchIteration
<1>9. CASE InsertCommits(t) \/ InsertRefused(t) \/ DeleteCommits(t) \/ DeleteNotFound(t)
    BY <1>2, <1>3, <1>5, <1>9 DEF InsertCommits, InsertRefused, DeleteCommits, DeleteNotFound
<1>10. CASE UpdateFound(t)
    <2>1. call[t].op = "UpdateRecord" /\ pc[t] = "searched"
        BY <1>10 DEF UpdateFound, After
    <2>2. call[t] \in Calls
        BY <1>2, <2>1 DEF ControlOK, UpdateStage
    <2>3. call[t].arg = 0
        BY <2>1, <2>2, CallArguments
    <2>4. updating'[t] /\ call'[t].arg = call[t].arg
        BY <1>1, <1>4, <1>10, <2>1 DEF UpdateFound
    <2> QED BY <2>3, <2>4
<1>11. CASE UpdateNotFound(t) \/ QueryReturns(t) \/ SearchReturns(t) \/ PrefixReturns(t) \/ Key2Returns(t)
    BY <1>1, <1>11 DEF UpdateNotFound, QueryReturns, SearchReturns, PrefixReturns, Key2Returns, Reply, Fails
<1>12. CASE Key2SearchesAgain(t)
    BY <1>1, <1>2, <1>12 DEF Key2SearchesAgain, Search, After
<1>13. CASE Whole(t)
    BY <1>1, <1>13 DEF Whole, UpdateReturns, ClearTable, QueryOnIndex, Reply
<1> QED BY <1>7, <1>8, <1>9, <1>10, <1>11, <1>12, <1>13 DEF Steps, Leaves

\* Every step keeps the arguments where they belong.
LEMMA NextArguments == ControlOK /\ ArgumentsOK /\ [Next]_vars => ArgumentsOK'
<1> SUFFICES ASSUME ControlOK, ArgumentsOK, [Next]_vars PROVE ArgumentsOK'
    OBVIOUS
<1>1. CASE UNCHANGED vars
    BY <1>1 DEF vars, ArgumentsOK
<1>2. CASE Next
    <2>1. PICK t \in Threads : Steps(t)
        BY <1>2 DEF Next, Steps
    <2>2. \A u \in Threads : u # t => pc'[u] = pc[u] /\ call'[u] = call[u] /\ updating'[u] = updating[u]
        BY <2>1, OthersStay DEF Steps
    <2> QED BY <2>1, <2>2, OwnArguments DEF ArgumentsOK
<1> QED BY <1>1, <1>2

-----------------------------------------------------------------------------
\* Where the abstract update of a thread stands.
UpdateOf(t) ==
    IF ~updating[t] THEN [at |-> "none"]
    ELSE IF pc[t] = "relock"
         THEN [at |-> "return", key |-> call[t].key, data |-> call[t].data, ok |-> ret[t]]
         ELSE [at   |-> IF call[t].op = "DeleteRecord" THEN "remove" ELSE "put",
               key  |-> call[t].key, data |-> call[t].data]

\* A step moves no update but the one of its thread.
LEMMA UpdateMoves ==
    ASSUME ControlOK, NEW t \in Threads, Steps(t)
    PROVE  /\ updateBar' = [updateBar EXCEPT ![t] = UpdateOf(t)']
           /\ UpdateOf(t)' = UpdateOf(t) => updateBar' = updateBar
           /\ updateBar[t] = UpdateOf(t)
<1>1. updateBar = [u \in Threads |-> UpdateOf(u)]
    BY DEF updateBar, UpdateOf
<1>2. updateBar' = [u \in Threads |-> UpdateOf(u)']
    BY DEF updateBar, UpdateOf
<1>3. \A u \in Threads : u # t => UpdateOf(u)' = UpdateOf(u)
    <2>1. \A u \in Threads : u # t => /\ pc'[u] = pc[u] /\ call'[u] = call[u] /\ ret'[u] = ret[u]
                                      /\ updating'[u] = updating[u]
        BY OthersStay DEF Steps
    <2> QED BY <2>1 DEF UpdateOf
<1> HIDE DEF UpdateOf
<1> QED BY <1>1, <1>2, <1>3

\* A step inside an update, or outside one, that leaves it where it was.
LEMMA UpdateStays ==
    ASSUME NEW t \in Threads, updating'[t] = updating[t],
           updating[t] => /\ call'[t] = call[t] /\ ret'[t] = ret[t]
                          /\ pc[t] # "relock" /\ pc'[t] # "relock"
    PROVE  UpdateOf(t)' = UpdateOf(t)
BY DEF UpdateOf

\* The map changes with the table only.
LEMMA MapStays == UNCHANGED tableVars => mapBar' = mapBar
BY DEF tableVars, mapBar, Slots, RecordAt

-----------------------------------------------------------------------------
MapInv == FullInv /\ ArgumentsOK

\* What a thread about to take the mutex brings along.
LEMMA StartsInside ==
    ASSUME MapInv, NEW t \in Threads, NEW c, Starts(t, c)
    PROVE  /\ c \in AnyCall /\ pc[t] # "relock"
           /\ updating[t] => c = call[t] /\ pc[t] = "enter"
           /\ ~updating[t] => c \in Calls
BY CallsAreCalls DEF MapInv, FullInv, IInv, ControlOK, ArgumentsOK, UpdateStage, Starts

\* Steps inside a call, of no effect on the map.
LEMMA WorkingSteps ==
    ASSUME MapInv, NEW t \in Threads,
           \/ \E c : InsertRecord(t, c) \/ SearchOnKey2(t, c) \/ SearchFirst(t, c)
           \/ Iterates(t)
           \/ Key2SearchesAgain(t)
    PROVE  Steps(t) => Abstract!Works
<1> SUFFICES ASSUME Steps(t) PROVE Abstract!Works
    OBVIOUS
<1>1. ControlOK /\ pc \in [Threads -> Pcs] /\ call \in [Threads -> AnyCall \cup {NoCall}]
    BY DEF MapInv, FullInv, IInv, ControlOK, ControlTypeOK
<1>2. UNCHANGED <<tableVars, updating, ret>> /\ answer' = NoAnswer
    BY DEF InsertRecord, SearchOnKey2, SearchFirst, Iterates, BinInsertIteration,
           BinSearchIteration, Key2SearchesAgain
<1>3. updating[t] => call'[t] = call[t] /\ pc[t] # "relock" /\ pc'[t] # "relock"
    <2>1. ASSUME NEW c, InsertRecord(t, c) \/ SearchOnKey2(t, c) \/ SearchFirst(t, c)
          PROVE  updating[t] => call'[t] = call[t] /\ pc[t] # "relock" /\ pc'[t] # "relock"
        <3>1. Starts(t, c) /\ call' = [call EXCEPT ![t] = c] /\ pc'[t] # "relock"
            BY <1>1, <2>1 DEF InsertRecord, SearchOnKey2, SearchFirst, Search
        <3> QED BY <1>1, <3>1, StartsInside
    <2>2. CASE Iterates(t)
        BY <1>1, <2>2 DEF Iterates, BinInsertIteration, BinSearchIteration, Loops
    <2>3. CASE Key2SearchesAgain(t)
        BY <1>1, <2>3 DEF Key2SearchesAgain, Search, After
    <2> QED BY <2>1, <2>2, <2>3
<1>4. updateBar' = updateBar
    BY <1>1, <1>2, <1>3, UpdateStays, UpdateMoves
<1>5. mapBar' = mapBar
    BY <1>2, MapStays
<1> QED BY <1>2, <1>4, <1>5 DEF Abstract!Works, Abstract!Quiet

\* A reply is the abstract answer.
LEMMA ReplyAnswers ==
    ASSUME NEW t, NEW c, NEW ok, NEW from, NEW to, NEW data, Reply(t, c, ok, from, to, data)
    PROVE  Abstract!Answers(t, c.op, c.key, c.arg, c.data, ok, from, to, data)
BY DEF Reply, Abstract!Answers

\* A thread outside an update is free to make any call of the map.
LEMMA FreeOutside ==
    ASSUME ControlOK, NEW t \in Threads, Steps(t), ~updating[t]
    PROVE  Abstract!Free(t)
<1>1. updateBar[t] = UpdateOf(t)
    BY UpdateMoves
<1> QED BY <1>1 DEF UpdateOf, Abstract!Free, Abstract!NoUpdate

\* A reply outside an update leaves the updates alone.
LEMMA ReplyOutside ==
    ASSUME ControlOK, NEW t \in Threads, Steps(t), ~updating[t], UNCHANGED updating
    PROVE  updateBar' = updateBar
<1>1. UpdateOf(t)' = UpdateOf(t)
    BY UpdateStays
<1> QED BY <1>1, UpdateMoves

\* InsertRecord returns, to the caller or to UpdateRecord, what the abstract
\* insert returns.
LEMMA InsertRefines ==
    ASSUME ControlOK, NEW t \in Threads, Steps(t), NEW c \in AnyCall, c.op = "InsertRecord",
           NEW ok \in BOOLEAN, InsertReturns(t, c, ok), UNCHANGED updating,
           updating[t] => c = call[t] /\ pc[t] \notin {"idle", "relock"},
           ~updating[t] => c \in Calls,
           Abstract!Inserts(c.key, c.data, ok)
    PROVE  Abstract!Insert(t) \/ Abstract!UpdatePuts(t)
<1>1. /\ pc \in [Threads -> Pcs] /\ call \in [Threads -> AnyCall \cup {NoCall}]
      /\ ret \in [Threads -> BOOLEAN]
    BY DEF ControlOK, ControlTypeOK
<1>2. CASE ~updating[t]
    <2>1. Reply(t, c, ok, 0, 0, NoData)
        BY <1>2 DEF InsertReturns
    <2>2. c.key \in Keys /\ c.data \in Values \cup {NoData} /\ c.arg = 0
        BY <1>2, CallArguments
    <2>3. Abstract!Answers(t, "InsertRecord", c.key, 0, c.data, ok, 0, 0, NoData)
        BY <2>1, <2>2, ReplyAnswers
    <2>4. Abstract!Free(t) /\ updateBar' = updateBar
        BY <1>2, FreeOutside, ReplyOutside
    <2> QED BY <2>2, <2>3, <2>4 DEF Abstract!Insert
<1>3. CASE updating[t]
    <2> DEFINE k == call[t].key
               d == call[t].data
    <2>1. /\ GoOn(t, "UpdateRecord", "relock") /\ ret' = [ret EXCEPT ![t] = ok]
        BY <1>3 DEF InsertReturns
    <2>2. /\ pc'[t] = "relock" /\ ret'[t] = ok /\ call'[t] = [call[t] EXCEPT !.op = "UpdateRecord"]
          /\ answer' = NoAnswer
        BY <1>1, <2>1 DEF GoOn
    <2>3. call'[t].key = k /\ call'[t].data = d
        BY <1>3, <2>2 DEF AnyCall
    <2>4. UpdateOf(t) = [at |-> "put", key |-> k, data |-> d]
        BY <1>3 DEF UpdateOf
    <2>5. UpdateOf(t)' = [at |-> "return", key |-> k, data |-> d, ok |-> ok]
        BY <1>3, <2>2, <2>3 DEF UpdateOf
    <2>6. /\ updateBar' = [updateBar EXCEPT ![t] = UpdateOf(t)'] /\ updateBar[t] = UpdateOf(t)
        BY UpdateMoves
    <2>7. updateBar[t].at = "put" /\ updateBar[t].key = k /\ updateBar[t].data = d
        BY <2>4, <2>6
    <2>8. updateBar' = [updateBar EXCEPT ![t] =
              [at |-> "return", key |-> updateBar[t].key, data |-> updateBar[t].data, ok |-> ok]]
        BY <2>5, <2>6, <2>7
    <2>9. Abstract!Inserts(updateBar[t].key, updateBar[t].data, ok)
        BY <1>3, <2>7
    <2> QED BY <2>2, <2>7, <2>8, <2>9 DEF Abstract!UpdatePuts, Abstract!Quiet
<1> QED BY <1>2, <1>3

\* The same for DeleteRecord.
LEMMA DeleteRefines ==
    ASSUME ControlOK, NEW t \in Threads, Steps(t), NEW c \in AnyCall, c.op = "DeleteRecord",
           NEW ok \in BOOLEAN, DeleteReturns(t, c, ok), UNCHANGED updating,
           updating[t] => c = call[t] /\ pc[t] \notin {"idle", "relock"},
           ~updating[t] => c \in Calls,
           Abstract!Deletes(c.key, ok)
    PROVE  Abstract!Delete(t) \/ Abstract!UpdateRemoves(t)
<1>1. /\ pc \in [Threads -> Pcs] /\ call \in [Threads -> AnyCall \cup {NoCall}]
      /\ ret \in [Threads -> BOOLEAN]
    BY DEF ControlOK, ControlTypeOK
<1>2. CASE ~updating[t]
    <2>1. Reply(t, c, ok, 0, 0, NoData)
        BY <1>2 DEF DeleteReturns
    <2>2. c.key \in Keys /\ c.data = NoData /\ c.arg = 0
        BY <1>2, CallArguments
    <2>3. Abstract!Answers(t, "DeleteRecord", c.key, 0, NoData, ok, 0, 0, NoData)
        BY <2>1, <2>2, ReplyAnswers
    <2>4. Abstract!Free(t) /\ updateBar' = updateBar
        BY <1>2, FreeOutside, ReplyOutside
    <2> QED BY <2>2, <2>3, <2>4 DEF Abstract!Delete
<1>3. CASE updating[t]
    <2> DEFINE k == call[t].key
               d == call[t].data
    <2>1. GoOn(t, "InsertRecord", "enter")
        BY <1>3 DEF DeleteReturns
    <2>2. /\ pc'[t] = "enter" /\ call'[t] = [call[t] EXCEPT !.op = "InsertRecord"]
          /\ answer' = NoAnswer
        BY <1>1, <2>1 DEF GoOn
    <2>3. call'[t].op = "InsertRecord" /\ call'[t].key = k /\ call'[t].data = d
        BY <1>3, <2>2 DEF AnyCall
    <2>4. UpdateOf(t) = [at |-> "remove", key |-> k, data |-> d]
        BY <1>3 DEF UpdateOf
    <2>5. UpdateOf(t)' = [at |-> "put", key |-> k, data |-> d]
        BY <1>3, <2>2, <2>3 DEF UpdateOf
    <2>6. /\ updateBar' = [updateBar EXCEPT ![t] = UpdateOf(t)'] /\ updateBar[t] = UpdateOf(t)
        BY UpdateMoves
    <2>7. updateBar[t].at = "remove" /\ updateBar[t].key = k /\ updateBar[t].data = d
        BY <2>4, <2>6
    <2>8. updateBar' = [updateBar EXCEPT ![t] =
              [at |-> "put", key |-> updateBar[t].key, data |-> updateBar[t].data]]
        BY <2>5, <2>6, <2>7
    <2>9. Abstract!Deletes(updateBar[t].key, ok)
        BY <1>3, <2>7
    <2> QED BY <2>2, <2>7, <2>8, <2>9 DEF Abstract!UpdateRemoves, Abstract!Quiet
<1> QED BY <1>2, <1>3

-----------------------------------------------------------------------------
\* The map, in the positions of the table.
MapShape ==
    /\ mapBar = [r \in {KeyAt(i) : i \in Slots} |-> mapBar[r]]
    /\ \A i \in Slots : mapBar[KeyAt(i)] = RecordAt(i)

\* A sound table gives the map this shape,
LEMMA MapIsShaped == TableOK => MapShape
<1> SUFFICES ASSUME TableOK PROVE MapShape
    OBVIOUS
<1>1. mapBar = [r \in {KeyAt(i) : i \in Slots} |-> mapBar[r]]
    BY DEF mapBar, KeyAt
<1>2. \A i \in Slots : mapBar[KeyAt(i)] = RecordAt(i)
    BY MapHolds
<1> QED BY <1>1, <1>2 DEF MapShape

\* The record at position i after the step, and its sort key.
NewRecordAt(i) == Buffers'[Data'[i]]
NewKeyAt(i) == SortKey(SortingCriteria, NewRecordAt(i).key)

NewShape ==
    /\ mapBar' = [r \in {NewKeyAt(i) : i \in Slots'} |-> mapBar'[r]]
    /\ \A i \in Slots' : mapBar'[NewKeyAt(i)] = NewRecordAt(i)

\* and a table that is sound after the step the new one.
LEMMA NextMapIsShaped == TableOK' => NewShape
<1>1. TableOK' => MapShape'
    BY MapIsShaped, PTL
<1>2. MapShape' => NewShape
    BY DEF MapShape, NewShape, KeyAt, RecordAt, NewKeyAt, NewRecordAt
<1> QED BY <1>1, <1>2

\* Where the records stand after an insert.
LEMMA InsertShifts ==
    ASSUME TableOK, NEW t \in Threads, call[t] \in AnyCall, Position(t),
           TotNoOfRecords < MaxRecords, InsertCommits(t)
    PROVE  /\ TotNoOfRecords' = TotNoOfRecords + 1
           /\ \A i \in Slots' : NewRecordAt(i) =
                IF i = index THEN [key |-> call[t].key, data |-> call[t].data]
                ELSE RecordAt(IF i < index THEN i ELSE i - 1)
<1> USE ConstantsOK
<1> DEFINE rec == [key |-> call[t].key, data |-> call[t].data]
           old(i) == IF i < index THEN i ELSE i - 1
<1>1. PICK ptr \in Nodes :
        /\ Malloc(ptr)
        /\ Data' = [i \in Positions |->
                      IF i < index \/ i > TotNoOfRecords THEN Data[i]
                      ELSE IF i = index THEN ptr ELSE Data[i - 1]]
        /\ Buffers' = [Buffers EXCEPT ![ptr] = rec]
    BY DEF InsertCommits
<1>2. /\ TotNoOfRecords \in Nat /\ index \in 0 .. TotNoOfRecords
      /\ TotNoOfRecords' = TotNoOfRecords + 1
      /\ TotNoOfRecords' \in 0 .. MaxRecords
      /\ Buffers \in [Nodes -> Record \cup {Unused}]
    BY DEF TableOK, TableTypeOK, Position, InsertCommits
<1>3. ptr \in Elements /\ ~HandedOut(ptr)
    BY <1>1, RoomInPool DEF Malloc
<1>4. \A i \in Slots' : /\ Data'[i] = IF i = index THEN ptr ELSE Data[old(i)]
                        /\ i # index => old(i) \in Slots
    BY <1>1, <1>2 DEF Slots, Positions
<1>5. \A i \in Slots : Data[i] \in Nodes /\ Data[i] # ptr
    BY <1>3 DEF TableOK, NoLeakNoAlias, Elements, Nodes
<1>6. \A i \in Slots' : NewRecordAt(i) = IF i = index THEN rec ELSE RecordAt(old(i))
    BY <1>1, <1>2, <1>4, <1>5 DEF RecordAt, NewRecordAt
<1> QED BY <1>2, <1>6

\* Where they stand after a delete.
LEMMA DeleteShifts ==
    ASSUME TableOK, NEW t \in Threads, index \in Slots, DeleteCommits(t)
    PROVE  /\ TotNoOfRecords' = TotNoOfRecords - 1
           /\ \A i \in Slots' : NewRecordAt(i) = RecordAt(IF i < index THEN i ELSE i + 1)
<1> USE ConstantsOK
<1> DEFINE gone == Data[index]
           old(i) == IF i < index THEN i ELSE i + 1
<1>1. /\ Buffers' = [Buffers EXCEPT ![gone] = Unused]
      /\ TotNoOfRecords' = TotNoOfRecords - 1
      /\ Data' = [i \in Positions |->
                    IF i < index \/ i >= TotNoOfRecords THEN Data[i]
                    ELSE IF i < TotNoOfRecords - 1 THEN Data[i + 1] ELSE NULL]
    BY DEF DeleteCommits
<1>2. /\ TotNoOfRecords \in Nat /\ TotNoOfRecords <= MaxRecords
      /\ index \in Nat /\ index < TotNoOfRecords
      /\ Buffers \in [Nodes -> Record \cup {Unused}]
    BY <1>1 DEF TableOK, TableTypeOK, Slots
<1>3. \A i \in Slots : Data[i] \in Nodes
    BY DEF TableOK, NoLeakNoAlias, Elements, Nodes
<1>4. \A i \in Slots' : Data'[i] = Data[old(i)] /\ old(i) \in Slots /\ old(i) # index
    BY <1>1, <1>2 DEF Slots, Positions
<1>5. \A i \in Slots' : Data'[i] # gone
    BY <1>4 DEF TableOK, NoLeakNoAlias
<1>6. \A i \in Slots' : NewRecordAt(i) = RecordAt(old(i))
    BY <1>1, <1>2, <1>3, <1>4, <1>5 DEF RecordAt, NewRecordAt
<1> QED BY <1>1, <1>6

\* An insert that commits puts its record in the map, under a new key.
LEMMA InsertPuts ==
    ASSUME MapInv, TableOK', NEW t \in Threads, InsertCommits(t)
    PROVE  Abstract!Inserts(call[t].key, call[t].data, TRUE)
<1> USE ConstantsOK
<1> DEFINE c == call[t]
           k == c.key
           new == SortKey(SortingCriteria, k)
<1>1. /\ pc[t] = "placed" /\ c.op = "InsertRecord" /\ c \in AnyCall /\ index # INVALID_INDEX
      /\ c.data # NoData /\ TableOK /\ Position(t) /\ TotNoOfRecords < MaxRecords
      /\ Primary \in SortingCriteria
    BY DEF InsertCommits, After, Inserts, MapInv, FullInv, IInv, ControlOK, SearchOK, ResultSound,
           Placing, OutcomeOK, Outcome
<1>2. /\ TotNoOfRecords' = TotNoOfRecords + 1
      /\ \A i \in Slots' : NewRecordAt(i) =
            IF i = index THEN [key |-> k, data |-> c.data]
            ELSE RecordAt(IF i < index THEN i ELSE i - 1)
    BY <1>1, InsertShifts
<1>3. /\ TotNoOfRecords \in Nat /\ index \in Nat /\ index <= TotNoOfRecords
      /\ \A i : i \in Slots <=> i \in Nat /\ i < TotNoOfRecords
      /\ \A i : i \in Slots' <=> i \in Nat /\ i < TotNoOfRecords + 1
    BY <1>1, <1>2 DEF TableOK, TableTypeOK, Slots, Position
<1>4. CriteriaOf(c) = SortingCriteria
    BY <1>1 DEF CriteriaOf
<1>5. PICK a, b : Splits(c, a, b)
    BY <1>1, TableSplits
<1>6. ~Abstract!Present(k)
    <2>1. \A i \in Slots : Compare(CriteriaOf(c), k, i) # EqualKey
        BY <1>1, <1>3, <1>4 DEF Position, SmallerKey, EqualKey, BiggerKey
    <2>2. ~(a < b)
        BY <1>1, <1>5, <2>1 DEF Splits, Slots, TableOK, TableTypeOK
    <2> QED BY <1>1, <1>4, <1>5, <2>2, MapSees
<1>7. \A i \in Slots' : NewKeyAt(i) = IF i = index THEN new
                                    ELSE KeyAt(IF i < index THEN i ELSE i - 1)
    BY <1>2 DEF KeyAt, NewKeyAt
<1>8. MapShape /\ NewShape
    BY <1>1, MapIsShaped, NextMapIsShaped
<1>9. \A j \in Slots : \E i \in Slots' : NewKeyAt(i) = KeyAt(j) /\ NewRecordAt(i) = RecordAt(j)
    <2> TAKE j \in Slots
    <2>1. CASE j < index
        <3>1. j \in Slots' /\ j # index
            BY <1>3, <2>1
        <3> QED BY <1>2, <1>7, <2>1, <3>1
    <2>2. CASE ~(j < index)
        <3>1. PICK i \in Slots' : i > index /\ i = j + 1
            BY <1>3, <2>2
        <3>2. ~(i < index) /\ i # index /\ i - 1 = j
            BY <1>3, <3>1
        <3>3. (IF i < index THEN i ELSE i - 1) = j
            BY <3>2
        <3>4. NewKeyAt(i) = KeyAt(j) /\ NewRecordAt(i) = RecordAt(j)
            BY <1>2, <1>7, <3>2, <3>3
        <3> QED BY <3>4
    <2> QED BY <2>1, <2>2
<1>10. index \in Slots' /\ NewKeyAt(index) = new /\ NewRecordAt(index) = [key |-> k, data |-> c.data]
    BY <1>2, <1>3, <1>7
<1>11. {NewKeyAt(i) : i \in Slots'} = {KeyAt(i) : i \in Slots} \cup {new}
    <2>1. ASSUME NEW i \in Slots' PROVE NewKeyAt(i) \in {KeyAt(j) : j \in Slots} \cup {new}
        <3>1. i # index => (IF i < index THEN i ELSE i - 1) \in Slots
            BY <1>3
        <3> QED BY <1>7, <3>1
    <2> QED BY <1>9, <1>10, <2>1
<1>12. DOMAIN mapBar = {KeyAt(i) : i \in Slots}
    BY <1>1, MapHolds
<1>13. mapBar'[new] = [key |-> k, data |-> c.data]
    BY <1>8, <1>10 DEF MapShape, NewShape
<1>14. \A r \in DOMAIN mapBar : mapBar'[r] = mapBar[r]
    <2>1. ASSUME NEW j \in Slots PROVE mapBar'[KeyAt(j)] = mapBar[KeyAt(j)]
        <3>1. PICK i \in Slots' : NewKeyAt(i) = KeyAt(j) /\ NewRecordAt(i) = RecordAt(j)
            BY <1>9
        <3>2. mapBar'[NewKeyAt(i)] = NewRecordAt(i) /\ mapBar[KeyAt(j)] = RecordAt(j)
            BY <1>8 DEF MapShape, NewShape
        <3> QED BY <3>1, <3>2
    <2> QED BY <1>12, <2>1
<1>15. new \notin DOMAIN mapBar /\ Abstract!KeyOf(k) = new
    BY <1>6, SameOrder DEF Abstract!Present, Abstract!KeyOf
<1>16. mapBar' = [r \in DOMAIN mapBar \cup {new} |-> mapBar'[r]]
    BY <1>8, <1>11, <1>12 DEF MapShape, NewShape
<1>17. Abstract!Put(k, c.data)
    BY <1>13, <1>14, <1>15, <1>16 DEF Abstract!Put
<1>18. Abstract!Cardinality(DOMAIN mapBar) < MaxElements
    BY <1>1, MapSize
<1>19. Abstract!Primary \in SortingCriteria
    BY <1>1, SameOrder
<1> QED BY <1>1, <1>6, <1>17, <1>18, <1>19 DEF Abstract!Inserts

\* A delete that commits takes its key out of the map.
LEMMA DeleteRemoves ==
    ASSUME MapInv, TableOK', NEW t \in Threads, DeleteCommits(t)
    PROVE  Abstract!Deletes(call[t].key, TRUE)
<1> USE ConstantsOK
<1> DEFINE c == call[t]
           k == c.key
<1>1. /\ c.op = "DeleteRecord" /\ c \in AnyCall /\ TableOK /\ Found(t)
    BY DEF DeleteCommits, After, MapInv, FullInv, IInv, ControlOK, SearchOK, ResultSound
<1>2. /\ TotNoOfRecords' = TotNoOfRecords - 1
      /\ \A i \in Slots' : NewRecordAt(i) = RecordAt(IF i < index THEN i ELSE i + 1)
    BY <1>1, DeleteShifts DEF Found
<1>3. /\ TotNoOfRecords \in Nat /\ index \in Slots /\ index \in Nat
      /\ \A i : i \in Slots <=> i \in Nat /\ i < TotNoOfRecords
      /\ \A i : i \in Slots' <=> i \in Nat /\ i < TotNoOfRecords - 1
    BY <1>1, <1>2 DEF TableOK, TableTypeOK, Slots, Found
<1>4. CriteriaOf(c) = SortingCriteria
    BY <1>1 DEF CriteriaOf
<1>5. PICK a, b : Splits(c, a, b)
    BY <1>1, TableSplits
<1>6. a < b /\ index = a
    <2>1. a <= index /\ index < b /\ a \in Nat /\ b \in Nat
        BY <1>1, <1>3, <1>5 DEF Splits, Found
    <2>2. b = a + 1
        BY <1>1, <1>3, <1>4, <1>5, <2>1, MapSees
    <2> QED BY <1>3, <2>1, <2>2
<1>7. Abstract!Present(k) /\ Abstract!KeyOf(k) = KeyAt(index)
    BY <1>1, <1>4, <1>5, <1>6, MapSees
<1>8. MapShape /\ NewShape
    BY <1>1, MapIsShaped, NextMapIsShaped
<1>9. \A i \in Slots' : NewKeyAt(i) = KeyAt(IF i < index THEN i ELSE i + 1)
    BY <1>2 DEF KeyAt, NewKeyAt
<1>10. \A j \in Slots : j # index =>
          \E i \in Slots' : NewKeyAt(i) = KeyAt(j) /\ NewRecordAt(i) = RecordAt(j)
    <2> SUFFICES ASSUME NEW j \in Slots, j # index
                 PROVE  \E i \in Slots' : NewKeyAt(i) = KeyAt(j) /\ NewRecordAt(i) = RecordAt(j)
        OBVIOUS
    <2>1. CASE j < index
        <3>1. j \in Slots'
            BY <1>3, <2>1
        <3> QED BY <1>2, <1>9, <2>1, <3>1
    <2>2. CASE ~(j < index)
        <3>1. j - 1 \in Slots' /\ ~(j - 1 < index) /\ j - 1 + 1 = j
            BY <1>3, <2>2
        <3>2. NewKeyAt(j - 1) = KeyAt(j) /\ NewRecordAt(j - 1) = RecordAt(j)
            BY <1>2, <1>9, <3>1
        <3> QED BY <3>1, <3>2
    <2> QED BY <2>1, <2>2
<1>11. \A i, j \in Slots : KeyAt(i) = KeyAt(j) => i = j
    BY <1>1, MapHolds
<1>12. {NewKeyAt(i) : i \in Slots'} = {KeyAt(i) : i \in Slots} \ {KeyAt(index)}
    <2>1. ASSUME NEW i \in Slots'
          PROVE  NewKeyAt(i) \in {KeyAt(j) : j \in Slots} \ {KeyAt(index)}
        <3> DEFINE j == IF i < index THEN i ELSE i + 1
        <3>1. j \in Slots /\ j # index
            BY <1>3
        <3>2. KeyAt(j) # KeyAt(index)
            BY <1>3, <1>11, <3>1
        <3>3. NewKeyAt(i) = KeyAt(j)
            BY <1>9
        <3> HIDE DEF j
        <3> QED BY <3>1, <3>2, <3>3
    <2>2. ASSUME NEW j \in Slots, KeyAt(j) # KeyAt(index)
          PROVE  KeyAt(j) \in {NewKeyAt(i) : i \in Slots'}
        <3>1. j # index
            BY <2>2
        <3> QED BY <1>10, <3>1
    <2> QED BY <2>1, <2>2
<1>13. DOMAIN mapBar = {KeyAt(i) : i \in Slots}
    BY <1>1, MapHolds
<1>14. \A r \in DOMAIN mapBar \ {KeyAt(index)} : mapBar'[r] = mapBar[r]
    BY <1>8, <1>10, <1>13 DEF MapShape, NewShape
<1>15. mapBar' = [r \in DOMAIN mapBar \ {KeyAt(index)} |-> mapBar'[r]]
    BY <1>8, <1>12, <1>13 DEF MapShape, NewShape
<1>16. Abstract!Remove(k)
    BY <1>7, <1>14, <1>15 DEF Abstract!Remove
<1> QED BY <1>7, <1>16 DEF Abstract!Deletes

\* Presence in the map is presence in the table.
LEMMA PresentMeans ==
    ASSUME TableOK, NEW c \in AnyCall, CriteriaOf(c) = SortingCriteria
    PROVE  Abstract!Present(c.key) <=> \E i \in Slots : Compare(CriteriaOf(c), c.key, i) = EqualKey
<1>1. PICK a, b : Splits(c, a, b)
    BY TableSplits
<1>2. Abstract!Present(c.key) <=> a < b
    BY <1>1, MapSees
<1>3. a < b <=> \E i \in Slots : a <= i /\ i < b
    BY <1>1, ConstantsOK DEF Splits, Slots, TableOK, TableTypeOK
<1>4. \A i \in Slots : Compare(CriteriaOf(c), c.key, i) = EqualKey <=> a <= i /\ i < b
    BY <1>1 DEF Splits
<1> QED BY <1>2, <1>3, <1>4

\* The position of a key is its rank, and holds its record.
LEMMA FoundMeans ==
    ASSUME TableOK, NEW c \in AnyCall, CriteriaOf(c) = SortingCriteria, NEW i \in Slots,
           Compare(CriteriaOf(c), c.key, i) = EqualKey
    PROVE  /\ Abstract!Present(c.key) /\ Abstract!Above(c.key) = i
           /\ Abstract!RecordOf(c.key) = RecordAt(i)
<1>1. PICK a, b : Splits(c, a, b)
    BY TableSplits
<1>2. a <= i /\ i < b /\ a \in Nat /\ b \in Nat /\ i \in Nat
    BY <1>1, ConstantsOK DEF Splits, Slots, TableOK, TableTypeOK
<1>3. a < b
    BY <1>2
<1>4. b = a + 1 /\ Abstract!Present(c.key) /\ Abstract!Above(c.key) = a
      /\ Abstract!RecordOf(c.key) = RecordAt(a)
    BY <1>1, <1>3, MapSees
<1>5. a = i
    BY <1>2, <1>4
<1> QED BY <1>4, <1>5

\* An insert that is refused is one the map refuses.
LEMMA InsertRefusal ==
    ASSUME MapInv, NEW t \in Threads, NEW c \in AnyCall, c.op = "InsertRecord",
           UNCHANGED tableVars,
           \/ TotNoOfRecords >= MaxRecords
           \/ c = call[t] /\ InsertRefused(t)
    PROVE  Abstract!Inserts(c.key, c.data, FALSE)
<1> USE ConstantsOK
<1>1. TableOK /\ CriteriaOf(c) = SortingCriteria /\ TotNoOfRecords \in Nat
    BY DEF MapInv, FullInv, IInv, CriteriaOf, TableOK, TableTypeOK
<1>2. Abstract!Cardinality(DOMAIN mapBar) = TotNoOfRecords
    BY <1>1, MapSize
<1>3. mapBar' = mapBar
    BY MapStays
<1>4. ~ (/\ Abstract!Cardinality(DOMAIN mapBar) < MaxElements /\ ~Abstract!Present(c.key)
         /\ c.data # NoData /\ Primary \in SortingCriteria)
    <2>1. CASE TotNoOfRecords >= MaxRecords
        BY <1>1, <1>2, <2>1
    <2>2. CASE TotNoOfRecords < MaxRecords /\ c = call[t] /\ InsertRefused(t)
        <3>1. FreePtr \in Elements
            BY <1>1, <2>2, RoomInPool
        <3>2. ~Exhausted
            BY <3>1 DEF Exhausted, POOL_TERMINAL, Elements
        <3>3. pc[t] = "placed" /\ (index = INVALID_INDEX \/ c.data = NoData)
            BY <2>2, <3>2 DEF InsertRefused, Inserts, After
        <3>4. index = INVALID_INDEX /\ Primary \in SortingCriteria => Present(t)
            BY <3>3 DEF MapInv, FullInv, OutcomeOK, Outcome
        <3>5. Present(t) => Abstract!Present(c.key)
            BY <1>1, <2>2, PresentMeans DEF Present
        <3> QED BY <3>3, <3>4, <3>5
    <2> QED BY <1>1, <2>1, <2>2
<1>5. Abstract!Primary = Primary
    BY SameOrder
<1> QED BY <1>3, <1>4, <1>5 DEF Abstract!Inserts

\* A thread that searches for an answer is not inside an update.
LEMMA AsksOutside ==
    ASSUME MapInv, NEW t \in Threads, Steps(t), pc[t] \in {"placed", "searched"},
           call[t].op \notin {"InsertRecord", "DeleteRecord"}
    PROVE  /\ ~updating[t] /\ call[t] \in Calls /\ call[t] \in AnyCall
           /\ UNCHANGED <<tableVars, updating>> => Abstract!Asks(t)
<1>1. ~updating[t] /\ call[t] \in Calls /\ call[t] \in AnyCall /\ ControlOK
    BY DEF MapInv, FullInv, IInv, ControlOK, ArgumentsOK, UpdateStage
<1>2. UNCHANGED <<tableVars, updating>> => Abstract!Free(t) /\ updateBar' = updateBar /\ mapBar' = mapBar
    BY <1>1, FreeOutside, ReplyOutside, MapStays
<1> QED BY <1>1, <1>2 DEF Abstract!Asks

\* QueryOnKey answers with the record of its key.
LEMMA QueryRefines ==
    ASSUME MapInv, NEW t \in Threads, Steps(t), QueryReturns(t)
    PROVE  Abstract!Query(t)
<1> DEFINE c == call[t]
<1>1. pc[t] = "searched" /\ c.op = "QueryOnKey" /\ UNCHANGED <<tableVars, updating>>
    BY DEF QueryReturns, After
<1>2. Abstract!Asks(t) /\ c \in Calls /\ c \in AnyCall
    BY <1>1, AsksOutside
<1>3. c.key \in Keys /\ c.data = NoData /\ c.arg = 0
    BY <1>1, <1>2, CallArguments
<1>4. TableOK /\ CriteriaOf(c) = SortingCriteria /\ IInv /\ OutcomeOK
    BY <1>1 DEF MapInv, FullInv, IInv, CriteriaOf
<1>5. CASE index # INVALID_INDEX
    <2>1. Reply(t, c, TRUE, 0, 0, RecordAt(index).data)
        BY <1>5 DEF QueryReturns
    <2>2. Found(t)
        BY <1>1, <1>4, <1>5, Searched
    <2>3. Abstract!Present(c.key) /\ Abstract!RecordOf(c.key) = RecordAt(index)
        BY <1>2, <1>4, <2>2, FoundMeans DEF Found
    <2>4. Abstract!Answers(t, "QueryOnKey", c.key, 0, NoData, TRUE, 0, 0, RecordAt(index).data)
        BY <1>1, <1>3, <2>1, ReplyAnswers
    <2>5. Abstract!Answers(t, "QueryOnKey", c.key, 0, NoData, Abstract!Present(c.key), 0, 0,
                IF Abstract!Present(c.key) THEN Abstract!RecordOf(c.key).data ELSE NoData)
        <3>1. Abstract!Present(c.key) = TRUE
            BY <2>3 DEF Abstract!Present
        <3> QED BY <2>3, <2>4, <3>1
    <2> QED BY <1>2, <1>3, <2>5 DEF Abstract!Query
<1>6. CASE index = INVALID_INDEX
    <2>1. Reply(t, c, FALSE, 0, 0, NoData)
        BY <1>6 DEF QueryReturns, Fails
    <2>2. ~Abstract!Present(c.key)
        <3>1. ~Present(t)
            BY <1>1, <1>4, <1>6, Searched
        <3> QED BY <1>2, <1>4, <3>1, PresentMeans DEF Present
    <2>3. Abstract!Answers(t, "QueryOnKey", c.key, 0, NoData, FALSE, 0, 0, NoData)
        BY <1>1, <1>3, <2>1, ReplyAnswers
    <2>4. Abstract!Answers(t, "QueryOnKey", c.key, 0, NoData, Abstract!Present(c.key), 0, 0,
                IF Abstract!Present(c.key) THEN Abstract!RecordOf(c.key).data ELSE NoData)
        <3>1. Abstract!Present(c.key) = FALSE
            BY <2>2 DEF Abstract!Present
        <3> QED BY <2>3, <3>1
    <2> QED BY <1>2, <1>3, <2>4 DEF Abstract!Query
<1> QED BY <1>5, <1>6

\* SearchOnKey answers with its rank.
LEMMA SearchRefines ==
    ASSUME MapInv, NEW t \in Threads, Steps(t), SearchReturns(t)
    PROVE  Abstract!Search(t)
<1> DEFINE c == call[t]
<1>1. pc[t] = "searched" /\ c.op = "SearchOnKey" /\ UNCHANGED <<tableVars, updating>>
    BY DEF SearchReturns, After
<1>2. Abstract!Asks(t) /\ c \in Calls /\ c \in AnyCall
    BY <1>1, AsksOutside
<1>3. c.key \in Keys /\ c.data = NoData /\ c.arg = 0
    BY <1>1, <1>2, CallArguments
<1>4. TableOK /\ CriteriaOf(c) = SortingCriteria /\ IInv /\ OutcomeOK
    BY <1>1 DEF MapInv, FullInv, IInv, CriteriaOf
<1>5. CASE index # INVALID_INDEX
    <2>1. Reply(t, c, TRUE, index, index, NoData)
        BY <1>5 DEF SearchReturns
    <2>2. Found(t)
        BY <1>1, <1>4, <1>5, Searched
    <2>3. Abstract!Present(c.key) /\ Abstract!Above(c.key) = index
        BY <1>2, <1>4, <2>2, FoundMeans DEF Found
    <2>4. Abstract!Answers(t, "SearchOnKey", c.key, 0, NoData, TRUE, index, index, NoData)
        BY <1>1, <1>3, <2>1, ReplyAnswers
    <2>5. Abstract!Present(c.key) = TRUE
        BY <2>3 DEF Abstract!Present
    <2>6. Abstract!AnswersRange(t, "SearchOnKey", c.key, 0, Abstract!Present(c.key),
                                Abstract!Above(c.key), Abstract!Above(c.key))
        BY <2>3, <2>4, <2>5 DEF Abstract!AnswersRange
    <2> QED BY <1>2, <1>3, <2>6 DEF Abstract!Search
<1>6. CASE index = INVALID_INDEX
    <2>1. Reply(t, c, FALSE, 0, 0, NoData)
        BY <1>6 DEF SearchReturns, Fails
    <2>2. ~Abstract!Present(c.key)
        <3>1. ~Present(t)
            BY <1>1, <1>4, <1>6, Searched
        <3> QED BY <1>2, <1>4, <3>1, PresentMeans DEF Present
    <2>3. Abstract!Answers(t, "SearchOnKey", c.key, 0, NoData, FALSE, 0, 0, NoData)
        BY <1>1, <1>3, <2>1, ReplyAnswers
    <2>4. Abstract!Present(c.key) = FALSE
        BY <2>2 DEF Abstract!Present
    <2>5. Abstract!AnswersRange(t, "SearchOnKey", c.key, 0, Abstract!Present(c.key),
                                Abstract!Above(c.key), Abstract!Above(c.key))
        BY <2>3, <2>4 DEF Abstract!AnswersRange
    <2> QED BY <1>2, <1>3, <2>5 DEF Abstract!Search
<1> QED BY <1>5, <1>6

\* SearchOnKey2 answers with the rank of the nearest record.
LEMMA Key2Refines ==
    ASSUME MapInv, NEW t \in Threads, Steps(t), Key2Returns(t)
    PROVE  Abstract!SearchNearest(t)
<1> USE ConstantsOK
<1> DEFINE c == call[t]
           k == c.key
<1>1. pc[t] \in {"placed", "searched"} /\ c.op = "SearchOnKey2" /\ UNCHANGED <<tableVars, updating>>
    BY DEF Key2Returns, After
<1>2. Abstract!Asks(t) /\ c \in Calls /\ c \in AnyCall
    BY <1>1, AsksOutside
<1>3. k \in Keys /\ c.data = NoData /\ c.arg \in {2, 4}
    BY <1>1, <1>2, CallArguments
<1>4. TableOK /\ CriteriaOf(c) = SortingCriteria /\ IInv /\ OutcomeOK
    BY <1>1 DEF MapInv, FullInv, IInv, CriteriaOf
<1>5. PICK ok \in BOOLEAN : \E from, to :
        /\ Reply(t, c, ok, from, to, NoData) /\ Exact(c, ok, from, to, NoData)
        /\ from \in Int /\ (~ok => from = 0) /\ from = to
    <2>1. AnswersRange(t)
        BY <1>4, Key2Answers
    <2> QED BY <1>1, <2>1 DEF AnswersRange
<1>6. PICK from, to :
        /\ Reply(t, c, ok, from, to, NoData) /\ Exact(c, ok, from, to, NoData)
        /\ from \in Int /\ (~ok => from = 0) /\ from = to
    BY <1>5
<1>7. Abstract!Answers(t, "SearchOnKey2", k, c.arg, NoData, ok, from, from, NoData)
    BY <1>1, <1>3, <1>6, ReplyAnswers
<1>8. PICK a, b : Splits(c, a, b)
    BY <1>2, <1>4, TableSplits
<1>9. /\ TotNoOfRecords \in Nat /\ a \in Nat /\ b \in Nat /\ a <= b /\ b <= TotNoOfRecords
      /\ \A i : i \in Slots <=> i \in Nat /\ i < TotNoOfRecords
    BY <1>4, <1>8 DEF TableOK, TableTypeOK, Slots, Splits
<1>10. /\ Abstract!Present(k) <=> a < b
       /\ a < b => b = a + 1
       /\ Abstract!Above(k) = a
       /\ Abstract!Below(k) > 0 <=> b < TotNoOfRecords
    BY <1>2, <1>4, <1>8, MapSees
<1>11. /\ Abstract!Present(k) \in BOOLEAN
       /\ (Abstract!Above(k) > 0) \in BOOLEAN /\ (Abstract!Below(k) > 0) \in BOOLEAN
    BY <1>9, <1>10 DEF Abstract!Present
<1>12. /\ ok <=> Hits(c) # {}
       /\ ok => /\ from \in Hits(c)
                /\ \A i \in Hits(c) : IF c.arg = Greater THEN i <= from ELSE i >= from
    BY <1>1, <1>6 DEF Exact
<1>13. CASE c.arg = 4
    <2> DEFINE rank == IF Abstract!Present(k) THEN Abstract!Above(k) ELSE Abstract!Above(k) - 1
               found == Abstract!Present(k) \/ Abstract!Above(k) > 0
    <2>1. \A i \in Slots : i \in Hits(c) <=> i < b
        BY <1>1, <1>8, <1>9, <1>13 DEF Hits, Splits, Greater
    <2>2. Hits(c) \subseteq Slots
        BY DEF Hits
    <2>3. ok <=> b > 0
        <3>1. b > 0 => b - 1 \in Slots /\ b - 1 < b
            BY <1>9
        <3> QED BY <1>9, <1>12, <2>1, <2>2, <3>1
    <2>4. ok => from = b - 1
        <3> SUFFICES ASSUME ok PROVE from = b - 1
            OBVIOUS
        <3>1. b - 1 \in Slots /\ b - 1 \in Hits(c)
            BY <1>9, <2>1, <2>3
        <3>2. from >= b - 1 /\ from < b
            BY <1>9, <1>12, <1>13, <2>1, <2>2, <3>1 DEF Greater
        <3> QED BY <1>6, <1>9, <3>2
    <2>5. ok = found
        BY <1>9, <1>10, <1>11, <2>3
    <2>6. from = IF found THEN rank ELSE 0
        BY <1>6, <1>9, <1>10, <2>3, <2>4, <2>5
    <2>7. Abstract!AnswersRange(t, "SearchOnKey2", k, 4, found, rank, rank)
        <3> HIDE DEF found, rank
        <3> QED BY <1>7, <1>13, <2>5, <2>6 DEF Abstract!AnswersRange
    <2> QED BY <1>2, <1>3, <2>7 DEF Abstract!SearchNearest
<1>14. CASE c.arg = 2
    <2> DEFINE found == Abstract!Present(k) \/ Abstract!Below(k) > 0
    <2>1. \A i \in Slots : i \in Hits(c) <=> i >= a
        BY <1>1, <1>8, <1>9, <1>14 DEF Hits, Splits, Greater
    <2>2. Hits(c) \subseteq Slots
        BY DEF Hits
    <2>3. ok <=> a < TotNoOfRecords
        <3>1. a < TotNoOfRecords => a \in Slots
            BY <1>9
        <3> QED BY <1>9, <1>12, <2>1, <2>2, <3>1
    <2>4. ok => from = a
        <3> SUFFICES ASSUME ok PROVE from = a
            OBVIOUS
        <3>1. a \in Slots /\ a \in Hits(c)
            BY <1>9, <2>1, <2>3
        <3>2. from <= a /\ from >= a
            BY <1>9, <1>12, <1>14, <2>1, <2>2, <3>1 DEF Greater
        <3> QED BY <1>6, <1>9, <3>2
    <2>5. ok = found
        BY <1>9, <1>10, <1>11, <2>3
    <2>6. from = IF found THEN Abstract!Above(k) ELSE 0
        BY <1>6, <1>10, <2>4, <2>5
    <2>7. Abstract!AnswersRange(t, "SearchOnKey2", k, 2, found, Abstract!Above(k), Abstract!Above(k))
        <3> HIDE DEF found
        <3> QED BY <1>7, <1>14, <2>5, <2>6 DEF Abstract!AnswersRange
    <2> QED BY <1>2, <1>3, <2>7 DEF Abstract!SearchNearest
<1> QED BY <1>3, <1>13, <1>14

\* The SearchOnPrimary... methods answer with the ranks of the records that
\* agree on the levels asked for.
LEMMA PrefixRefines ==
    ASSUME MapInv, NEW t \in Threads, Steps(t), PrefixReturns(t)
    PROVE  Abstract!SearchPrefix(t)
<1> USE ConstantsOK
<1> DEFINE c == call[t]
           k == c.key
           D == SortingCriteria \cap 1 .. c.arg
           hits == {r \in DOMAIN mapBar :
                      Abstract!CompareKeys(D, k, mapBar[r].key) = Abstract!EqualKey}
           before == {r \in DOMAIN mapBar :
                        Abstract!CompareKeys(D, k, mapBar[r].key) = Abstract!SmallerKey}
           first == Abstract!Cardinality(before)
           last == first + Abstract!Cardinality(hits) - 1
<1>1. pc[t] = "searched" /\ c.op = "SearchOnPrefix" /\ UNCHANGED <<tableVars, updating>>
    BY DEF PrefixReturns, After
<1>2. Abstract!Asks(t) /\ c \in Calls /\ c \in AnyCall
    BY <1>1, AsksOutside
<1>3. k \in Keys /\ c.data = NoData /\ c.arg \in 1 .. 3
    BY <1>1, <1>2, CallArguments
<1>4. TableOK /\ CriteriaOf(c) = D /\ IInv /\ OutcomeOK
    BY <1>1 DEF MapInv, FullInv, IInv, CriteriaOf
<1>5. PICK ok \in BOOLEAN : \E from, to :
        /\ Reply(t, c, ok, from, to, NoData) /\ Exact(c, ok, from, to, NoData)
        /\ from \in Int /\ to \in Int /\ (~ok => from = 0 /\ to = 0)
    <2>1. AnswersRange(t)
        BY <1>4, PrefixAnswers
    <2> QED BY <2>1 DEF AnswersRange
<1>6. PICK from, to :
        /\ Reply(t, c, ok, from, to, NoData) /\ Exact(c, ok, from, to, NoData)
        /\ from \in Int /\ to \in Int /\ (~ok => from = 0 /\ to = 0)
    BY <1>5
<1>7. Abstract!Answers(t, "SearchOnPrefix", k, c.arg, NoData, ok, from, to, NoData)
    BY <1>1, <1>3, <1>6, ReplyAnswers
<1>8. PICK a, b : Splits(c, a, b)
    BY <1>2, <1>4, TableSplits
<1>9. /\ TotNoOfRecords \in Nat /\ a \in Nat /\ b \in Nat /\ a <= b /\ b <= TotNoOfRecords
      /\ \A i : i \in Slots <=> i \in Nat /\ i < TotNoOfRecords
    BY <1>4, <1>8 DEF TableOK, TableTypeOK, Slots, Splits
<1>10. ASSUME NEW i \in Slots
       PROVE  /\ Abstract!CompareKeys(D, k, mapBar[KeyAt(i)].key) = Abstract!EqualKey
                    <=> a <= i /\ i < b
              /\ Abstract!CompareKeys(D, k, mapBar[KeyAt(i)].key) = Abstract!SmallerKey <=> i < a
    <2>1. mapBar[KeyAt(i)].key = RecordAt(i).key
        BY <1>2, <1>4, MapCompares
    <2>2. Compare(CriteriaOf(c), k, i) = CompareKeys(D, k, RecordAt(i).key)
        BY <1>2, <1>4, MapCompares
    <2> DEFINE j == RecordAt(i).key
    <2>3. Abstract!CompareKeys(D, k, j) = CompareKeys(D, k, j)
        <3> HIDE DEF D, j, k
        <3> QED BY SameOrder
    <2>4. Abstract!EqualKey = EqualKey /\ Abstract!SmallerKey = SmallerKey
        BY SameOrder
    <2>5. /\ Compare(CriteriaOf(c), k, i) = SmallerKey <=> i < a
          /\ Compare(CriteriaOf(c), k, i) = EqualKey <=> a <= i /\ i < b
        BY <1>8 DEF Splits
    <2> QED BY <2>1, <2>2, <2>3, <2>4, <2>5
<1>11. DOMAIN mapBar = {KeyAt(i) : i \in Slots}
    BY <1>4, MapHolds
<1>12. hits = {KeyAt(i) : i \in a .. b - 1}
    <2>1. \A i : i \in a .. b - 1 <=> i \in Slots /\ a <= i /\ i < b
        BY <1>9
    <2> HIDE DEF D
    <2> QED BY <1>10, <1>11, <2>1, Zenon
<1>13. before = {KeyAt(i) : i \in 0 .. a - 1}
    <2>1. \A i : i \in 0 .. a - 1 <=> i \in Slots /\ i < a
        BY <1>9
    <2> HIDE DEF D
    <2> QED BY <1>10, <1>11, <2>1, Zenon
<1> HIDE DEF hits, before
<1>14. first = a
    <2>1. Cardinality({KeyAt(i) : i \in 0 .. a - 1}) = a - 0
        BY <1>4, <1>9, AsManyKeys
    <2>2. Abstract!Cardinality(before) = Cardinality({KeyAt(i) : i \in 0 .. a - 1})
        BY <1>13, SameCount, Zenon
    <2> QED BY <1>9, <2>1, <2>2
<1>15. last = b - 1
    <2>1. Cardinality({KeyAt(i) : i \in a .. b - 1}) = b - a
        BY <1>4, <1>9, AsManyKeys
    <2>2. Abstract!Cardinality(hits) = Cardinality({KeyAt(i) : i \in a .. b - 1})
        BY <1>12, SameCount, Zenon
    <2> QED BY <1>9, <1>14, <2>1, <2>2
<1>16. Hits(c) = a .. b - 1
    <2>1. \A i : i \in Hits(c) <=> i \in Slots /\ Compare(CriteriaOf(c), k, i) = EqualKey
        BY <1>1 DEF Hits
    <2>2. \A i \in Slots : Compare(CriteriaOf(c), k, i) = EqualKey <=> a <= i /\ i < b
        BY <1>8 DEF Splits
    <2>3. \A i : i \in a .. b - 1 <=> i \in Slots /\ a <= i /\ i < b
        BY <1>9
    <2>4. \A i : i \in Hits(c) <=> i \in a .. b - 1
        BY <2>1, <2>2, <2>3, Zenon
    <2> QED BY <2>4, Zenon
<1>17. (ok <=> Hits(c) # {}) /\ (ok => Hits(c) = from .. to)
    BY <1>1, <1>6 DEF Exact
<1>18. ok = (hits # {})
    <2>1. hits # {} <=> Hits(c) # {}
        BY <1>12, <1>16
    <2> QED BY <1>17, <2>1
<1>19. ok => from = first /\ to = last
    <2> SUFFICES ASSUME ok PROVE from = a /\ to = b - 1
        BY <1>14, <1>15
    <2>1. from .. to = a .. b - 1 /\ from .. to # {}
        BY <1>16, <1>17
    <2>2. from <= to /\ a <= b - 1
        BY <1>6, <1>9, <2>1
    <2>3. from \in a .. b - 1 /\ to \in a .. b - 1 /\ a \in from .. to /\ b - 1 \in from .. to
        <3>1. from \in from .. to /\ to \in from .. to /\ a \in a .. b - 1 /\ b - 1 \in a .. b - 1
            BY <1>6, <1>9, <2>2
        <3> QED BY <2>1, <3>1
    <2> QED BY <1>6, <1>9, <2>3
<1>20. Abstract!AnswersRange(t, "SearchOnPrefix", k, c.arg, hits # {}, first, last)
    <2>1. Abstract!Answers(t, "SearchOnPrefix", k, c.arg, NoData, hits # {},
                IF hits # {} THEN first ELSE 0, IF hits # {} THEN last ELSE 0, NoData)
        <3>1. from = (IF hits # {} THEN first ELSE 0) /\ to = (IF hits # {} THEN last ELSE 0)
            BY <1>6, <1>18, <1>19
        <3> HIDE DEF first, last
        <3> QED BY <1>7, <1>18, <3>1
    <2> HIDE DEF first, last
    <2> QED BY <2>1 DEF Abstract!AnswersRange
<1> QED BY <1>2, <1>3, <1>20 DEF Abstract!SearchPrefix, hits, before

\* QueryOnIndex answers with the record of that rank.
LEMMA RankRefines ==
    ASSUME MapInv, NEW t \in Threads, Steps(t), NEW i \in 0 .. MaxRecords, QueryOnIndex(t, i)
    PROVE  Abstract!QueryRank(t)
<1> USE ConstantsOK
<1>1. TableOK /\ ControlOK /\ TotNoOfRecords \in Nat
    BY DEF MapInv, FullInv, IInv, TableOK, TableTypeOK
<1>2. ~updating[t] /\ UNCHANGED <<tableVars, updating>>
    BY <1>1 DEF QueryOnIndex, ControlOK, UpdateStage
<1>3. Abstract!Asks(t)
    BY <1>1, <1>2, FreeOutside, ReplyOutside, MapStays DEF Abstract!Asks
<1>4. Abstract!Cardinality(DOMAIN mapBar) = TotNoOfRecords
    BY <1>1, MapSize
<1>5. ASSUME i < TotNoOfRecords
      PROVE  mapBar[CHOOSE r \in DOMAIN mapBar : Abstract!Rank(r) = i].data = RecordAt(i).data
    <2>1. \A j \in Slots : Abstract!Rank(KeyAt(j)) = j
        <3> SUFFICES ASSUME NEW j \in Slots PROVE Abstract!Rank(KeyAt(j)) = j
            OBVIOUS
        <3> DEFINE c == [op |-> "QueryOnKey", key |-> RecordAt(j).key, data |-> NoData, arg |-> 0]
        <3>1. c \in AnyCall /\ c.key = RecordAt(j).key /\ CriteriaOf(c) = SortingCriteria
            BY <1>1 DEF AnyCall, Methods, CriteriaOf, TableOK, Record
        <3>2. CompareKeys(SortingCriteria, c.key, RecordAt(j).key) = EqualKey
            <4>1. RecordAt(j).key \in AllKeys
                BY <1>1 DEF TableOK, Record
            <4> QED BY <3>1, <4>1, SortKeyTells
        <3>3. Compare(CriteriaOf(c), c.key, j) = EqualKey
            BY <1>1, <3>1, <3>2, MapCompares
        <3> HIDE DEF c
        <3>4. Abstract!Above(c.key) = j
            BY <1>1, <3>1, <3>3, FoundMeans
        <3>5. mapBar[KeyAt(j)].key = c.key
            BY <1>1, <3>1, MapCompares
        <3> QED BY <3>4, <3>5 DEF Abstract!Rank
    <2>2. i \in Slots
        BY <1>1, <1>5 DEF Slots
    <2> DEFINE r == CHOOSE r \in DOMAIN mapBar : Abstract!Rank(r) = i
    <2>3. KeyAt(i) \in DOMAIN mapBar /\ Abstract!Rank(KeyAt(i)) = i
        BY <1>1, <2>1, <2>2, MapHolds
    <2>4. r \in DOMAIN mapBar /\ Abstract!Rank(r) = i
        BY <2>3, Zenon
    <2> HIDE DEF r
    <2>5. PICK j \in Slots : r = KeyAt(j)
        BY <1>1, <2>4, MapHolds
    <2>6. j = i
        BY <2>1, <2>4, <2>5
    <2>7. mapBar[r] = RecordAt(i)
        BY <1>1, <2>2, <2>5, <2>6, MapHolds
    <2> QED BY <2>7 DEF r
<1>6. answer' = [by |-> t, op |-> "QueryOnIndex", ok |-> i < TotNoOfRecords, from |-> i, to |-> i,
                 data |-> IF i < TotNoOfRecords
                          THEN mapBar[CHOOSE r \in DOMAIN mapBar : Abstract!Rank(r) = i].data ELSE NoData]
    BY <1>5 DEF QueryOnIndex
<1>7. answer' = [by |-> t, op |-> "QueryOnIndex", ok |-> i < Abstract!Cardinality(DOMAIN mapBar),
                 from |-> i, to |-> i,
                 data |-> IF i < Abstract!Cardinality(DOMAIN mapBar)
                          THEN mapBar[CHOOSE r \in DOMAIN mapBar : Abstract!Rank(r) = i].data ELSE NoData]
    BY <1>4, <1>6
<1> QED BY <1>3, <1>7 DEF Abstract!QueryRank

\* ClearTable empties the map.
LEMMA ClearRefines ==
    ASSUME MapInv, TableOK', NEW t \in Threads, Steps(t), ClearTable(t)
    PROVE  Abstract!Clear(t)
<1>1. ControlOK /\ ~updating[t] /\ UNCHANGED updating
    BY DEF MapInv, FullInv, IInv, ClearTable, ControlOK, UpdateStage
<1>2. Abstract!Free(t) /\ updateBar' = updateBar
    BY <1>1, FreeOutside, ReplyOutside
<1>3. Slots' = {}
    BY DEF ClearTable, Slots
<1>4. mapBar' = [r \in {NewKeyAt(i) : i \in Slots'} |-> mapBar'[r]]
    BY NextMapIsShaped DEF NewShape
<1>5. mapBar' = [r \in {} |-> NoData]
    <2>1. {NewKeyAt(i) : i \in Slots'} = {}
        BY <1>3
    <2> QED BY <1>4, <2>1
<1> QED BY <1>2, <1>5 DEF ClearTable, Abstract!Clear

\* UpdateRecord's own steps: it finds its record, or fails, or returns.
LEMMA UpdateRefines ==
    ASSUME MapInv, NEW t \in Threads, Steps(t),
           UpdateFound(t) \/ UpdateNotFound(t) \/ UpdateReturns(t)
    PROVE  Abstract!UpdateBegins(t) \/ Abstract!UpdateFails(t) \/ Abstract!UpdateReturns(t)
<1> DEFINE c == call[t]
           k == call[t].key
           d == call[t].data
<1>1. /\ pc \in [Threads -> Pcs] /\ call \in [Threads -> AnyCall \cup {NoCall}]
      /\ updating \in [Threads -> BOOLEAN] /\ ret \in [Threads -> BOOLEAN]
      /\ TableOK /\ ControlOK /\ IInv /\ OutcomeOK
    BY DEF MapInv, FullInv, IInv, ControlOK, ControlTypeOK
<1>2. mapBar' = mapBar
    BY MapStays DEF UpdateFound, UpdateNotFound, UpdateReturns
<1>3. updateBar' = [updateBar EXCEPT ![t] = UpdateOf(t)'] /\ updateBar[t] = UpdateOf(t)
    BY <1>1, UpdateMoves
<1>4. CASE UpdateFound(t) \/ UpdateNotFound(t)
    <2>1. pc[t] = "searched" /\ c.op = "UpdateRecord"
        BY <1>4 DEF UpdateFound, UpdateNotFound, After
    <2>2. ~updating[t] /\ c \in Calls /\ c \in AnyCall
        BY <2>1, AsksOutside
    <2>3. k \in Keys /\ d \in Values \cup {NoData} /\ c.arg = 0
        BY <2>1, <2>2, CallArguments
    <2>4. CriteriaOf(c) = SortingCriteria
        BY <2>1 DEF CriteriaOf
    <2>5. Abstract!Free(t)
        BY <1>1, <2>2, FreeOutside
    <2>6. CASE UpdateFound(t)
        <3>1. Found(t)
            BY <1>1, <2>1, <2>6, Searched DEF UpdateFound
        <3>2. Abstract!Present(k)
            BY <1>1, <2>2, <2>4, <3>1, FoundMeans DEF Found
        <3>3. /\ updating'[t] /\ pc'[t] = "enter" /\ answer' = NoAnswer
              /\ call'[t] = [call[t] EXCEPT !.op = "DeleteRecord"]
            BY <1>1, <2>6 DEF UpdateFound, GoOn
        <3>4. call'[t].op = "DeleteRecord" /\ call'[t].key = k /\ call'[t].data = d
            BY <2>2, <3>3 DEF AnyCall
        <3>5. UpdateOf(t)' = [at |-> "remove", key |-> k, data |-> d]
            BY <3>3, <3>4 DEF UpdateOf
        <3>6. updateBar' = [updateBar EXCEPT ![t] = [at |-> "remove", key |-> k, data |-> d]]
            BY <1>3, <3>5
        <3> QED BY <1>2, <2>3, <2>5, <3>2, <3>3, <3>6 DEF Abstract!UpdateBegins, Abstract!Quiet
    <2>7. CASE UpdateNotFound(t)
        <3>1. ~Present(t)
            BY <1>1, <2>1, <2>7, Searched DEF UpdateNotFound
        <3>2. ~Abstract!Present(k)
            BY <1>1, <2>2, <2>4, <3>1, PresentMeans DEF Present
        <3>3. Reply(t, c, FALSE, 0, 0, NoData) /\ UNCHANGED updating
            BY <2>7 DEF UpdateNotFound, Fails
        <3>4. Abstract!Answers(t, "UpdateRecord", k, 0, d, FALSE, 0, 0, NoData)
            BY <2>1, <2>3, <3>3, ReplyAnswers
        <3>5. updateBar' = updateBar
            BY <1>1, <2>2, <3>3, ReplyOutside
        <3> QED BY <1>2, <2>3, <2>5, <3>2, <3>4, <3>5 DEF Abstract!UpdateFails
    <2> QED BY <1>4, <2>6, <2>7
<1>5. CASE UpdateReturns(t)
    <2>1. pc[t] = "relock"
        BY <1>5 DEF UpdateReturns
    <2>2. updating[t] /\ c.op = "UpdateRecord" /\ c.arg = 0
        BY <1>1, <2>1 DEF MapInv, OutcomeOK, ArgumentsOK
    <2>3. Reply(t, c, ret[t], 0, 0, NoData)
        BY <1>5 DEF UpdateReturns
    <2>4. Abstract!Answers(t, "UpdateRecord", k, 0, d, ret[t], 0, 0, NoData)
        BY <2>2, <2>3, ReplyAnswers
    <2>5. UpdateOf(t) = [at |-> "return", key |-> k, data |-> d, ok |-> ret[t]]
        BY <2>1, <2>2 DEF UpdateOf
    <2>6. /\ updateBar[t].at = "return" /\ updateBar[t].key = k /\ updateBar[t].data = d
          /\ updateBar[t].ok = ret[t]
        BY <1>3, <2>5
    <2>7. ~updating'[t]
        BY <1>1, <1>5 DEF UpdateReturns
    <2>8. UpdateOf(t)' = [at |-> "none"]
        BY <2>7 DEF UpdateOf
    <2>9. updateBar' = [updateBar EXCEPT ![t] = [at |-> "none"]]
        BY <1>3, <2>8
    <2> QED BY <1>2, <2>4, <2>6, <2>9 DEF Abstract!UpdateReturns, Abstract!NoUpdate
<1> QED BY <1>4, <1>5

\* Inserts and deletes that have taken the mutex, and the insert that the full
\* table refuses.
LEMMA ChangesRefine ==
    ASSUME MapInv, TableOK', NEW t \in Threads, Steps(t),
           \/ InsertCommits(t) \/ InsertRefused(t) \/ DeleteCommits(t) \/ DeleteNotFound(t)
           \/ \E c : InsertIntoFull(t, c)
    PROVE  \/ Abstract!Insert(t) \/ Abstract!UpdatePuts(t)
           \/ Abstract!Delete(t) \/ Abstract!UpdateRemoves(t)
<1> DEFINE c == call[t]
<1>1. ControlOK /\ TableOK /\ IInv /\ OutcomeOK
    BY DEF MapInv, FullInv, IInv
<1>2. ASSUME pc[t] \in {"placed", "searched"}
      PROVE  /\ c \in AnyCall /\ (~updating[t] => c \in Calls)
             /\ updating[t] => c = call[t] /\ pc[t] \notin {"idle", "relock"}
    BY <1>1, <1>2 DEF MapInv, ControlOK, ArgumentsOK
<1>3. CASE InsertCommits(t)
    <2>1. /\ pc[t] = "placed" /\ c.op = "InsertRecord" /\ UNCHANGED updating
          /\ InsertReturns(t, c, TRUE)
        BY <1>3 DEF InsertCommits, After
    <2>2. Abstract!Inserts(c.key, c.data, TRUE)
        BY <1>3, InsertPuts
    <2> QED BY <1>1, <1>2, <2>1, <2>2, InsertRefines
<1>4. CASE InsertRefused(t)
    <2>1. /\ pc[t] = "placed" /\ c.op = "InsertRecord" /\ UNCHANGED <<tableVars, updating>>
          /\ InsertReturns(t, c, FALSE)
        BY <1>4 DEF InsertRefused, After
    <2>2. Abstract!Inserts(c.key, c.data, FALSE)
        BY <1>2, <1>4, <2>1, InsertRefusal
    <2> QED BY <1>1, <1>2, <2>1, <2>2, InsertRefines
<1>5. CASE DeleteCommits(t)
    <2>1. /\ pc[t] = "searched" /\ c.op = "DeleteRecord" /\ UNCHANGED updating
          /\ DeleteReturns(t, c, TRUE)
        BY <1>5 DEF DeleteCommits, After
    <2>2. Abstract!Deletes(c.key, TRUE)
        BY <1>5, DeleteRemoves
    <2> QED BY <1>1, <1>2, <2>1, <2>2, DeleteRefines
<1>6. CASE DeleteNotFound(t)
    <2>1. /\ pc[t] = "searched" /\ c.op = "DeleteRecord" /\ UNCHANGED <<tableVars, updating>>
          /\ DeleteReturns(t, c, FALSE) /\ CriteriaOf(c) = SortingCriteria
        BY <1>6 DEF DeleteNotFound, After, CriteriaOf
    <2>2. ~Present(t)
        BY <1>1, <1>6, <2>1, Searched DEF DeleteNotFound
    <2>3. ~Abstract!Present(c.key)
        BY <1>1, <1>2, <2>1, <2>2, PresentMeans DEF Present
    <2>4. Abstract!Deletes(c.key, FALSE)
        BY <2>1, <2>3, MapStays DEF Abstract!Deletes
    <2> QED BY <1>1, <1>2, <2>1, <2>4, DeleteRefines
<1>7. ASSUME NEW d, InsertIntoFull(t, d)
      PROVE  Abstract!Insert(t) \/ Abstract!UpdatePuts(t)
    <2>1. /\ Starts(t, d) /\ d.op = "InsertRecord" /\ TotNoOfRecords >= MaxRecords
          /\ InsertReturns(t, d, FALSE) /\ UNCHANGED <<tableVars, updating>>
        BY <1>7 DEF InsertIntoFull
    <2>2. /\ d \in AnyCall /\ (~updating[t] => d \in Calls)
          /\ updating[t] => d = call[t] /\ pc[t] \notin {"idle", "relock"}
        BY <2>1, StartsInside
    <2>3. Abstract!Inserts(d.key, d.data, FALSE)
        BY <2>1, <2>2, InsertRefusal
    <2> QED BY <1>1, <2>1, <2>2, <2>3, InsertRefines
<1> QED BY <1>3, <1>4, <1>5, <1>6, <1>7

-----------------------------------------------------------------------------
\* The empty table is the empty map.
LEMMA InitIsMap == Init => Abstract!MapInit
<1> SUFFICES ASSUME Init PROVE Abstract!MapInit
    OBVIOUS
<1>1. Slots = {}
    BY DEF Init, Slots
<1>2. mapBar = [r \in {} |-> NoData]
    <2>1. {SortKey(SortingCriteria, RecordAt(i).key) : i \in Slots} = {}
        BY <1>1
    <2> QED BY <2>1 DEF mapBar
<1>3. updateBar = [t \in Threads |-> [at |-> "none"]]
    BY DEF Init, updateBar
<1> QED BY <1>2, <1>3 DEF Init, Abstract!MapInit, Abstract!NoUpdate

\* A step that changes nothing is one of the map's.
LEMMA StutterIsMap == UNCHANGED vars => UNCHANGED Abstract!mapVars
<1> SUFFICES ASSUME UNCHANGED vars PROVE UNCHANGED Abstract!mapVars
    OBVIOUS
<1>1. mapBar' = mapBar
    BY MapStays DEF vars, tableVars
<1>2. updateBar' = updateBar
    BY DEF vars, updateBar
<1> QED BY <1>1, <1>2 DEF vars, Abstract!mapVars

\* Every step of the table is one of the map.
LEMMA NextIsMap == MapInv /\ TableOK' /\ [Next]_vars => [Abstract!MapNext]_(Abstract!mapVars)
<1> SUFFICES ASSUME MapInv, TableOK', [Next]_vars PROVE [Abstract!MapNext]_(Abstract!mapVars)
    OBVIOUS
<1>1. CASE UNCHANGED vars
    BY <1>1, StutterIsMap
<1>2. ASSUME NEW t \in Threads, Enters(t) \/ Iterates(t) \/ Leaves(t) \/ Whole(t)
      PROVE  Abstract!MapNext
    <2>1. Steps(t)
        BY <1>2 DEF Steps
    <2>2. CASE Enters(t)
        <3>1. PICK c : InsertRecord(t, c) \/ InsertIntoFull(t, c) \/ SearchOnKey2(t, c) \/ SearchFirst(t, c)
            BY <2>2 DEF Enters
        <3>2. CASE InsertIntoFull(t, c)
            BY <2>1, <3>2, ChangesRefine DEF Abstract!MapNext
        <3>3. CASE InsertRecord(t, c) \/ SearchOnKey2(t, c) \/ SearchFirst(t, c)
            BY <2>1, <3>3, WorkingSteps DEF Abstract!MapNext
        <3> QED BY <3>1, <3>2, <3>3
    <2>3. CASE Iterates(t) \/ Key2SearchesAgain(t)
        BY <2>1, <2>3, WorkingSteps DEF Abstract!MapNext
    <2>4. CASE InsertCommits(t) \/ InsertRefused(t) \/ DeleteCommits(t) \/ DeleteNotFound(t)
        BY <2>1, <2>4, ChangesRefine DEF Abstract!MapNext
    <2>5. CASE UpdateFound(t) \/ UpdateNotFound(t) \/ UpdateReturns(t)
        BY <2>1, <2>5, UpdateRefines DEF Abstract!MapNext
    <2>6. CASE QueryReturns(t) \/ SearchReturns(t) \/ PrefixReturns(t) \/ Key2Returns(t)
        BY <2>1, <2>6, QueryRefines, SearchRefines, PrefixRefines, Key2Refines DEF Abstract!MapNext
    <2>7. CASE ClearTable(t)
        BY <2>1, <2>7, ClearRefines DEF Abstract!MapNext
    <2>8. ASSUME NEW i \in 0 .. MaxRecords, QueryOnIndex(t, i) PROVE Abstract!MapNext
        BY <2>1, <2>8, RankRefines DEF Abstract!MapNext
    <2> QED BY <1>2, <2>2, <2>3, <2>4, <2>5, <2>6, <2>7, <2>8 DEF Leaves, Whole
<1> QED BY <1>1, <1>2 DEF Next

\* The invariant the refinement rests on.
LEMMA MapInvHolds == Spec => []MapInv
<1>1. Init => MapInv
    BY InitFullInv DEF MapInv, Init, ArgumentsOK
<1>2. MapInv /\ [Next]_vars => MapInv'
    BY NextFullInv, NextArguments DEF MapInv, FullInv, IInv
<1> QED BY <1>1, <1>2, PTL DEF Spec

(***************************************************************************)
(* ImplementsMap: a table of any size, under any criteria and any number   *)
(* of threads, is a map by sort key of at most MaxRecords records, whose   *)
(* calls each take effect in one step and answer by the map at that step,  *)
(* UpdateRecord excepted: it looks, removes, puts and returns.             *)
(***************************************************************************)
THEOREM TableImplementsMap == Spec => ImplementsMap
<1>1. MapInv => TableOK
    BY DEF MapInv, FullInv, IInv
<1>2. Spec => Abstract!MapInit /\ [][Abstract!MapNext]_(Abstract!mapVars)
    BY <1>1, MapInvHolds, InitIsMap, NextIsMap, PTL DEF Spec
<1> QED BY <1>2 DEF ImplementsMap, Abstract!MapSpec
=============================================================================
