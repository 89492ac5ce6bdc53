-------------------------- MODULE PumpEngineProofs --------------------------
(***************************************************************************)
(* Theorems about PumpEngine, for any engines, callers, runnables and      *)
(* posts.  Runnables of one engine are proved apart from what happens to   *)
(* those that two engines share, up to the first use of freed memory.      *)
(***************************************************************************)
EXTENDS PumpEngine, FiniteSetTheorems, TLAPS

(***************************************************************************)
(* The sections under m_mutex exclude each other; an engine's thread posts *)
(* only from what it runs.                                                 *)
(***************************************************************************)
SectionsOK ==
    /\ \A t \in Threads : pc[t] # "idle" => post[t] \in Posts /\ m_mutex[post[t].engine] = t
    /\ \A e \in Engines : pc[e] # "idle" => at[e] = "running"
    /\ \A e \in Engines : at[e] \in {"compare", "clear"} => m_mutex[e] = e

(***************************************************************************)
(* A handler in use is allocated and in one place: in one looper, run by   *)
(* one thread, or about to be sent by one.                                 *)
(***************************************************************************)
Busy(e) == at[e] \in {"running", "compare", "clear", "release"}

PlacesOK ==
    /\ \A e \in Engines : Busy(e) <=> running[e] # NULL
    /\ \A e \in Engines : Busy(e) => m_run[running[e]] # NULL
    /\ \A e, f \in Engines : Busy(e) /\ running[e] = running[f] => e = f
    /\ \A e \in Engines : \A h \in pending[e] :
          /\ m_run[h] # NULL
          /\ \A f \in Engines : running[f] # h /\ (h \in pending[f] => e = f)

SendingOK ==
    /\ \A t \in Threads : pc[t] = "send" =>
          \A e \in Engines : rhdlr[t] \notin pending[e] /\ (Busy(e) => rhdlr[t] # running[e])
    /\ \A t, u \in Threads :
          pc[t] = "send" /\ pc[u] = "send" /\ rhdlr[t] = rhdlr[u] /\ rhdlr[t] # Dangling => t = u

\* What pointers point to, unless they dangle.
PointersOK ==
    /\ \A r \in Runnables : m_key[r] \in Handlers => m_run[m_key[r]] = r
    /\ \A t \in Threads : pc[t] \in {"remove", "send"} =>
          /\ rhdlr[t] # NULL
          /\ rhdlr[t] \in Handlers => m_run[rhdlr[t]] = post[t].runnable

\* e is the only engine that r is posted to.
Home(r, e) == \A p \in Posts : p.runnable = r => p.engine = e

\* The handlers of a runnable of one engine are with that engine.
HomesOK == \A r \in Runnables : OneEngine(r) => \A e \in Engines :
    /\ \A h \in pending[e] : m_run[h] = r => Home(r, e)
    /\ Busy(e) /\ m_run[running[e]] = r => Home(r, e)

(***************************************************************************)
(* The key of a runnable of one engine.  It dangles only within a post     *)
(* that is about to set it anew.                                           *)
(***************************************************************************)
KeysOK == \A r \in Runnables : OneEngine(r) =>
    /\ m_key[r] = Dangling => \E t \in Threads : pc[t] = "new" /\ post[t].runnable = r
    /\ \A t \in Threads : pc[t] \in {"remove", "send"} /\ post[t].runnable = r =>
          m_key[r] \in Handlers /\ rhdlr[t] = m_key[r]
    /\ \A e \in Engines : at[e] = "clear" /\ m_run[running[e]] = r => m_key[r] = running[e]
    /\ \A e \in Engines : at[e] = "release" /\ m_run[running[e]] = r => m_key[r] # running[e]

\* If it is always replaced, the key names what is pending.
ReplacesOK == \A r \in Runnables : OneEngine(r) /\ AlwaysReplaced(r) =>
    \A e \in Engines : \A h \in pending[e] : m_run[h] = r =>
        /\ m_key[r] = h
        /\ \A t \in Threads : pc[t] = "new" => post[t].runnable # r

IInv ==
    /\ TypeOK /\ SectionsOK /\ PlacesOK /\ SendingOK /\ PointersOK /\ HomesOK /\ KeysOK
    /\ ReplacesOK /\ FreedNeedsTwoEngines /\ NoHandlerLost

-----------------------------------------------------------------------------
\* Idle engines, no handlers and no keys satisfy the invariant.
LEMMA InitIInv == Init => IInv
<1> SUFFICES ASSUME Init PROVE IInv
    OBVIOUS
<1>1. TypeOK
    BY ThreadsAssumption DEF Init, TypeOK
<1>2. NULL # Dangling
    BY MemoryAssumption
<1>3. SectionsOK /\ PlacesOK /\ SendingOK /\ PointersOK /\ HomesOK /\ KeysOK /\ ReplacesOK
    BY <1>2, MemoryAssumption
       DEF Init, SectionsOK, PlacesOK, SendingOK, PointersOK, HomesOK, KeysOK, ReplacesOK,
           Busy, Threads
<1>4. FreedNeedsTwoEngines /\ NoHandlerLost
    BY DEF Init, FreedNeedsTwoEngines, NoHandlerLost
<1> QED BY <1>1, <1>3, <1>4 DEF IInv

(***************************************************************************)
(* Two threads are never both posting a runnable of one engine, and none   *)
(* posts it while the engine compares or clears its key.                   *)
(***************************************************************************)
LEMMA Exclusion ==
    ASSUME TypeOK, SectionsOK, HomesOK, NEW r \in Runnables, OneEngine(r),
           NEW t \in Threads, pc[t] # "idle", post[t].runnable = r
    PROVE  /\ Home(r, post[t].engine)
           /\ \A u \in Threads : pc[u] # "idle" /\ post[u].runnable = r => u = t
           /\ \A e \in Engines : at[e] \in {"compare", "clear"} => m_run[running[e]] # r
<1>1. post[t] \in Posts /\ m_mutex[post[t].engine] = t
    BY DEF SectionsOK
<1>2. Home(r, post[t].engine)
    BY <1>1 DEF OneEngine, Home
<1>3. \A u \in Threads : pc[u] # "idle" /\ post[u].runnable = r => u = t
    BY <1>1, <1>2 DEF SectionsOK, Home
<1>4. ASSUME NEW e \in Engines, at[e] \in {"compare", "clear"}, m_run[running[e]] = r
      PROVE  FALSE
    <2>1. Home(r, e)
        BY <1>4 DEF HomesOK, Busy
    <2>2. e = t
        BY <1>1, <1>4, <2>1 DEF SectionsOK, Home
    <2> QED BY <1>4, <2>2 DEF SectionsOK
<1> QED BY <1>2, <1>3, <1>4

\* A thread enters Post: nothing but its section changes.
LEMMA PostKeeps ==
    ASSUME IInv, NEW t \in Threads, NEW p \in Posts, Post(t, p)
    PROVE  IInv'
<1>1. TypeOK'
    BY DEF Post, Goes, Lock, IInv, TypeOK
<1>2. SectionsOK'
    BY ThreadsAssumption, PostsAssumption DEF Post, Goes, Lock, IInv, SectionsOK, Threads, TypeOK
<1>3. PlacesOK'
    BY DEF Post, Goes, Lock, Busy, IInv, PlacesOK, Threads, TypeOK
<1>4. SendingOK'
    BY DEF Post, Goes, Lock, Busy, IInv, PlacesOK, SendingOK
<1>5. PointersOK'
    BY DEF Post, Goes, Lock, IInv, PointersOK
<1>6. HomesOK'
    BY DEF Post, Goes, Lock, Busy, HomesOK, IInv, PointersOK
<1>7. KeysOK'
    BY DEF Post, Goes, Lock, Busy, IInv, KeysOK
<1>8. ReplacesOK'
    BY DEF Post, Goes, AlwaysReplaced, IInv, TypeOK, ReplacesOK
<1>9. FreedNeedsTwoEngines'
    BY DEF Post, Goes, Lock, FreedNeedsTwoEngines, IInv, TypeOK
<1>10. NoHandlerLost'
    BY DEF Post, Goes, Lock, Defined, IInv, NoHandlerLost
<1> QED BY <1>1, <1>2, <1>3, <1>4, <1>5, <1>6, <1>7, <1>8, <1>9, <1>10 DEF IInv

\* The key is read: it is live, or there is nothing to remove.
LEMMA ReadKeyKeeps ==
    ASSUME IInv, NEW t \in Threads, ReadKey(t)
    PROVE  IInv'
<1>0. pc[t] # "idle" /\ post[t] \in Posts /\ post[t].runnable \in Runnables /\ post[t].engine \in Engines
    BY PostsAssumption DEF IInv, SectionsOK, ReadKey, Goes
<1> DEFINE r0 == post[t].runnable
<1>11. OneEngine(r0) =>
         /\ Home(r0, post[t].engine)
         /\ \A u \in Threads : pc[u] # "idle" /\ post[u].runnable = r0 => u = t
         /\ \A e \in Engines : at[e] \in {"compare", "clear"} => m_run[running[e]] # r0
    BY <1>0, Exclusion DEF IInv
<1>1. TypeOK'
    BY <1>0 DEF ReadKey, Goes, IInv, TypeOK
<1>2. SectionsOK'
    BY <1>0 DEF ReadKey, Goes, IInv, SectionsOK, TypeOK
<1>3. PlacesOK'
    BY <1>0 DEF ReadKey, Goes, Busy, IInv, PlacesOK
<1>4. SendingOK'
    BY <1>0 DEF ReadKey, Goes, Busy, IInv, PlacesOK, SendingOK
<1>5. PointersOK'
    BY <1>0 DEF ReadKey, Goes, IInv, PointersOK, TypeOK
<1>6. HomesOK'
    BY <1>0, <1>11 DEF ReadKey, Goes, Busy, HomesOK, IInv, PointersOK, TypeOK
<1>7. KeysOK'
    BY <1>0, <1>11 DEF ReadKey, Goes, Busy, IInv, KeysOK, TypeOK
<1>8. ReplacesOK'
    BY MemoryAssumption, <1>0, <1>11 DEF ReadKey, Goes, IInv, KeysOK, ReplacesOK, TypeOK
<1>9. FreedNeedsTwoEngines'
    BY <1>0, <1>11 DEF ReadKey, Goes, FreedNeedsTwoEngines, IInv, TypeOK
<1>10. NoHandlerLost'
    BY <1>0 DEF ReadKey, Goes, Defined, IInv, NoHandlerLost
<1> QED BY <1>1, <1>2, <1>3, <1>4, <1>5, <1>6, <1>7, <1>8, <1>9, <1>10 DEF IInv

\* The old handler is removed; if that frees it, pointers to it dangle, of which only
\* the key of this runnable can matter to a runnable of one engine.
LEMMA RemoveMessagesKeeps ==
    ASSUME IInv, NEW t \in Threads, RemoveMessages(t)
    PROVE  IInv'
<1>0. pc[t] # "idle" /\ post[t] \in Posts /\ post[t].runnable \in Runnables /\ post[t].engine \in Engines
    BY PostsAssumption DEF IInv, SectionsOK, RemoveMessages, Goes
<1> DEFINE r0 == post[t].runnable
<1>11. OneEngine(r0) =>
         /\ Home(r0, post[t].engine)
         /\ \A u \in Threads : pc[u] # "idle" /\ post[u].runnable = r0 => u = t
         /\ \A e \in Engines : at[e] \in {"compare", "clear"} => m_run[running[e]] # r0
    BY <1>0, Exclusion DEF IInv
<1>1. TypeOK'
    BY <1>0 DEF RemoveMessages, Goes, Frees, IInv, TypeOK, StillReferenced
<1>2. SectionsOK'
    BY <1>0 DEF RemoveMessages, Goes, Frees, IInv, SectionsOK, TypeOK, StillReferenced
<1>3. PlacesOK'
    BY <1>0 DEF RemoveMessages, Goes, Frees, Busy, IInv, PlacesOK, TypeOK, StillReferenced
<1>4. SendingOK'
    BY MemoryAssumption, <1>0
       DEF RemoveMessages, Goes, Frees, Busy, IInv, PlacesOK, SendingOK, TypeOK,
           StillReferenced
<1>5. PointersOK'
    BY MemoryAssumption, <1>0
       DEF RemoveMessages, Goes, Frees, IInv, PointersOK, TypeOK, StillReferenced
<1>6. HomesOK'
    BY <1>0, <1>11
       DEF RemoveMessages, Goes, Frees, Busy, HomesOK, IInv, PlacesOK, PointersOK, TypeOK,
           StillReferenced
<1>7. KeysOK'
    BY MemoryAssumption, <1>0, <1>11
       DEF RemoveMessages, Goes, Frees, Busy, IInv, KeysOK, PlacesOK, PointersOK, TypeOK,
           StillReferenced
<1>8. ReplacesOK'
    <2> SUFFICES ASSUME NEW r \in Runnables, OneEngine(r), AlwaysReplaced(r),
                        NEW e \in Engines, NEW h \in pending'[e], m_run'[h] = r
                 PROVE  m_key'[r] = h /\ \A u \in Threads : pc'[u] = "new" => post'[u].runnable # r
        BY DEF ReplacesOK
    <2>1. h \in pending[e] /\ h \in Handlers /\ m_run[h] = r
        BY <1>0, MemoryAssumption DEF RemoveMessages, Frees, IInv, TypeOK
    <2>2. m_key[r] = h /\ \A u \in Threads : pc[u] = "new" => post[u].runnable # r
        BY <2>1 DEF IInv, ReplacesOK
    <2>3. rhdlr[t] \in Handlers /\ m_run[rhdlr[t]] = r0 /\ pc[t] = "remove"
        BY <1>0 DEF RemoveMessages, Goes, IInv, TypeOK, PointersOK
    <2>4. r # r0
        <3> SUFFICES ASSUME r = r0 PROVE FALSE
            OBVIOUS
        <3>1. h = rhdlr[t]
            BY <2>2, <2>3 DEF IInv, KeysOK
        <3>2. e = post[t].engine
            BY <1>0, <2>1 DEF IInv, HomesOK, Home
        <3> QED BY <3>1, <3>2 DEF RemoveMessages, IInv, TypeOK
    <2>5. m_key'[r] = m_key[r]
        BY <2>1, <2>2, <2>3, <2>4 DEF RemoveMessages, Frees
    <2>6. pc' = [pc EXCEPT ![t] = "new"] /\ post' = post
        BY DEF RemoveMessages, Goes
    <2> QED BY <2>2, <2>4, <2>5, <2>6 DEF IInv
<1>9. FreedNeedsTwoEngines'
    BY <1>0, <1>11 DEF RemoveMessages, Goes, Frees, FreedNeedsTwoEngines, IInv, StillReferenced
<1>10. NoHandlerLost'
    BY <1>0 DEF RemoveMessages, Goes, Frees, Defined, IInv, NoHandlerLost, TypeOK, StillReferenced
<1> QED BY <1>1, <1>2, <1>3, <1>4, <1>5, <1>6, <1>7, <1>8, <1>9, <1>10 DEF IInv

\* The new handler was free, so nothing pointed to it.
LEMMA NewHandlerKeeps ==
    ASSUME IInv, NEW t \in Threads, NewHandler(t)
    PROVE  IInv'
<1>0. pc[t] # "idle" /\ post[t] \in Posts /\ post[t].runnable \in Runnables /\ post[t].engine \in Engines
    BY PostsAssumption DEF IInv, SectionsOK, NewHandler, Goes
<1> DEFINE r0 == post[t].runnable
<1>11. OneEngine(r0) =>
         /\ Home(r0, post[t].engine)
         /\ \A u \in Threads : pc[u] # "idle" /\ post[u].runnable = r0 => u = t
         /\ \A e \in Engines : at[e] \in {"compare", "clear"} => m_run[running[e]] # r0
    BY <1>0, Exclusion DEF IInv
<1>1. TypeOK'
    BY <1>0 DEF NewHandler, Goes, Freed, IInv, TypeOK
<1>2. SectionsOK'
    BY <1>0 DEF NewHandler, Goes, Freed, IInv, SectionsOK, TypeOK
<1>3. PlacesOK'
    BY <1>0 DEF NewHandler, Goes, Freed, Busy, IInv, PlacesOK
<1>12. PICK h \in Handlers :
          /\ m_run[h] = NULL
          /\ m_run' = [m_run EXCEPT ![h] = r0]
          /\ m_key' = [m_key EXCEPT ![r0] = h]
          /\ rhdlr' = [rhdlr EXCEPT ![t] = h]
    BY DEF NewHandler, Freed
<1>13. /\ pc' = [pc EXCEPT ![t] = "send"]
       /\ UNCHANGED <<pending, running, at, post>>
    BY DEF NewHandler, Goes
<1>14. \A u \in Threads : pc[u] \in {"remove", "send"} => rhdlr[u] # h
    BY <1>12, PostsAssumption, MemoryAssumption DEF IInv, SectionsOK, PointersOK
<1>15. \A f \in Engines : h \notin pending[f] /\ (Busy(f) => running[f] # h)
    BY <1>12 DEF IInv, PlacesOK
<1>4. SendingOK'
    BY <1>12, <1>13, <1>14, <1>15 DEF IInv, TypeOK, SendingOK, Busy
<1>5. PointersOK'
    <2>1. ASSUME NEW r \in Runnables, m_key'[r] \in Handlers
          PROVE  m_run'[m_key'[r]] = r
        BY <1>0, <1>12, <2>1, MemoryAssumption DEF IInv, TypeOK, PointersOK
    <2>2. ASSUME NEW u \in Threads, pc'[u] \in {"remove", "send"}
          PROVE  /\ rhdlr'[u] # NULL
                 /\ rhdlr'[u] \in Handlers => m_run'[rhdlr'[u]] = post'[u].runnable
        BY <1>0, <1>12, <1>13, <1>14, <2>2, MemoryAssumption DEF IInv, TypeOK, PointersOK
    <2> QED BY <2>1, <2>2 DEF PointersOK
<1>6. HomesOK'
    BY <1>0, <1>11 DEF NewHandler, Goes, Freed, Busy, HomesOK, IInv, PlacesOK
<1>7. KeysOK'
    BY MemoryAssumption, <1>0, <1>11
       DEF NewHandler, Goes, Freed, Busy, IInv, KeysOK, PlacesOK, TypeOK
<1>8. ReplacesOK'
    BY <1>0, <1>11 DEF NewHandler, Goes, Freed, IInv, KeysOK, PlacesOK, ReplacesOK, TypeOK
<1>9. FreedNeedsTwoEngines'
    BY <1>0, <1>11 DEF NewHandler, Goes, Freed, FreedNeedsTwoEngines, IInv
<1>10. NoHandlerLost'
    BY <1>0 DEF NewHandler, Goes, Freed, Defined, IInv, NoHandlerLost, TypeOK
<1> QED BY <1>1, <1>2, <1>3, <1>4, <1>5, <1>6, <1>7, <1>8, <1>9, <1>10 DEF IInv

\* The new handler moves from the thread to the looper.
LEMMA SendMessageKeeps ==
    ASSUME IInv, NEW t \in Threads, SendMessage(t)
    PROVE  IInv'
<1>0. pc[t] # "idle" /\ post[t] \in Posts /\ post[t].runnable \in Runnables /\ post[t].engine \in Engines
    BY PostsAssumption DEF IInv, SectionsOK, SendMessage, Goes
<1> DEFINE r0 == post[t].runnable
<1>11. OneEngine(r0) =>
         /\ Home(r0, post[t].engine)
         /\ \A u \in Threads : pc[u] # "idle" /\ post[u].runnable = r0 => u = t
         /\ \A e \in Engines : at[e] \in {"compare", "clear"} => m_run[running[e]] # r0
    BY <1>0, Exclusion DEF IInv
<1>1. TypeOK'
    <2>1. rhdlr[t] \in Handlers
        BY DEF SendMessage, Goes, IInv, TypeOK, PointersOK
    <2> QED BY <1>0, <2>1, ThreadsAssumption DEF SendMessage, Goes, Unlock, IInv, TypeOK
<1>2. SectionsOK'
    BY <1>0 DEF SendMessage, Goes, Unlock, IInv, SectionsOK, TypeOK
<1>3. PlacesOK'
    BY MemoryAssumption, <1>0
       DEF SendMessage, Goes, Unlock, Busy, IInv, PlacesOK, PointersOK, SendingOK, TypeOK
<1>4. SendingOK'
    BY <1>0 DEF SendMessage, Goes, Unlock, Busy, IInv, PlacesOK, PointersOK, SendingOK, TypeOK
<1>5. PointersOK'
    BY <1>0 DEF SendMessage, Goes, Unlock, IInv, PointersOK, TypeOK
<1>6. HomesOK'
    BY <1>0, <1>11 DEF SendMessage, Goes, Unlock, Busy, HomesOK, IInv, PointersOK, TypeOK
<1>7. KeysOK'
    BY <1>0, <1>11 DEF SendMessage, Goes, Unlock, Busy, IInv, KeysOK, PointersOK, TypeOK
<1>8. ReplacesOK'
    BY <1>0, <1>11 DEF SendMessage, Goes, Unlock, IInv, KeysOK, PointersOK, ReplacesOK, TypeOK
<1>9. FreedNeedsTwoEngines'
    BY <1>0, <1>11 DEF SendMessage, Goes, Unlock, FreedNeedsTwoEngines, IInv, TypeOK
<1>10. NoHandlerLost'
    BY <1>0 DEF SendMessage, Goes, Unlock, Defined, IInv, NoHandlerLost, TypeOK
<1> QED BY <1>1, <1>2, <1>3, <1>4, <1>5, <1>6, <1>7, <1>8, <1>9, <1>10 DEF IInv

\* Only a key of two engines leads to freed memory.
LEMMA UsesFreedKeeps ==
    ASSUME IInv, NEW t \in Threads, UsesFreed(t)
    PROVE  IInv'
<1>0. pc[t] # "idle" /\ post[t] \in Posts /\ post[t].runnable \in Runnables /\ post[t].engine \in Engines
    BY PostsAssumption DEF IInv, SectionsOK, UsesFreed, Goes
<1> DEFINE r0 == post[t].runnable
<1>11. OneEngine(r0) =>
         /\ Home(r0, post[t].engine)
         /\ \A u \in Threads : pc[u] # "idle" /\ post[u].runnable = r0 => u = t
         /\ \A e \in Engines : at[e] \in {"compare", "clear"} => m_run[running[e]] # r0
    BY <1>0, Exclusion DEF IInv
<1>1. TypeOK'
    BY <1>0 DEF UsesFreed, IInv, TypeOK
<1>2. SectionsOK'
    BY <1>0 DEF UsesFreed, IInv, SectionsOK, TypeOK
<1>3. PlacesOK'
    BY <1>0 DEF UsesFreed, Busy, IInv, PlacesOK
<1>4. SendingOK'
    BY <1>0 DEF UsesFreed, Busy, IInv, PlacesOK, SendingOK
<1>5. PointersOK'
    BY <1>0 DEF UsesFreed, IInv, PointersOK
<1>6. HomesOK'
    BY <1>0, <1>11 DEF UsesFreed, Busy, HomesOK, IInv, PointersOK
<1>7. KeysOK'
    BY <1>0, <1>11 DEF UsesFreed, Busy, IInv, KeysOK
<1>8. ReplacesOK'
    BY <1>0, <1>11 DEF UsesFreed, IInv, KeysOK, ReplacesOK
<1>9. FreedNeedsTwoEngines'
    BY <1>0, <1>11 DEF UsesFreed, FreedNeedsTwoEngines, IInv, KeysOK
<1>10. NoHandlerLost'
    BY <1>0 DEF UsesFreed, Defined, IInv, NoHandlerLost
<1> QED BY <1>1, <1>2, <1>3, <1>4, <1>5, <1>6, <1>7, <1>8, <1>9, <1>10 DEF IInv

\* A handler moves from the looper to the thread.
LEMMA TakeKeeps ==
    ASSUME IInv, NEW e \in Engines, NEW h \in Handlers, Take(e, h)
    PROVE  IInv'
<1>1. TypeOK'
    BY DEF Take, Moves, IInv, TypeOK
<1>2. SectionsOK'
    BY DEF Take, Moves, IInv, SectionsOK, TypeOK
<1>3. PlacesOK'
    BY DEF Take, Moves, Busy, IInv, PlacesOK, TypeOK
<1>4. SendingOK'
    BY DEF Take, Moves, Busy, IInv, PlacesOK, SendingOK, TypeOK
<1>5. PointersOK'
    BY DEF Take, Moves, IInv, PointersOK, TypeOK
<1>6. HomesOK'
    BY DEF Take, Moves, Busy, HomesOK, IInv, PointersOK, TypeOK
<1>7. KeysOK'
    BY DEF Take, Moves, Busy, IInv, KeysOK, TypeOK
<1>8. ReplacesOK'
    BY DEF Take, Moves, IInv, KeysOK, ReplacesOK
<1>9. FreedNeedsTwoEngines'
    BY DEF Take, Moves, FreedNeedsTwoEngines, IInv
<1>10. NoHandlerLost'
    BY MemoryAssumption DEF Take, Moves, Defined, Busy, IInv, NoHandlerLost, PlacesOK, TypeOK
<1> QED BY <1>1, <1>2, <1>3, <1>4, <1>5, <1>6, <1>7, <1>8, <1>9, <1>10 DEF IInv

\* The engine enters its section, once it is free.
LEMMA RunEndsKeeps ==
    ASSUME IInv, NEW e \in Engines, RunEnds(e)
    PROVE  IInv'
<1>1. TypeOK'
    BY DEF RunEnds, Moves, Lock, IInv, Threads, TypeOK
<1>2. SectionsOK'
    BY ThreadsAssumption DEF RunEnds, Moves, Lock, IInv, SectionsOK, Threads, TypeOK
<1>3. PlacesOK'
    BY DEF RunEnds, Moves, Lock, Busy, IInv, PlacesOK, TypeOK
<1>4. SendingOK'
    BY DEF RunEnds, Moves, Lock, Busy, IInv, PlacesOK, SendingOK
<1>5. PointersOK'
    BY DEF RunEnds, Moves, Lock, IInv, PointersOK
<1>6. HomesOK'
    BY DEF RunEnds, Moves, Lock, Busy, HomesOK, IInv, PointersOK
<1>7. KeysOK'
    BY DEF RunEnds, Moves, Lock, Busy, IInv, KeysOK
<1>8. ReplacesOK'
    BY DEF RunEnds, Moves, Lock, IInv, KeysOK, ReplacesOK
<1>9. FreedNeedsTwoEngines'
    BY DEF RunEnds, Moves, Lock, FreedNeedsTwoEngines, IInv
<1>10. NoHandlerLost'
    BY DEF RunEnds, Moves, Lock, Defined, IInv, NoHandlerLost
<1> QED BY <1>1, <1>2, <1>3, <1>4, <1>5, <1>6, <1>7, <1>8, <1>9, <1>10 DEF IInv

\* The key names the handler that has run.
LEMMA CompareKeyKeeps ==
    ASSUME IInv, NEW e \in Engines, CompareKey(e)
    PROVE  IInv'
<1>1. TypeOK'
    BY DEF CompareKey, Moves, IInv, TypeOK, IsLatest
<1>2. SectionsOK'
    BY DEF CompareKey, Moves, IInv, SectionsOK, TypeOK, IsLatest
<1>3. PlacesOK'
    BY DEF CompareKey, Moves, Busy, IInv, PlacesOK, IsLatest
<1>4. SendingOK'
    BY DEF CompareKey, Moves, Busy, IInv, PlacesOK, SendingOK, IsLatest
<1>5. PointersOK'
    BY DEF CompareKey, Moves, IInv, PointersOK, IsLatest
<1>6. HomesOK'
    BY DEF CompareKey, Moves, Busy, HomesOK, IInv, PointersOK, IsLatest
<1>7. KeysOK'
    BY DEF CompareKey, Moves, Busy, IInv, KeysOK, IsLatest
<1>8. ReplacesOK'
    BY DEF CompareKey, Moves, IInv, KeysOK, ReplacesOK, IsLatest
<1>9. FreedNeedsTwoEngines'
    BY DEF CompareKey, Moves, FreedNeedsTwoEngines, IInv, IsLatest
<1>10. NoHandlerLost'
    BY DEF CompareKey, Moves, Defined, IInv, NoHandlerLost, IsLatest
<1> QED BY <1>1, <1>2, <1>3, <1>4, <1>5, <1>6, <1>7, <1>8, <1>9, <1>10 DEF IInv

\* The key names another handler.
LEMMA KeepKeyKeeps ==
    ASSUME IInv, NEW e \in Engines, KeepKey(e)
    PROVE  IInv'
<1>1. TypeOK'
    BY DEF KeepKey, Moves, Unlock, IInv, TypeOK, IsLatest
<1>2. SectionsOK'
    BY DEF KeepKey, Moves, Unlock, IInv, SectionsOK, TypeOK, IsLatest
<1>3. PlacesOK'
    BY DEF KeepKey, Moves, Unlock, Busy, IInv, PlacesOK, TypeOK, IsLatest
<1>4. SendingOK'
    BY DEF KeepKey, Moves, Unlock, Busy, IInv, PlacesOK, SendingOK, IsLatest
<1>5. PointersOK'
    BY DEF KeepKey, Moves, Unlock, IInv, PointersOK, IsLatest
<1>6. HomesOK'
    BY DEF KeepKey, Moves, Unlock, Busy, HomesOK, IInv, PointersOK, IsLatest
<1>7. KeysOK'
    BY DEF KeepKey, Moves, Unlock, Busy, IInv, KeysOK, IsLatest
<1>8. ReplacesOK'
    BY DEF KeepKey, Moves, Unlock, IInv, KeysOK, ReplacesOK, IsLatest
<1>9. FreedNeedsTwoEngines'
    BY DEF KeepKey, Moves, Unlock, FreedNeedsTwoEngines, IInv, IsLatest
<1>10. NoHandlerLost'
    BY DEF KeepKey, Moves, Unlock, Defined, IInv, NoHandlerLost, IsLatest
<1> QED BY <1>1, <1>2, <1>3, <1>4, <1>5, <1>6, <1>7, <1>8, <1>9, <1>10 DEF IInv

\* A key that names a running handler names no pending one.
LEMMA ClearKeyKeeps ==
    ASSUME IInv, NEW e \in Engines, ClearKey(e)
    PROVE  IInv'
<1>1. TypeOK'
    BY DEF ClearKey, Moves, Unlock, IInv, TypeOK
<1>2. SectionsOK'
    BY DEF ClearKey, Moves, Unlock, IInv, SectionsOK, TypeOK
<1>3. PlacesOK'
    BY DEF ClearKey, Moves, Unlock, Busy, IInv, PlacesOK, TypeOK
<1>4. SendingOK'
    BY DEF ClearKey, Moves, Unlock, Busy, IInv, PlacesOK, SendingOK
<1>5. PointersOK'
    BY MemoryAssumption DEF ClearKey, Moves, Unlock, IInv, PointersOK
<1>6. HomesOK'
    BY DEF ClearKey, Moves, Unlock, Busy, HomesOK, IInv, PointersOK
<1>7. KeysOK'
    <2> SUFFICES ASSUME NEW r \in Runnables, OneEngine(r)
                 PROVE
        /\ m_key'[r] = Dangling => \E t \in Threads : pc'[t] = "new" /\ post'[t].runnable = r
        /\ \A t \in Threads : pc'[t] \in {"remove", "send"} /\ post'[t].runnable = r =>
              m_key'[r] \in Handlers /\ rhdlr'[t] = m_key'[r]
        /\ \A f \in Engines : at'[f] = "clear" /\ m_run'[running'[f]] = r => m_key'[r] = running'[f]
        /\ \A f \in Engines : at'[f] = "release" /\ m_run'[running'[f]] = r => m_key'[r] # running'[f]
        BY DEF KeysOK
    <2> DEFINE r1 == m_run[running[e]]
    <2>1. /\ at[e] = "clear" /\ at' = [at EXCEPT ![e] = "release"]
          /\ m_key' = [m_key EXCEPT ![r1] = NULL]
          /\ UNCHANGED <<m_run, running, pc, post, rhdlr>>
        BY DEF ClearKey, Moves
    <2>2. KeysOK
        BY DEF IInv
    <2>3. CASE r # r1
        <3>1. m_key'[r] = m_key[r]
            BY <2>1, <2>3 DEF IInv
        <3> QED BY <2>1, <2>2, <2>3, <3>1 DEF KeysOK, IInv
    <2>4. CASE r = r1
        <3>1. m_key'[r] = NULL /\ NULL # Dangling
            BY <2>1, <2>4, MemoryAssumption DEF IInv, TypeOK
        <3>2. \A t \in Threads : pc[t] # "idle" => post[t].runnable # r
            BY <2>1, <2>4, Exclusion DEF IInv
        <3>3. \A f \in Engines : at[f] = "clear" /\ m_run[running[f]] = r => f = e
            BY <2>1, <2>2, <2>4 DEF KeysOK, IInv, PlacesOK, Busy
        <3>4. \A f \in Engines : at'[f] = "release" => running[f] # NULL
            BY <2>1 DEF IInv, PlacesOK, Busy
        <3>5. \A f \in Engines : ~(at'[f] = "clear" /\ m_run[running[f]] = r)
            BY <2>1, <3>3 DEF IInv, TypeOK
        <3> QED BY <2>1, <3>1, <3>2, <3>4, <3>5
    <2> QED BY <2>3, <2>4
<1>8. ReplacesOK'
    BY DEF ClearKey, Moves, Unlock, IInv, KeysOK, PlacesOK, ReplacesOK
<1>9. FreedNeedsTwoEngines'
    BY DEF ClearKey, Moves, Unlock, FreedNeedsTwoEngines, IInv
<1>10. NoHandlerLost'
    BY DEF ClearKey, Moves, Unlock, Defined, IInv, NoHandlerLost
<1> QED BY <1>1, <1>2, <1>3, <1>4, <1>5, <1>6, <1>7, <1>8, <1>9, <1>10 DEF IInv

\* No key of one engine is left to a handler that is released.
LEMMA ReleaseKeeps ==
    ASSUME IInv, NEW e \in Engines, Release(e)
    PROVE  IInv'
<1>1. TypeOK'
    BY DEF Release, Moves, Frees, IInv, TypeOK
<1>2. SectionsOK'
    BY DEF Release, Moves, Frees, IInv, SectionsOK, TypeOK
<1>3. PlacesOK'
    BY MemoryAssumption DEF Release, Moves, Frees, Busy, IInv, PlacesOK, TypeOK
<1>4. SendingOK'
    BY DEF Release, Moves, Frees, Busy, IInv, PlacesOK, SendingOK, TypeOK
<1>5. PointersOK'
    BY MemoryAssumption DEF Release, Moves, Frees, IInv, PointersOK, TypeOK
<1>6. HomesOK'
    BY DEF Release, Moves, Frees, Busy, HomesOK, IInv, PlacesOK, PointersOK, TypeOK
<1>7. KeysOK'
    BY DEF Release, Moves, Frees, Busy, IInv, KeysOK, PlacesOK, PointersOK, TypeOK
<1>8. ReplacesOK'
    BY DEF Release, Moves, Frees, Busy, IInv, KeysOK, PlacesOK, PointersOK, ReplacesOK, TypeOK
<1>9. FreedNeedsTwoEngines'
    BY DEF Release, Moves, Frees, FreedNeedsTwoEngines, IInv
<1>10. NoHandlerLost'
    BY ThreadsAssumption DEF Release, Moves, Frees, Defined, IInv, NoHandlerLost, TypeOK
<1> QED BY <1>1, <1>2, <1>3, <1>4, <1>5, <1>6, <1>7, <1>8, <1>9, <1>10 DEF IInv

\* Halting moves no handler.
LEMMA HaltKeeps ==
    ASSUME IInv, NEW e \in Engines, Halt(e)
    PROVE  IInv'
<1>1. TypeOK'
    BY DEF Halt, IInv, TypeOK
<1>2. SectionsOK'
    BY DEF Halt, IInv, SectionsOK, TypeOK
<1>3. PlacesOK'
    BY DEF Halt, Busy, IInv, PlacesOK
<1>4. SendingOK'
    BY DEF Halt, Busy, IInv, PlacesOK, SendingOK
<1>5. PointersOK'
    BY DEF Halt, IInv, PointersOK
<1>6. HomesOK'
    BY DEF Halt, Busy, HomesOK, IInv, PointersOK
<1>7. KeysOK'
    BY DEF Halt, Busy, IInv, KeysOK
<1>8. ReplacesOK'
    BY DEF Halt, IInv, KeysOK, ReplacesOK
<1>9. FreedNeedsTwoEngines'
    BY DEF Halt, FreedNeedsTwoEngines, IInv
<1>10. NoHandlerLost'
    BY DEF Halt, Defined, IInv, NoHandlerLost
<1> QED BY <1>1, <1>2, <1>3, <1>4, <1>5, <1>6, <1>7, <1>8, <1>9, <1>10 DEF IInv

\* An ended thread is in no handler.
LEMMA LoopEndsKeeps ==
    ASSUME IInv, NEW e \in Engines, LoopEnds(e)
    PROVE  IInv'
<1>1. TypeOK'
    BY DEF LoopEnds, Moves, IInv, TypeOK
<1>2. SectionsOK'
    BY DEF LoopEnds, Moves, IInv, SectionsOK, TypeOK
<1>3. PlacesOK'
    BY DEF LoopEnds, Moves, Busy, IInv, PlacesOK
<1>4. SendingOK'
    BY DEF LoopEnds, Moves, Busy, IInv, PlacesOK, SendingOK
<1>5. PointersOK'
    BY DEF LoopEnds, Moves, IInv, PointersOK
<1>6. HomesOK'
    BY DEF LoopEnds, Moves, Busy, HomesOK, IInv, PointersOK
<1>7. KeysOK'
    BY DEF LoopEnds, Moves, Busy, IInv, KeysOK
<1>8. ReplacesOK'
    BY DEF LoopEnds, Moves, IInv, KeysOK, ReplacesOK
<1>9. FreedNeedsTwoEngines'
    BY DEF LoopEnds, Moves, FreedNeedsTwoEngines, IInv
<1>10. NoHandlerLost'
    BY DEF LoopEnds, Moves, Defined, IInv, NoHandlerLost
<1> QED BY <1>1, <1>2, <1>3, <1>4, <1>5, <1>6, <1>7, <1>8, <1>9, <1>10 DEF IInv
-----------------------------------------------------------------------------
\* Every step keeps the invariant.
LEMMA NextIInv == IInv /\ [Next]_vars => IInv'
<1> SUFFICES ASSUME IInv, [Next]_vars PROVE IInv'
    OBVIOUS
<1>1. ASSUME NEW t \in Threads, PostStep(t) PROVE IInv'
    BY <1>1, ReadKeyKeeps, RemoveMessagesKeeps, NewHandlerKeeps, SendMessageKeeps, UsesFreedKeeps
       DEF PostStep
<1>2. ASSUME NEW t \in Threads, NEW p \in Posts, Post(t, p) PROVE IInv'
    BY <1>2, PostKeeps
<1>3. ASSUME NEW e \in Engines, EngineStep(e) PROVE IInv'
    BY <1>3, TakeKeeps, RunEndsKeeps, CompareKeyKeeps, KeepKeyKeeps, ClearKeyKeeps, ReleaseKeeps,
       LoopEndsKeeps
       DEF EngineStep
<1>4. ASSUME NEW e \in Engines, Halt(e) PROVE IInv'
    BY <1>4, HaltKeeps
<1>5. CASE UNCHANGED vars
    <2>1. TypeOK' /\ SectionsOK' /\ PointersOK' /\ FreedNeedsTwoEngines'
        BY <1>5 DEF vars, IInv, TypeOK, SectionsOK, PointersOK, FreedNeedsTwoEngines
    <2>2. PlacesOK' /\ SendingOK' /\ HomesOK'
        BY <1>5 DEF vars, IInv, PlacesOK, SendingOK, HomesOK, Busy
    <2>3. KeysOK' /\ ReplacesOK'
        BY <1>5 DEF vars, IInv, KeysOK, ReplacesOK
    <2>4. NoHandlerLost'
        BY <1>5 DEF vars, IInv, NoHandlerLost, Defined
    <2> QED BY <2>1, <2>2, <2>3, <2>4 DEF IInv
<1> QED BY <1>1, <1>2, <1>3, <1>4, <1>5 DEF Next

-----------------------------------------------------------------------------
\* The invariant holds in every state of every run of the engines.
THEOREM EnginesAreSound == Spec => []IInv
BY InitIInv, NextIInv, PTL DEF Spec

\* The types hold.
THEOREM EngineTypeCorrect == Spec => []TypeOK
BY EnginesAreSound, PTL DEF IInv

(***************************************************************************)
(* The mutex of one engine is enough for the keys of the runnables that    *)
(* only it is given: they never lead to a freed handler.                   *)
(***************************************************************************)
THEOREM KeysLeadToHandlers == Spec => []FreedNeedsTwoEngines
BY EnginesAreSound, PTL DEF IInv

\* Handlers, and the params in them, are freed with their last use.
THEOREM HandlersAccounted == Spec => []NoHandlerLost
BY EnginesAreSound, PTL DEF IInv

(***************************************************************************)
(* Of a runnable of one engine that is always replaced, only the handler   *)
(* its key names can be pending.                                           *)
(***************************************************************************)
THEOREM ReplacingKeepsOne == Spec => []ReplaceKeepsOne
<1>1. IInv => ReplaceKeepsOne
    <2> SUFFICES ASSUME IInv, NEW r \in Runnables, OneEngine(r), AlwaysReplaced(r)
                 PROVE  Cardinality(PendingOf(r)) <= 1
        BY DEF ReplaceKeepsOne
    <2>1. PendingOf(r) \subseteq {m_key[r]}
        BY DEF PendingOf, IInv, ReplacesOK
    <2>2. IsFiniteSet({m_key[r]}) /\ Cardinality({m_key[r]}) = 1
        BY FS_Singleton
    <2>3. /\ Cardinality(PendingOf(r)) \in Nat
          /\ Cardinality(PendingOf(r)) <= Cardinality({m_key[r]})
        BY <2>1, <2>2, FS_Subset, FS_CardinalityType
    <2> QED BY <2>2, <2>3
<1> QED BY <1>1, EnginesAreSound, PTL
=============================================================================
