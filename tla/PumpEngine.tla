----------------------------- MODULE PumpEngine -----------------------------
(***************************************************************************)
(* The pump engines of tvserver/CLooperPumpEngines/CLooperRunnabler.h.     *)
(* Post wraps a runnable in a fresh CMessageHandler and sends it to the    *)
(* engine's looper; the engine's thread runs one handler at a time.  The   *)
(* key of a runnable (m_key of tvserver/IRunnable.h) names its latest      *)
(* handler, so that a post with `replace` can take that one back.          *)
(*                                                                         *)
(* Every access to a key is made under the m_mutex of SOME engine; the key *)
(* of a runnable that is posted to two engines has two mutexes and hence   *)
(* none, so the sections are split at each access.  A handler is freed     *)
(* with the last reference to it; keys and pointers do not count as such.  *)
(*                                                                         *)
(* The looper runs messages by due time.  Delays are arbitrary, so any     *)
(* pending handler may be the next.  The keep-alive is in PumpWatchDog.    *)
(***************************************************************************)
EXTENDS Integers, FiniteSets

CONSTANTS
    Engines,        \* each a CLooperRunnabler with its thread
    Callers,        \* other threads that call Post and Halt
    Runnables,
    Posts,          \* the posts that callers and runnables make
    Handlers,       \* CMessageHandlers; bounds how many exist at a time
    NULL,
    Dangling,       \* a pointer to a handler that has been freed
    Nobody          \* a mutex that is free

Threads == Callers \cup Engines

ASSUME PostsAssumption == Posts \subseteq [runnable : Runnables, engine : Engines, replace : BOOLEAN]
ASSUME ThreadsAssumption == Callers \cap Engines = {} /\ Nobody \notin Threads
ASSUME MemoryAssumption ==
    /\ IsFiniteSet(Handlers)
    /\ NULL \notin Handlers \cup Runnables \cup Posts
    /\ Dangling \notin Handlers \cup {NULL}

VARIABLES
    m_key,          \* of each runnable
    m_run,          \* the runnable of each handler, NULL when freed
    pending,        \* the handlers in each engine's looper
    running,        \* the handler each engine's thread is in
    at,             \* where each engine's thread is
    m_alive,
    m_mutex,        \* of each engine: the thread that holds it
    pc,             \* where each thread is in Post
    post,           \* the arguments of that Post
    rhdlr,          \* its handler: first the one to remove, then the new one
    undefined       \* runnables whose key led a thread to freed memory

vars == <<m_key, m_run, pending, running, at, m_alive, m_mutex, pc, post, rhdlr, undefined>>

Init ==
    /\ m_key = [r \in Runnables |-> NULL]
    /\ m_run = [h \in Handlers |-> NULL]
    /\ pending = [e \in Engines |-> {}]
    /\ running = [e \in Engines |-> NULL]
    /\ at = [e \in Engines |-> "poll"]
    /\ m_alive = [e \in Engines |-> TRUE]
    /\ m_mutex = [e \in Engines |-> Nobody]
    /\ pc = [t \in Threads |-> "idle"]
    /\ post = [t \in Threads |-> NULL]
    /\ rhdlr = [t \in Threads |-> NULL]
    /\ undefined = {}

\* Nothing more is said of a program that has used freed memory.
Defined == undefined = {}

Lock(e, t) == m_mutex[e] = Nobody /\ m_mutex' = [m_mutex EXCEPT ![e] = t]
Unlock(e)  == m_mutex' = [m_mutex EXCEPT ![e] = Nobody]

Goes(t, from, to) == Defined /\ pc[t] = from /\ pc' = [pc EXCEPT ![t] = to]
Moves(e, from, to) == Defined /\ at[e] = from /\ at' = [at EXCEPT ![e] = to]

Freed     == {h \in Handlers : m_run[h] = NULL}
Posting   == {t \in Threads : pc[t] \in {"key", "remove", "new"}}

\* Freeing a handler leaves the pointers to it dangling.
Frees(h) ==
    /\ m_run' = [m_run EXCEPT ![h] = NULL]
    /\ m_key' = [r \in Runnables |-> IF m_key[r] = h THEN Dangling ELSE m_key[r]]
    /\ rhdlr' = [t \in Threads |-> IF rhdlr[t] = h THEN Dangling ELSE rhdlr[t]]

\* References to h besides that of the looper of e.
StillReferenced(h, e) == \E f \in Engines : running[f] = h \/ (f # e /\ h \in pending[f])

-----------------------------------------------------------------------------
(***************************************************************************)
(* Post, by a caller or by what an engine's thread is running.             *)
(***************************************************************************)
Post(t, p) ==
    /\ t \in Engines => at[t] = "running"
    /\ Cardinality(Posting) < Cardinality(Freed)
    /\ Goes(t, "idle", IF p.replace THEN "key" ELSE "new")
    /\ Lock(p.engine, t)
    /\ post' = [post EXCEPT ![t] = p]
    /\ UNCHANGED <<m_key, m_run, pending, running, at, m_alive, rhdlr, undefined>>

ReadKey(t) ==
    LET h == m_key[post[t].runnable] IN
    /\ Goes(t, "key", IF h = NULL THEN "new" ELSE "remove")
    /\ rhdlr' = [rhdlr EXCEPT ![t] = h]
    /\ UNCHANGED <<m_key, m_run, pending, running, at, m_alive, m_mutex, post, undefined>>

\* Mutation of RemoveMessages: its reference to the handler is kept.
RemoveMessagesLeaks(t) ==
    LET h == rhdlr[t]
        e == post[t].engine
    IN  /\ Goes(t, "remove", "new") /\ h # Dangling
        /\ pending' = [pending EXCEPT ![e] = @ \ {h}]
        /\ UNCHANGED <<m_run, m_key, rhdlr, running, at, m_alive, m_mutex, post, undefined>>

\* Takes a reference, removes the handler's message, drops the reference.
RemoveMessages(t) ==
    LET h == rhdlr[t]
        e == post[t].engine
    IN  /\ Goes(t, "remove", "new") /\ h # Dangling
        /\ pending' = [pending EXCEPT ![e] = @ \ {h}]
        /\ IF StillReferenced(h, e) THEN UNCHANGED <<m_run, m_key, rhdlr>> ELSE Frees(h)
        /\ UNCHANGED <<running, at, m_alive, m_mutex, post, undefined>>

\* The constructor of CMessageHandler sets the key.
NewHandler(t) ==
    LET r == post[t].runnable IN
    /\ Goes(t, "new", "send")
    /\ \E h \in Freed :
          /\ m_run' = [m_run EXCEPT ![h] = r]
          /\ m_key' = [m_key EXCEPT ![r] = h]
          /\ rhdlr' = [rhdlr EXCEPT ![t] = h]
    /\ UNCHANGED <<pending, running, at, m_alive, m_mutex, post, undefined>>

\* Mutation of SendMessage: the runnable is sent in place of its handler.
SendRunnable(t) ==
    LET e == post[t].engine IN
    /\ Goes(t, "send", "idle")
    /\ rhdlr[t] # Dangling
    /\ pending' = [pending EXCEPT ![e] = @ \cup {post[t].runnable}]
    /\ rhdlr' = [rhdlr EXCEPT ![t] = NULL]
    /\ post' = [post EXCEPT ![t] = NULL]
    /\ Unlock(e)
    /\ UNCHANGED <<m_key, m_run, running, at, m_alive, undefined>>

SendMessage(t) ==
    LET e == post[t].engine IN
    /\ Goes(t, "send", "idle")
    /\ rhdlr[t] # Dangling
    /\ pending' = [pending EXCEPT ![e] = @ \cup {rhdlr[t]}]
    /\ rhdlr' = [rhdlr EXCEPT ![t] = NULL]
    /\ post' = [post EXCEPT ![t] = NULL]
    /\ Unlock(e)
    /\ UNCHANGED <<m_key, m_run, running, at, m_alive, undefined>>

\* The handler has been freed under this thread, or before the key led to it.
UsesFreed(t) ==
    /\ Defined
    /\ pc[t] \in {"remove", "send"} /\ rhdlr[t] = Dangling
    /\ undefined' = undefined \cup {post[t].runnable}
    /\ UNCHANGED <<m_key, m_run, pending, running, at, m_alive, m_mutex, pc, post, rhdlr>>

-----------------------------------------------------------------------------
(***************************************************************************)
(* The engine's thread: handleMessage of the handlers it takes.            *)
(***************************************************************************)
Take(e, h) ==
    /\ h \in pending[e]
    /\ Moves(e, "poll", "running")
    /\ pending' = [pending EXCEPT ![e] = @ \ {h}]
    /\ running' = [running EXCEPT ![e] = h]
    /\ UNCHANGED <<m_key, m_run, m_alive, m_mutex, pc, post, rhdlr, undefined>>

\* Run has returned.
RunEnds(e) ==
    /\ pc[e] = "idle"
    /\ Moves(e, "running", "compare")
    /\ Lock(e, e)
    /\ UNCHANGED <<m_key, m_run, pending, running, m_alive, pc, post, rhdlr, undefined>>

IsLatest(e) == m_key[m_run[running[e]]] = running[e]

\* Mutations of CompareKey and KeepKey: the key is cleared whatever handler
\* it names; it is left alone though it names this handler.
CompareNothing(e) ==
    /\ Moves(e, "compare", "clear")
    /\ UNCHANGED <<m_key, m_run, pending, running, m_alive, m_mutex, pc, post, rhdlr, undefined>>

KeepAnyKey(e) ==
    /\ Moves(e, "compare", "release")
    /\ Unlock(e)
    /\ UNCHANGED <<m_key, m_run, pending, running, m_alive, pc, post, rhdlr, undefined>>

CompareKey(e) ==
    /\ Moves(e, "compare", "clear")
    /\ IsLatest(e)
    /\ UNCHANGED <<m_key, m_run, pending, running, m_alive, m_mutex, pc, post, rhdlr, undefined>>

KeepKey(e) ==
    /\ Moves(e, "compare", "release")
    /\ ~IsLatest(e)
    /\ Unlock(e)
    /\ UNCHANGED <<m_key, m_run, pending, running, m_alive, pc, post, rhdlr, undefined>>

ClearKey(e) ==
    /\ Moves(e, "clear", "release")
    /\ m_key' = [m_key EXCEPT ![m_run[running[e]]] = NULL]
    /\ Unlock(e)
    /\ UNCHANGED <<m_run, pending, running, m_alive, pc, post, rhdlr, undefined>>

\* The looper drops the last reference to the handler it ran.
Release(e) ==
    /\ Moves(e, "release", "poll")
    /\ running' = [running EXCEPT ![e] = NULL]
    /\ Frees(running[e])
    /\ UNCHANGED <<pending, m_alive, m_mutex, pc, post, undefined>>

-----------------------------------------------------------------------------
\* Halt, up to the join; what is pending is never run if the thread ends first.
Halt(e) ==
    /\ Defined /\ m_alive[e]
    /\ m_alive' = [m_alive EXCEPT ![e] = FALSE]
    /\ UNCHANGED <<m_key, m_run, pending, running, at, m_mutex, pc, post, rhdlr, undefined>>

LoopEnds(e) ==
    /\ ~m_alive[e]
    /\ Moves(e, "poll", "ended")
    /\ UNCHANGED <<m_key, m_run, pending, running, m_alive, m_mutex, pc, post, rhdlr, undefined>>

PostStep(t) ==
    ReadKey(t) \/ RemoveMessages(t) \/ NewHandler(t) \/ SendMessage(t) \/ UsesFreed(t)

EngineStep(e) ==
    \/ \E h \in Handlers : Take(e, h)
    \/ RunEnds(e) \/ CompareKey(e) \/ KeepKey(e) \/ ClearKey(e) \/ Release(e) \/ LoopEnds(e)

Next ==
    \/ \E t \in Threads : PostStep(t) \/ \E p \in Posts : Post(t, p)
    \/ \E e \in Engines : EngineStep(e) \/ Halt(e)

Spec == Init /\ [][Next]_vars

-----------------------------------------------------------------------------
TypeOK ==
    /\ m_key \in [Runnables -> Handlers \cup {NULL, Dangling}]
    /\ m_run \in [Handlers -> Runnables \cup {NULL}]
    /\ pending \in [Engines -> SUBSET Handlers]
    /\ running \in [Engines -> Handlers \cup {NULL}]
    /\ at \in [Engines -> {"poll", "running", "compare", "clear", "release", "ended"}]
    /\ m_alive \in [Engines -> BOOLEAN]
    /\ m_mutex \in [Engines -> Threads \cup {Nobody}]
    /\ pc \in [Threads -> {"idle", "key", "remove", "new", "send"}]
    /\ post \in [Threads -> Posts \cup {NULL}]
    /\ rhdlr \in [Threads -> Handlers \cup {NULL, Dangling}]
    /\ undefined \subseteq Runnables

\* The runnables all whose posts go to one engine.
OneEngine(r) == \A p, q \in Posts : p.runnable = r /\ q.runnable = r => p.engine = q.engine

AlwaysReplaced(r) == \A p \in Posts : p.runnable = r => p.replace

PendingOf(r) == UNION {{h \in pending[e] : m_run[h] = r} : e \in Engines}

(***************************************************************************)
(* A key never leads to a freed handler (CLooperRunnabler.h:196), nor is a *)
(* new handler freed before it is sent (line 202), unless the runnable is  *)
(* posted to two engines: the mutex of one engine does guard its keys.     *)
(***************************************************************************)
FreedNeedsTwoEngines == \A r \in undefined : ~OneEngine(r)

(***************************************************************************)
(* Replacing works: of a runnable that is always posted with `replace`, to *)
(* one engine, at most one handler is pending, even though a handler that  *)
(* is finishing clears the key (line 84) while others are posted.          *)
(***************************************************************************)
ReplaceKeepsOne ==
    \A r \in Runnables : OneEngine(r) /\ AlwaysReplaced(r) => Cardinality(PendingOf(r)) <= 1

(***************************************************************************)
(* No handler, and no params in it, is lost: one that has been made for a  *)
(* runnable of one engine is freed unless it is pending, running, or about *)
(* to be sent.                                                             *)
(***************************************************************************)
NoHandlerLost ==
    Defined => \A h \in Handlers : m_run[h] # NULL =>
        \/ \E e \in Engines : h \in pending[e] \/ running[e] = h
        \/ \E t \in Threads : pc[t] = "send" /\ rhdlr[t] = h
=============================================================================
