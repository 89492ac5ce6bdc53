---------------------------- MODULE PumpWatchDog ----------------------------
(***************************************************************************)
(* The watchdog of the pump engines: tvserver/CLooperPumpEngines/          *)
(* PumpWatchDog.h, with the part of CLooperRunnabler.h that feeds it.      *)
(* A keep-alive, a runnable the engine posts to itself, moves the "bite"   *)
(* of the engine, a delayed message of the watchdog's looper, BiteInterval *)
(* ahead.  When the bite is due, the watchdog's thread aborts the process. *)
(*                                                                         *)
(* One engine is modelled: others have bites of their own.  The sections   *)
(* under wdMutex are single steps.  Time is counted in ticks; it passes    *)
(* while the engine polls with nothing due, or works, while a caller waits *)
(* for the thread and between calls.  The few instructions between these   *)
(* take none.                                                              *)
(***************************************************************************)
EXTENDS Integers

CONSTANTS
    AliveInterval,      \* LOOPER_SEND_ALIVE_INTERVAL
    BiteInterval,       \* BITE_INTERVAL_MS
    Never               \* no message is in the looper

ASSUME IntervalsAssumption ==
    /\ AliveInterval \in Nat \ {0} /\ BiteInterval \in Nat
    /\ AliveInterval < BiteInterval
ASSUME NeverAssumption == Never \notin Int

VARIABLES
    at,             \* where the engine's thread is
    m_wdmsg,        \* has the engine got its watchdog message?
    m_alive,
    alive,          \* ticks until the keep-alive is due
    bite,           \* ticks until the bite is due
    bitten,         \* the process has been aborted
    halt,           \* where the caller of Halt is
    busy            \* history: ticks the engine has worked without a pause

vars == <<at, m_wdmsg, m_alive, alive, bite, bitten, halt, busy>>

Init ==
    /\ at = "created"
    /\ m_wdmsg = FALSE
    /\ m_alive = TRUE
    /\ alive = Never
    /\ bite = Never
    /\ bitten = FALSE
    /\ halt = "idle"
    /\ busy = 0

Moves(from, to) == ~bitten /\ at = from /\ at' = to

-----------------------------------------------------------------------------
(***************************************************************************)
(* The engine's thread, looper_func.                                       *)
(***************************************************************************)
CreateWdMessage ==
    /\ Moves("created", "sendAlive")
    /\ m_wdmsg' = TRUE
    /\ UNCHANGED <<m_alive, alive, bite, bitten, halt, busy>>

\* Mutation of SendAlive: an armed bite is not replaced.
SendAliveKeepsOld ==
    /\ Moves("sendAlive", "post")
    /\ bite' = IF bite = Never THEN BiteInterval ELSE bite
    /\ UNCHANGED <<m_wdmsg, m_alive, alive, bitten, halt, busy>>

\* Mutation of SendAlive: an armed bite is removed only.
SendAliveRemoves ==
    /\ Moves("sendAlive", "post")
    /\ bite' = IF bite = Never THEN BiteInterval ELSE Never
    /\ UNCHANGED <<m_wdmsg, m_alive, alive, bitten, halt, busy>>

\* bark, called from Run: the message is removed and sent anew.
SendAlive ==
    /\ Moves("sendAlive", "post")
    /\ bite' = BiteInterval
    /\ UNCHANGED <<m_wdmsg, m_alive, alive, bitten, halt, busy>>

\* Mutation of PostKeepAlive: delayed by the interval of the bite.
PostKeepAliveLate ==
    /\ Moves("post", "poll")
    /\ alive' = BiteInterval
    /\ UNCHANGED <<m_wdmsg, m_alive, bite, bitten, halt, busy>>

PostKeepAlive ==
    /\ Moves("post", "poll")
    /\ alive' = AliveInterval
    /\ UNCHANGED <<m_wdmsg, m_alive, bite, bitten, halt, busy>>

\* pollOnce runs the messages that are due: the keep-alive, or another one.
TakeKeepAlive ==
    /\ alive = 0
    /\ Moves("poll", "sendAlive")
    /\ alive' = Never
    /\ UNCHANGED <<m_wdmsg, m_alive, bite, bitten, halt, busy>>

TakeOther ==
    /\ Moves("poll", "work")
    /\ UNCHANGED <<m_wdmsg, m_alive, alive, bite, bitten, halt, busy>>

OtherEnds ==
    /\ Moves("work", "poll")
    /\ UNCHANGED <<m_wdmsg, m_alive, alive, bite, bitten, halt, busy>>

LoopEnds ==
    /\ ~m_alive
    /\ Moves("poll", "unwatch")
    /\ UNCHANGED <<m_wdmsg, m_alive, alive, bite, bitten, halt, busy>>

\* Mutation of Unwatch: the thread relies on the removal that Halt made.
UnwatchOnlyOnce ==
    /\ Moves("unwatch", "ended")
    /\ UNCHANGED <<m_wdmsg, m_alive, alive, bite, bitten, halt, busy>>

\* The thread's own call of the watchdog's Halt, before it ends.
Unwatch ==
    /\ Moves("unwatch", "ended")
    /\ bite' = Never
    /\ UNCHANGED <<m_wdmsg, m_alive, alive, bitten, halt, busy>>

EngineStep ==
    \/ CreateWdMessage \/ SendAlive \/ PostKeepAlive \/ TakeKeepAlive
    \/ LoopEnds \/ Unwatch

-----------------------------------------------------------------------------
(***************************************************************************)
(* Halt: take the engine off the watchdog, stop its loop, join.  It reads  *)
(* m_wdmsg and m_threadid, which the thread sets when it starts, without a *)
(* lock: if it does not see both of them set, nothing is removed.  One     *)
(* caller is modelled: two that both find m_alive set would both join the  *)
(* thread, which is undefined behaviour.                                   *)
(***************************************************************************)
HaltUnwatches ==
    /\ ~bitten /\ halt = "idle"
    /\ bite' \in IF m_wdmsg THEN {Never, bite} ELSE {bite}
    /\ halt' = "stop"
    /\ UNCHANGED <<at, m_wdmsg, m_alive, alive, bitten, busy>>

HaltStops ==
    /\ ~bitten /\ halt = "stop"
    /\ m_alive' = FALSE
    /\ halt' = "join"
    /\ UNCHANGED <<at, m_wdmsg, alive, bite, bitten, busy>>

HaltJoins ==
    /\ ~bitten /\ halt = "join" /\ at = "ended"
    /\ halt' = "done"
    /\ UNCHANGED <<at, m_wdmsg, m_alive, alive, bite, bitten, busy>>

-----------------------------------------------------------------------------
\* The watchdog's thread: dogBite aborts the process.
Bite ==
    /\ ~bitten /\ bite = 0
    /\ bitten' = TRUE
    /\ UNCHANGED <<at, m_wdmsg, m_alive, alive, bite, halt, busy>>

Less(timer) == IF timer \in {Never, 0} THEN timer ELSE timer - 1

\* Something is due at once, and time waits for it.
Pressing ==
    \/ bite = 0
    \/ at \notin {"poll", "work", "ended"}
    \/ at = "poll" /\ (alive = 0 \/ ~m_alive)
    \/ halt = "stop"

Tick ==
    /\ ~bitten /\ ~Pressing
    /\ alive' = Less(alive)
    /\ bite' = Less(bite)
    /\ busy' = IF at # "work" THEN 0 ELSE IF busy < BiteInterval THEN busy + 1 ELSE busy
    /\ UNCHANGED <<at, m_wdmsg, m_alive, bitten, halt>>

Next ==
    \/ EngineStep \/ TakeOther \/ OtherEnds
    \/ HaltUnwatches \/ HaltStops \/ HaltJoins
    \/ Bite \/ Tick

\* Time passes, and what is due gets done.  What the engine works on need
\* not end, and nobody need call Halt.
Fairness == WF_vars(EngineStep) /\ WF_vars(HaltStops) /\ WF_vars(Bite) /\ WF_vars(Tick)

Spec == Init /\ [][Next]_vars /\ Fairness

-----------------------------------------------------------------------------
TypeOK ==
    /\ at \in {"created", "sendAlive", "post", "poll", "work", "unwatch", "ended"}
    /\ m_wdmsg \in BOOLEAN /\ m_alive \in BOOLEAN /\ bitten \in BOOLEAN
    /\ alive \in 0 .. AliveInterval \cup {Never}
    /\ bite \in 0 .. BiteInterval \cup {Never}
    /\ halt \in {"idle", "stop", "join", "done"}
    /\ busy \in 0 .. BiteInterval

(***************************************************************************)
(* No bite is left for an engine whose thread has ended: a keep-alive that *)
(* runs between the removal in Halt (CLooperRunnabler.h:174) and the end   *)
(* of the loop arms one again, and the thread's own removal (line 136)     *)
(* takes it back.                                                          *)
(***************************************************************************)
EndedIsUnwatched == at = "ended" => bite = Never

(***************************************************************************)
(* The process is aborted only if the engine has worked without a pause    *)
(* for as long as the two intervals differ.                                *)
(***************************************************************************)
OnlyBusyIsBitten == bitten => busy >= BiteInterval - AliveInterval

(***************************************************************************)
(* An engine that gets stuck is bitten, if nobody is halting it by then.   *)
(***************************************************************************)
StuckIsBitten == <>[](at = "work" /\ halt = "idle") => <>bitten
=============================================================================
