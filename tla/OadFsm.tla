------------------------------- MODULE OadFsm -------------------------------
(***************************************************************************)
(* The over-the-air download scan of oadapp_architecture, in               *)
(* services/OADFSMService.java.  First one "preferred" transport stream is *)
(* tuned to, then the streams of a frequency list; on each stream that     *)
(* locks, a 90 s timer bounds the wait for a download.                     *)
(*                                                                         *)
(* Two threads act.  The handler thread takes events off the queue of      *)
(* mOADHandler and runs the action of the state machine's table.  The main *)
(* thread runs TimerRunnable when a delayed post of it expires; it reads   *)
(* mOadScanModeState without a lock and sends an event.  Tuner and client, *)
(* outside this repository, send the other events, at any time.            *)
(***************************************************************************)
EXTENDS Integers, Sequences

CONSTANTS
    Posted,         \* the events that tuner and client send
    MaxWork,        \* bound on events queued plus timers running
    Nothing         \* TimerRunnable is not running

\* The events, without the prefix CbmhgOad.
PreferredEvents == {"PrefferedScanStart", "PrefferedScanTsLocked", "PrefferedScanTsNotFound",
                    "PrefferedScanNextTs", "PrefferedScanComplete", "PrefferedScanStop"}
FrequencyEvents == {"FrequencyScanStart", "FrequencyScanTsLocked", "FrequencyScanTsNotFound",
                    "FrequencyScanNextTs", "FrequencyScanComplete", "FrequencyScanStop"}
Events == PreferredEvents \cup FrequencyEvents

ASSUME PostedAssumption == Posted \subseteq Events
ASSUME WorkAssumption == MaxWork \in Nat
ASSUME NothingAssumption == Nothing \notin Events

States == {"Idle", "InProgress", "Stopping"}

NONE          == 0
PREFFERED     == 1
FREQUENCYLIST == 2
Modes         == {NONE, PREFFERED, FREQUENCYLIST}

VARIABLES
    mOadScanState,
    mOadScanModeState,
    mFirstScanning,         \* the preferred scan has been started once
    isPrefScanCompleted,
    queue,                  \* the handler thread's messages, with their sender
    timers,                 \* posts of TimerRunnable, by the mode known to them
    expiring                \* the event TimerRunnable is about to send

vars == <<mOadScanState, mOadScanModeState, mFirstScanning, isPrefScanCompleted,
          queue, timers, expiring>>

Message(event, from) == [event |-> event, from |-> from]

Init ==
    /\ mOadScanState = "Idle"
    /\ mOadScanModeState = NONE
    /\ mFirstScanning = FALSE
    /\ isPrefScanCompleted = FALSE
    /\ queue = <<>>
    /\ timers = <<>>
    /\ expiring = Nothing

Work == Len(queue) + Len(timers) + IF expiring = Nothing THEN 0 ELSE 1

\* Tuner and client.  A step of the service itself never adds to Work.
Post(event) ==
    /\ Work < MaxWork
    /\ queue' = Append(queue, Message(event, "outside"))
    /\ UNCHANGED <<mOadScanState, mOadScanModeState, mFirstScanning, isPrefScanCompleted,
                   timers, expiring>>

-----------------------------------------------------------------------------
\* Mutation of InTable: the column of Stopping is that of InProgress.
InTableStopping(event, state) ==
    \/ event \in {"PrefferedScanStart", "FrequencyScanStart"} /\ state = "Idle"
    \/ event \in Events \ {"PrefferedScanStart", "FrequencyScanStart"} /\ state # "Idle"

(***************************************************************************)
(* The handler thread.  Handles(event, state): the head of the queue is    *)
(* this event and the table has an action for it in this state.            *)
(***************************************************************************)
InTable(event, state) ==
    \/ event \in {"PrefferedScanStart", "FrequencyScanStart"} /\ state = "Idle"
    \/ event \in Events \ {"PrefferedScanStart", "FrequencyScanStart"} /\ state = "InProgress"
    \/ event \in {"PrefferedScanComplete", "FrequencyScanComplete"} /\ state = "Stopping"

Receives(event) == queue # <<>> /\ Head(queue).event = event

Handles(event) == Receives(event) /\ InTable(event, mOadScanState)

Consumes == queue' = Tail(queue)
ConsumesAndSends(event) == queue' = Append(Tail(queue), Message(event, "fsm"))

\* A null entry of the table.
Ignore ==
    /\ \E event \in Events : Receives(event) /\ ~InTable(event, mOadScanState)
    /\ Consumes
    /\ UNCHANGED <<mOadScanState, mOadScanModeState, mFirstScanning, isPrefScanCompleted,
                   timers, expiring>>

\* Mutation of StartPrefferedScan: mFirstScanning is not asked.
StartPrefferedAgain ==
    /\ Handles("PrefferedScanStart")
    /\ Consumes
    /\ mFirstScanning' = TRUE
    /\ mOadScanState' = "InProgress"
    /\ UNCHANGED <<mOadScanModeState, isPrefScanCompleted, timers, expiring>>

StartPrefferedScan ==
    /\ Handles("PrefferedScanStart")
    /\ Consumes
    /\ mFirstScanning' = TRUE
    /\ mOadScanState' = IF mFirstScanning THEN mOadScanState ELSE "InProgress"
    /\ UNCHANGED <<mOadScanModeState, isPrefScanCompleted, timers, expiring>>

\* The scan that follows the one of this mode.
NextScanMode(mode) ==
    IF mode = NONE THEN PREFFERED ELSE IF mode = PREFFERED THEN FREQUENCYLIST ELSE NONE

\* signleTuneResult, which the code also tests, is 0 and never assigned.
PrefferedScanNextTs ==
    /\ Handles("PrefferedScanNextTs")
    /\ NextScanMode(PREFFERED) # NONE
    /\ isPrefScanCompleted' = TRUE
    /\ mOadScanState' = "Idle"
    /\ mOadScanModeState' = FREQUENCYLIST
    /\ ConsumesAndSends("FrequencyScanStart")
    /\ UNCHANGED <<mFirstScanning, timers, expiring>>

\* PrefferedTsLocked and FrequencyListTsLocked.  The post makes the mode of
\* this moment visible to the main thread; a later one may or may not be.
TsLocked ==
    /\ Handles("PrefferedScanTsLocked") \/ Handles("FrequencyScanTsLocked")
    /\ Consumes
    /\ timers' = Append(timers, mOadScanModeState)
    /\ UNCHANGED <<mOadScanState, mOadScanModeState, mFirstScanning, isPrefScanCompleted, expiring>>

\* Only logs.
PrefferedTsNotFound ==
    /\ Handles("PrefferedScanTsNotFound")
    /\ Consumes
    /\ UNCHANGED <<mOadScanState, mOadScanModeState, mFirstScanning, isPrefScanCompleted,
                   timers, expiring>>

\* Only logs: the tuning is commented out, and nothing is sent.
FrequencyListScanNextTs ==
    /\ Handles("FrequencyScanNextTs")
    /\ Consumes
    /\ UNCHANGED <<mOadScanState, mOadScanModeState, mFirstScanning, isPrefScanCompleted,
                   timers, expiring>>

StartFrequencyListScan ==
    /\ Handles("FrequencyScanStart")
    /\ Consumes
    /\ mOadScanState' = "InProgress"
    /\ UNCHANGED <<mOadScanModeState, mFirstScanning, isPrefScanCompleted, timers, expiring>>

FrequencyListTsNotFound ==
    /\ Handles("FrequencyScanTsNotFound")
    /\ ConsumesAndSends("FrequencyScanNextTs")
    /\ UNCHANGED <<mOadScanState, mOadScanModeState, mFirstScanning, isPrefScanCompleted,
                   timers, expiring>>

\* Mutation of ScanComplete: a new preferred scan may follow.
ScanCompleteRearms ==
    /\ Handles("PrefferedScanComplete") \/ Handles("FrequencyScanComplete")
    /\ Consumes
    /\ mOadScanState' = "Idle" /\ mFirstScanning' = FALSE
    /\ UNCHANGED <<mOadScanModeState, isPrefScanCompleted, timers, expiring>>

\* The timer, if any, keeps running.
ScanComplete ==
    /\ Handles("PrefferedScanComplete") \/ Handles("FrequencyScanComplete")
    /\ Consumes
    /\ mOadScanState' = "Idle"
    /\ UNCHANGED <<mOadScanModeState, mFirstScanning, isPrefScanCompleted, timers, expiring>>

\* removeCallbacks takes back every post that has not begun to run.
StopScan ==
    /\ Handles("PrefferedScanStop") \/ Handles("FrequencyScanStop")
    /\ Consumes
    /\ timers' = <<>>
    /\ mOadScanState' = "Stopping"
    /\ UNCHANGED <<mOadScanModeState, mFirstScanning, isPrefScanCompleted, expiring>>

Handle ==
    \/ Ignore
    \/ StartPrefferedScan \/ PrefferedScanNextTs
    \/ TsLocked \/ PrefferedTsNotFound
    \/ StartFrequencyListScan \/ FrequencyListTsNotFound \/ FrequencyListScanNextTs
    \/ ScanComplete \/ StopScan

-----------------------------------------------------------------------------
\* Mutation of EventOnExpiry: an event outside the table when no branch is taken.
ExpiryOutsideTable(mode) ==
    CASE mode = PREFFERED     -> "PrefferedScanStop"
      [] mode = FREQUENCYLIST -> "FrequencyScanNextTs"
      [] mode = NONE          -> "ScanMaxEvents"

(***************************************************************************)
(* TimerRunnable.run on the main thread.  A message's arg1 is 0, which is  *)
(* PrefferedScanStart, when neither branch sets it.                        *)
(***************************************************************************)
EventOnExpiry(mode) ==
    CASE mode = PREFFERED     -> "PrefferedScanStop"
      [] mode = FREQUENCYLIST -> "FrequencyScanNextTs"
      [] mode = NONE          -> "PrefferedScanStart"

TimerExpires ==
    /\ timers # <<>> /\ expiring = Nothing
    /\ \E mode \in {Head(timers), mOadScanModeState} : expiring' = EventOnExpiry(mode)
    /\ timers' = Tail(timers)
    /\ UNCHANGED <<mOadScanState, mOadScanModeState, mFirstScanning, isPrefScanCompleted, queue>>

TimerSends ==
    /\ expiring # Nothing
    /\ queue' = Append(queue, Message(expiring, "timer"))
    /\ expiring' = Nothing
    /\ UNCHANGED <<mOadScanState, mOadScanModeState, mFirstScanning, isPrefScanCompleted, timers>>

RunTimer == TimerExpires \/ TimerSends

Next == Handle \/ RunTimer \/ \E event \in Posted : Post(event)

\* Both loopers run what is due.  Nothing makes tuner and client send.
Fairness == WF_vars(Handle) /\ WF_vars(RunTimer)

Spec == Init /\ [][Next]_vars /\ Fairness

-----------------------------------------------------------------------------
(***************************************************************************)
(* Types.                                                                  *)
(***************************************************************************)
TypeOK ==
    /\ mOadScanState \in States
    /\ mOadScanModeState \in Modes
    /\ mFirstScanning \in BOOLEAN
    /\ isPrefScanCompleted \in BOOLEAN
    /\ queue \in Seq([event : Events, from : {"outside", "fsm", "timer"}])
    /\ timers \in Seq(Modes)
    /\ expiring \in Events \cup {Nothing}

(***************************************************************************)
(* A scan that is stopping has no timer left to wake it: the lock events   *)
(* still queued when StopScan removed the timers set no new one.           *)
(***************************************************************************)
StoppingIsQuiet == mOadScanState = "Stopping" => timers = <<>>

(***************************************************************************)
(* The hand-over from the preferred scan to the frequency list survives    *)
(* whatever is queued before it: its start event, ignored in every state   *)
(* but Idle (line 118), still finds the machine idle.                      *)
(***************************************************************************)
HandOverKept ==
    (\E i \in 1 .. Len(queue) : queue[i] = Message("FrequencyScanStart", "fsm")) => mOadScanState = "Idle"

(***************************************************************************)
(* No expiry of a timer starts a scan, though the mode NONE and a timer    *)
(* left over by ScanComplete make it send PrefferedScanStart to an idle    *)
(* machine.                                                                *)
(***************************************************************************)
TimerStartsNothing ==
    [][mOadScanState = "Idle" /\ mOadScanState' = "InProgress" => Head(queue).from # "timer"]_vars

(***************************************************************************)
(* The hand-over takes place: the start of the frequency list that the     *)
(* service sends itself (line 314) is acted on, not only received, however *)
(* many events and expiring timers are queued before it.                   *)
(***************************************************************************)
HandOverTakesPlace ==
    (\E i \in 1 .. Len(queue) : queue[i] = Message("FrequencyScanStart", "fsm"))
        ~> Handles("FrequencyScanStart")

(***************************************************************************)
(* A locked stream of the frequency list does not hold the scan for ever:  *)
(* after 90 s the next frequency is tuned to.  FrequencyListScanNextTs is  *)
(* to "Start Full Freq Scan" (line 361); OAD_ScanState.jpg has an arrow    *)
(* "Tune next freq" from it to StartFrequencyListScan, as it has one from  *)
(* PrefferedScanNextTs, which sends FrequencyScanStart.                    *)
(***************************************************************************)
FrequencyDwellEnds ==
    mOadScanState = "InProgress" /\ (\E i \in 1 .. Len(timers) : timers[i] = FREQUENCYLIST)
        ~> Handles("FrequencyScanStart") \/ mOadScanState # "InProgress"

(***************************************************************************)
(* A locked stream of the preferred scan does not hold the scan for ever   *)
(* either: "As ts lock set 90s timer for searching oad" (line 266), after  *)
(* which PrefferedScanStop is to be sent (lines 267-268).                  *)
(***************************************************************************)
PreferredDwellEnds ==
    mOadScanState = "InProgress" /\ mOadScanModeState # FREQUENCYLIST /\ timers # <<>>
        ~> mOadScanState # "InProgress"
=============================================================================
