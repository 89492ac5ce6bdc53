---------------------------- MODULE OadFsmProofs ----------------------------
(***************************************************************************)
(* The invariants of OadFsm, for every bound on the work and any events    *)
(* from outside.  Those about the full scan suppose that only the service  *)
(* starts it: line 314 is the one place that makes the event.              *)
(***************************************************************************)
EXTENDS OadFsm, SequenceTheorems, TLAPS

Messages == [event : Events, from : {"outside", "fsm", "timer"}]
FullScanStart == "FrequencyScanStart"
Idle == mOadScanState = "Idle"

\* A queue without the start of a full scan.
NoneIn(q) == \A i \in 1 .. Len(q) : q[i].event # FullScanStart

(***************************************************************************)
(* What the queue may hold: one start of the full scan, sent by the        *)
(* service itself and only to an idle machine, and events of the timer     *)
(* only once the preferred scan has been started.                          *)
(***************************************************************************)
Holds(q, idle, started) == \A i \in 1 .. Len(q) :
    /\ q[i].event = FullScanStart =>
          /\ q[i].from = "fsm" /\ idle /\ started
          /\ \A j \in 1 .. Len(q) : q[j].event = FullScanStart => i = j
    /\ q[i].from = "timer" => started

\* A scan that is under way, or a timer, or an event of it, comes after the
\* one start of the preferred scan.
StartedOK ==
    /\ ~Idle \/ timers # <<>> \/ expiring # Nothing => mFirstScanning
    /\ expiring # FullScanStart

ScanOK == StartedOK /\ Holds(queue, Idle, mFirstScanning)

IInv == TypeOK /\ StoppingIsQuiet /\ ScanOK

-----------------------------------------------------------------------------
\* Taking the head off.
LEMMA TailHolds ==
    ASSUME NEW q \in Seq(Messages), q # <<>>,
           NEW idle \in BOOLEAN, NEW started \in BOOLEAN, Holds(q, idle, started)
    PROVE  /\ Tail(q) \in Seq(Messages)
           /\ Holds(Tail(q), idle, started)
           /\ Head(q).event = FullScanStart =>
                 NoneIn(Tail(q)) /\ Head(q).from = "fsm" /\ idle
           /\ Head(q).from = "timer" => started
           /\ ~idle => NoneIn(q) /\ NoneIn(Tail(q))
<1>1. /\ Tail(q) \in Seq(Messages) /\ Len(q) \in Nat \ {0} /\ Len(Tail(q)) = Len(q) - 1
      /\ \A i \in 1 .. Len(Tail(q)) : Tail(q)[i] = q[i + 1]
    BY HeadTailProperties, EmptySeq
<1>2. Head(q) = q[1]
    OBVIOUS
<1>3. \A i \in 1 .. Len(Tail(q)) : i + 1 \in 1 .. Len(q) /\ Tail(q)[i] = q[i + 1]
    BY <1>1
<1>4. 1 \in 1 .. Len(q)
    BY <1>1
<1>5. Holds(Tail(q), idle, started)
    <2> SUFFICES ASSUME NEW i \in 1 .. Len(Tail(q))
                 PROVE  /\ Tail(q)[i].event = FullScanStart =>
                             /\ Tail(q)[i].from = "fsm" /\ idle /\ started
                             /\ \A j \in 1 .. Len(Tail(q)) : Tail(q)[j].event = FullScanStart => i = j
                        /\ Tail(q)[i].from = "timer" => started
        BY DEF Holds
    <2>1. \A j \in 1 .. Len(Tail(q)) : i + 1 = j + 1 => i = j
        OBVIOUS
    <2> QED BY <1>3, <2>1 DEF Holds
<1>6. ASSUME Head(q).event = FullScanStart
      PROVE  NoneIn(Tail(q)) /\ Head(q).from = "fsm" /\ idle
    <2>1. \A i \in 1 .. Len(q) : q[i].event = FullScanStart => i = 1
        BY <1>2, <1>4, <1>6 DEF Holds
    <2>2. \A i \in 1 .. Len(Tail(q)) : i + 1 # 1
        OBVIOUS
    <2>3. NoneIn(Tail(q))
        BY <1>3, <2>1, <2>2 DEF NoneIn
    <2> QED BY <1>2, <1>4, <1>6, <2>3 DEF Holds
<1>7. Head(q).from = "timer" => started
    BY <1>2, <1>4 DEF Holds
<1>8. ~idle => NoneIn(q) /\ NoneIn(Tail(q))
    BY <1>3 DEF Holds, NoneIn
<1> QED BY <1>1, <1>5, <1>6, <1>7, <1>8

\* Adding a message at the end.
LEMMA AppendHolds ==
    ASSUME NEW q \in Seq(Messages), NEW m \in Messages,
           NEW idle \in BOOLEAN, NEW started \in BOOLEAN, Holds(q, idle, started),
           m.from = "timer" => started,
           m.event = FullScanStart => NoneIn(q) /\ m.from = "fsm" /\ idle /\ started
    PROVE  /\ Append(q, m) \in Seq(Messages)
           /\ Holds(Append(q, m), idle, started)
<1> DEFINE r == Append(q, m)
<1>1. /\ r \in Seq(Messages) /\ Len(q) \in Nat /\ Len(r) = Len(q) + 1
      /\ \A i \in 1 .. Len(q) : r[i] = q[i]
      /\ r[Len(q) + 1] = m
    BY AppendProperties
<1> HIDE DEF r
<1>2. \A i \in 1 .. Len(r) : i \in 1 .. Len(q) \/ i = Len(q) + 1
    BY <1>1
<1>3. CASE m.event = FullScanStart
    <2>1. \A i \in 1 .. Len(r) : r[i].event = FullScanStart => i = Len(q) + 1
        BY <1>1, <1>2, <1>3 DEF NoneIn
    <2>2. \A i \in 1 .. Len(r) : r[i].from = "timer" => started
        BY <1>1, <1>2 DEF Holds
    <2> QED BY <1>1, <1>3, <2>1, <2>2 DEF Holds, r
<1>4. CASE m.event # FullScanStart
    <2>1. \A i \in 1 .. Len(r) : r[i].event = FullScanStart => i \in 1 .. Len(q)
        BY <1>1, <1>2, <1>4
    <2>2. \A i \in 1 .. Len(r) : r[i].from = "timer" => started
        BY <1>1, <1>2 DEF Holds
    <2>3. \A i \in 1 .. Len(r) : r[i].event = FullScanStart => r[i].from = "fsm" /\ idle /\ started
        BY <1>1, <2>1 DEF Holds
    <2>4. \A i, j \in 1 .. Len(r) : r[i].event = FullScanStart /\ r[j].event = FullScanStart => i = j
        BY <1>1, <2>1 DEF Holds
    <2> QED BY <1>1, <2>2, <2>3, <2>4 DEF Holds, r
<1> QED BY <1>3, <1>4

\* Without the start of a full scan the machine may leave the idle state.
LEMMA NoneHolds ==
    ASSUME NEW q, NEW a \in BOOLEAN, NEW b \in BOOLEAN, NEW c \in BOOLEAN, NEW d \in BOOLEAN,
           Holds(q, a, b), b => d, NoneIn(q) \/ (a => c)
    PROVE  Holds(q, c, d)
BY DEF Holds, NoneIn

-----------------------------------------------------------------------------
\* A service that has just started satisfies the invariant.
LEMMA InitIInv == Init => IInv
<1> SUFFICES ASSUME Init PROVE IInv
    OBVIOUS
<1>1. TypeOK
    BY EmptySeq DEF Init, TypeOK, States, Modes
<1>2. Len(queue) = 0
    BY DEF Init
<1>3. Holds(queue, Idle, mFirstScanning)
    BY <1>2 DEF Holds
<1>4. StoppingIsQuiet /\ StartedOK
    BY NothingAssumption
       DEF Init, StoppingIsQuiet, StartedOK, Idle, Events, FrequencyEvents, FullScanStart
<1> QED BY <1>1, <1>3, <1>4 DEF IInv, ScanOK

\* What a message of the handler thread leaves of the queue.
LEMMA Consumed ==
    ASSUME IInv, NEW event, Receives(event)
    PROVE  /\ queue \in Seq(Messages) /\ queue # <<>> /\ Head(queue).event = event
           /\ Tail(queue) \in Seq(Messages)
           /\ Holds(Tail(queue), Idle, mFirstScanning)
           /\ event = FullScanStart => NoneIn(Tail(queue)) /\ Head(queue).from = "fsm" /\ Idle
           /\ Head(queue).from = "timer" => mFirstScanning
           /\ ~Idle => NoneIn(queue) /\ NoneIn(Tail(queue))
           /\ Idle \in BOOLEAN /\ mFirstScanning \in BOOLEAN
<1>1. queue \in Seq(Messages) /\ queue # <<>> /\ mFirstScanning \in BOOLEAN /\ Idle \in BOOLEAN
    BY DEF IInv, TypeOK, Messages, Receives, Idle
<1> QED BY <1>1, TailHolds DEF IInv, ScanOK, Receives

\* A message is taken off and the machine stays where it is.
LEMMA IgnoreKeeps ==
    ASSUME IInv, Ignore \/ PrefferedTsNotFound \/ FrequencyListScanNextTs
    PROVE  ScanOK'
<1>1. PICK event : Receives(event)
    BY DEF Ignore, PrefferedTsNotFound, FrequencyListScanNextTs, Handles
<1>2. /\ queue' = Tail(queue)
      /\ UNCHANGED <<mOadScanState, mOadScanModeState, mFirstScanning, isPrefScanCompleted,
                     timers, expiring>>
    BY DEF Ignore, PrefferedTsNotFound, FrequencyListScanNextTs, Consumes
<1>3. queue' \in Seq(Messages) /\ Holds(queue', Idle, mFirstScanning)
    BY <1>1, <1>2, Consumed
<1> QED BY <1>2, <1>3 DEF IInv, ScanOK, StartedOK, Idle

\* Only the first start of the preferred scan leaves the idle state, and before it
\* there is neither a start of the full scan nor a timer.
LEMMA StartPrefferedScanKeeps ==
    ASSUME IInv, StartPrefferedScan
    PROVE  ScanOK' /\ (Idle /\ ~Idle' => Head(queue).from # "timer")
<1>1. Receives("PrefferedScanStart") /\ Idle
    BY DEF StartPrefferedScan, Handles, InTable, Idle
<1>2. /\ queue' = Tail(queue) /\ mFirstScanning' = TRUE
      /\ mOadScanState' = IF mFirstScanning THEN mOadScanState ELSE "InProgress"
      /\ UNCHANGED <<mOadScanModeState, isPrefScanCompleted, timers, expiring>>
    BY DEF StartPrefferedScan, Consumes
<1>3. Holds(queue', Idle', mFirstScanning')
    <2>1. CASE mFirstScanning
        BY <1>1, <1>2, <2>1, Consumed, NoneHolds DEF Idle
    <2>2. CASE ~mFirstScanning
        <3>1. NoneIn(Tail(queue))
            BY <1>1, <2>2, Consumed DEF Holds, NoneIn
        <3> QED BY <1>1, <1>2, <3>1, Consumed, NoneHolds DEF Idle
    <2> QED BY <2>1, <2>2
<1>4. queue' \in Seq(Messages)
    BY <1>1, <1>2, Consumed
<1>5. Idle /\ ~Idle' => Head(queue).from # "timer"
    BY <1>1, <1>2, Consumed DEF Idle
<1> QED BY <1>2, <1>3, <1>4, <1>5
        DEF IInv, ScanOK, StartedOK, Idle

\* The hand-over: the scan is under way, so no other start of the full scan is queued.
LEMMA PrefferedScanNextTsKeeps ==
    ASSUME IInv, PrefferedScanNextTs
    PROVE  ScanOK'
<1>1. Receives("PrefferedScanNextTs") /\ ~Idle /\ mFirstScanning
    BY DEF PrefferedScanNextTs, Handles, InTable, Idle, IInv, ScanOK, StartedOK
<1>2. /\ queue' = Append(Tail(queue), Message(FullScanStart, "fsm"))
      /\ mOadScanState' = "Idle" /\ mOadScanModeState' = FREQUENCYLIST
      /\ isPrefScanCompleted' = TRUE
      /\ UNCHANGED <<mFirstScanning, timers, expiring>>
    BY DEF PrefferedScanNextTs, ConsumesAndSends, FullScanStart
<1>3. queue' \in Seq(Messages) /\ Holds(queue', TRUE, mFirstScanning)
    <2>1. /\ Message(FullScanStart, "fsm") \in Messages
          /\ Message(FullScanStart, "fsm").from = "fsm"
        BY DEF Message, Messages, Events, FrequencyEvents, FullScanStart
    <2>2. /\ Tail(queue) \in Seq(Messages) /\ NoneIn(Tail(queue)) /\ mFirstScanning \in BOOLEAN
          /\ Holds(Tail(queue), TRUE, mFirstScanning)
        BY <1>1, Consumed, NoneHolds
    <2> QED BY <1>1, <1>2, <2>1, <2>2, AppendHolds
<1> QED BY <1>1, <1>2, <1>3
        DEF IInv, ScanOK, StartedOK, Idle

\* A locked stream gets a timer.
LEMMA TsLockedKeeps ==
    ASSUME IInv, TsLocked
    PROVE  ScanOK'
<1>1. PICK event : Receives(event) /\ mOadScanState = "InProgress"
    BY DEF TsLocked, Handles, InTable
<1>2. /\ queue' = Tail(queue) /\ timers' = Append(timers, mOadScanModeState)
      /\ UNCHANGED <<mOadScanState, mOadScanModeState, mFirstScanning, isPrefScanCompleted, expiring>>
    BY DEF TsLocked, Consumes
<1>3. queue' \in Seq(Messages) /\ Holds(queue', Idle, mFirstScanning)
    BY <1>1, <1>2, Consumed
<1> QED BY <1>1, <1>2, <1>3
        DEF IInv, ScanOK, StartedOK, Idle

\* The one start of the full scan is taken off.
LEMMA StartFrequencyListScanKeeps ==
    ASSUME IInv, StartFrequencyListScan
    PROVE  ScanOK' /\ Head(queue).from # "timer"
<1>1. Receives(FullScanStart)
    BY DEF StartFrequencyListScan, Handles, FullScanStart
<1>2. /\ queue' = Tail(queue) /\ mOadScanState' = "InProgress"
      /\ UNCHANGED <<mOadScanModeState, mFirstScanning, isPrefScanCompleted, timers, expiring>>
    BY DEF StartFrequencyListScan, Consumes
<1>3. NoneIn(queue') /\ Head(queue).from = "fsm" /\ queue' \in Seq(Messages)
    BY <1>1, <1>2, Consumed
<1>4. Holds(queue', FALSE, mFirstScanning)
    BY <1>1, <1>2, <1>3, Consumed, NoneHolds
<1>5. mFirstScanning
    <2>1. 1 \in 1 .. Len(queue) /\ queue[1].event = FullScanStart
        BY <1>1, Consumed, EmptySeq DEF Receives
    <2> QED BY <2>1 DEF IInv, ScanOK, Holds
<1> QED BY <1>2, <1>3, <1>4, <1>5
        DEF IInv, ScanOK, StartedOK, Idle

\* The next stream is asked for at the end of the queue.
LEMMA FrequencyListTsNotFoundKeeps ==
    ASSUME IInv, FrequencyListTsNotFound
    PROVE  ScanOK'
<1>1. Receives("FrequencyScanTsNotFound")
    BY DEF FrequencyListTsNotFound, Handles
<1>2. /\ queue' = Append(Tail(queue), Message("FrequencyScanNextTs", "fsm"))
      /\ UNCHANGED <<mOadScanState, mOadScanModeState, mFirstScanning, isPrefScanCompleted,
                     timers, expiring>>
    BY DEF FrequencyListTsNotFound, ConsumesAndSends
<1>3. queue' \in Seq(Messages) /\ Holds(queue', Idle, mFirstScanning)
    <2>1. /\ Message("FrequencyScanNextTs", "fsm") \in Messages
          /\ Message("FrequencyScanNextTs", "fsm").from # "timer"
          /\ Message("FrequencyScanNextTs", "fsm").event # FullScanStart
        BY DEF Message, Messages, Events, FrequencyEvents, FullScanStart
    <2> QED BY <1>1, <1>2, <2>1, Consumed, AppendHolds
<1> QED BY <1>2, <1>3 DEF IInv, ScanOK, StartedOK, Idle

\* A scan ends.
LEMMA ScanCompleteKeeps ==
    ASSUME IInv, ScanComplete
    PROVE  ScanOK'
<1>1. PICK event : Receives(event) /\ ~Idle
    BY DEF ScanComplete, Handles, InTable, Idle
<1>2. /\ queue' = Tail(queue) /\ mOadScanState' = "Idle"
      /\ UNCHANGED <<mOadScanModeState, mFirstScanning, isPrefScanCompleted, timers, expiring>>
    BY DEF ScanComplete, Consumes
<1>3. queue' \in Seq(Messages) /\ Holds(queue', TRUE, mFirstScanning)
    BY <1>1, <1>2, Consumed, NoneHolds
<1> QED BY <1>1, <1>2, <1>3
        DEF IInv, ScanOK, StartedOK, Idle

\* A scan is stopped.
LEMMA StopScanKeeps ==
    ASSUME IInv, StopScan
    PROVE  ScanOK'
<1>1. PICK event : Receives(event) /\ ~Idle
    BY DEF StopScan, Handles, InTable, Idle
<1>2. /\ queue' = Tail(queue) /\ mOadScanState' = "Stopping" /\ timers' = <<>>
      /\ UNCHANGED <<mOadScanModeState, mFirstScanning, isPrefScanCompleted, expiring>>
    BY DEF StopScan, Consumes
<1>3. queue' \in Seq(Messages) /\ Holds(queue', FALSE, mFirstScanning)
    BY <1>1, <1>2, Consumed, NoneHolds
<1> QED BY <1>1, <1>2, <1>3
        DEF IInv, ScanOK, StartedOK, Idle

\* An expiry never makes the start of the full scan.
LEMMA TimerExpiresKeeps ==
    ASSUME IInv, TimerExpires
    PROVE  ScanOK'
<1>1. /\ timers # <<>> /\ timers' = Tail(timers)
      /\ UNCHANGED <<mOadScanState, mOadScanModeState, mFirstScanning, isPrefScanCompleted, queue>>
    BY DEF TimerExpires
<1>2. PICK mode \in {Head(timers), mOadScanModeState} : expiring' = EventOnExpiry(mode)
    BY DEF TimerExpires
<1>3. Head(timers) \in Modes
    BY <1>1, HeadTailProperties DEF IInv, TypeOK
<1>4. mode \in Modes
    BY <1>2, <1>3 DEF IInv, TypeOK
<1>5. expiring' \in Events /\ expiring' # FullScanStart
    BY <1>2, <1>4 DEF EventOnExpiry, Modes, NONE, PREFFERED, FREQUENCYLIST, Events,
                      PreferredEvents, FrequencyEvents, FullScanStart
<1>6. mFirstScanning
    BY <1>1 DEF IInv, ScanOK, StartedOK
<1> QED BY <1>1, <1>5, <1>6 DEF IInv, ScanOK, StartedOK, Idle

\* What the timer sends comes after the start of the preferred scan.
LEMMA TimerSendsKeeps ==
    ASSUME IInv, TimerSends
    PROVE  ScanOK'
<1>1. /\ queue' = Append(queue, Message(expiring, "timer")) /\ expiring' = Nothing
      /\ expiring \in Events /\ mFirstScanning /\ expiring # FullScanStart
      /\ UNCHANGED <<mOadScanState, mOadScanModeState, mFirstScanning, isPrefScanCompleted, timers>>
    BY DEF TimerSends, IInv, ScanOK, StartedOK, TypeOK
<1>2. queue' \in Seq(Messages) /\ Holds(queue', Idle, mFirstScanning)
    <2>1. /\ Message(expiring, "timer") \in Messages
          /\ Message(expiring, "timer").event # FullScanStart
        BY <1>1 DEF Message, Messages
    <2>2. queue \in Seq(Messages) /\ Idle \in BOOLEAN /\ mFirstScanning \in BOOLEAN
        BY DEF IInv, TypeOK, Messages, Idle
    <2> QED BY <1>1, <2>1, <2>2, AppendHolds DEF IInv, ScanOK
<1>3. Nothing # FullScanStart
    BY NothingAssumption DEF Events, FrequencyEvents, FullScanStart
<1> QED BY <1>1, <1>2, <1>3 DEF IInv, ScanOK, StartedOK, Idle

\* What comes from outside is not the start of the full scan.
LEMMA PostKeeps ==
    ASSUME FullScanStart \notin Posted, IInv, NEW event \in Posted, Post(event)
    PROVE  ScanOK'
<1>1. /\ queue' = Append(queue, Message(event, "outside"))
      /\ UNCHANGED <<mOadScanState, mOadScanModeState, mFirstScanning, isPrefScanCompleted,
                     timers, expiring>>
    BY DEF Post
<1>2. queue' \in Seq(Messages) /\ Holds(queue', Idle, mFirstScanning)
    <2>1. /\ Message(event, "outside") \in Messages
          /\ Message(event, "outside").event # FullScanStart
          /\ Message(event, "outside").from # "timer"
        BY PostedAssumption DEF Message, Messages
    <2>2. queue \in Seq(Messages) /\ Idle \in BOOLEAN /\ mFirstScanning \in BOOLEAN
        BY DEF IInv, TypeOK, Messages, Idle
    <2> QED BY <1>1, <2>1, <2>2, AppendHolds DEF IInv, ScanOK
<1> QED BY <1>1, <1>2 DEF IInv, ScanOK, StartedOK, Idle

-----------------------------------------------------------------------------
\* Types and quiet are kept by every step, whatever comes from outside.
LEMMA NextQuiet == TypeOK /\ StoppingIsQuiet /\ [Next]_vars => TypeOK' /\ StoppingIsQuiet'
<1> SUFFICES ASSUME TypeOK, StoppingIsQuiet, [Next]_vars PROVE TypeOK' /\ StoppingIsQuiet'
    OBVIOUS
<1>1. queue \in Seq(Messages) /\ timers \in Seq(Modes)
    BY DEF TypeOK, Messages
<1>2. /\ queue # <<>> => Tail(queue) \in Seq(Messages)
      /\ timers # <<>> => Head(timers) \in Modes /\ Tail(timers) \in Seq(Modes)
      /\ <<>> \in Seq(Modes)
    BY <1>1, HeadTailProperties, EmptySeq
<1>3. \A q \in Seq(Messages), m \in Messages : Append(q, m) \in Seq(Messages)
    BY AppendProperties
<1>4. CASE \/ Ignore \/ PrefferedTsNotFound \/ FrequencyListScanNextTs
           \/ StartPrefferedScan \/ StartFrequencyListScan \/ ScanComplete \/ StopScan
    <2>1. queue # <<>> /\ queue' = Tail(queue) /\ (timers' = timers \/ timers' = <<>>)
        BY <1>4 DEF Ignore, PrefferedTsNotFound, FrequencyListScanNextTs, StartPrefferedScan, StartFrequencyListScan,
                    ScanComplete, StopScan, Consumes, Handles, Receives
    <2> QED BY <1>2, <1>4, <2>1
            DEF Ignore, PrefferedTsNotFound, FrequencyListScanNextTs, StartPrefferedScan, StartFrequencyListScan,
                ScanComplete, StopScan, TypeOK, StoppingIsQuiet, Messages, States
<1>5. CASE TsLocked
    <2>1. timers' \in Seq(Modes)
        BY <1>1, <1>5, AppendProperties DEF TsLocked, TypeOK
    <2>2. queue # <<>> /\ mOadScanState = "InProgress"
        BY <1>5 DEF TsLocked, Handles, Receives, InTable
    <2> QED BY <1>2, <1>5, <2>1, <2>2 DEF TsLocked, Consumes, TypeOK, StoppingIsQuiet, Messages
<1>6. CASE PrefferedScanNextTs \/ FrequencyListTsNotFound
    <2>1. PICK event \in Events : ConsumesAndSends(event)
        BY <1>6 DEF PrefferedScanNextTs, FrequencyListTsNotFound, Events, FrequencyEvents
    <2>2. queue # <<>> /\ Message(event, "fsm") \in Messages
        BY <1>6 DEF PrefferedScanNextTs, FrequencyListTsNotFound, Handles, Receives, Message, Messages
    <2>3. queue' \in Seq(Messages)
        BY <1>2, <1>3, <2>1, <2>2 DEF ConsumesAndSends
    <2> QED BY <1>6, <2>3 DEF PrefferedScanNextTs, FrequencyListTsNotFound, TypeOK, StoppingIsQuiet,
                              Messages, States, Modes
<1>7. CASE TimerExpires
    <2>1. PICK mode \in Modes : expiring' = EventOnExpiry(mode)
        BY <1>2, <1>7 DEF TimerExpires, TypeOK
    <2>2. expiring' \in Events
        BY <2>1 DEF EventOnExpiry, Modes, NONE, PREFFERED, FREQUENCYLIST, Events, PreferredEvents,
                    FrequencyEvents
    <2> QED BY <1>2, <1>7, <2>2 DEF TimerExpires, TypeOK, StoppingIsQuiet, Messages
<1>8. CASE TimerSends \/ \E event \in Posted : Post(event)
    <2>1. PICK m \in Messages : queue' = Append(queue, m)
        BY <1>8, PostedAssumption DEF TimerSends, Post, TypeOK, Message, Messages
    <2>2. queue' \in Seq(Messages)
        BY <1>1, <1>3, <2>1
    <2> QED BY <1>8, <2>2 DEF TimerSends, Post, TypeOK, StoppingIsQuiet, Messages
<1>9. CASE UNCHANGED vars
    BY <1>9 DEF vars, TypeOK, StoppingIsQuiet
<1> QED BY <1>4, <1>5, <1>6, <1>7, <1>8, <1>9 DEF Next, Handle, RunTimer

\* Every step keeps the invariant, and none that a timer has caused starts a scan.
LEMMA NextIInv ==
    ASSUME FullScanStart \notin Posted
    PROVE  IInv /\ [Next]_vars =>
              IInv' /\ (Idle /\ mOadScanState' = "InProgress" => Head(queue).from # "timer")
<1> SUFFICES ASSUME IInv, [Next]_vars
             PROVE  ScanOK' /\ (Idle /\ mOadScanState' = "InProgress" => Head(queue).from # "timer")
    BY NextQuiet DEF IInv
<1>1. CASE StartPrefferedScan
    BY <1>1, StartPrefferedScanKeeps DEF Idle
<1>2. CASE StartFrequencyListScan
    BY <1>2, StartFrequencyListScanKeeps
<1>3. CASE \/ Ignore \/ PrefferedTsNotFound \/ FrequencyListScanNextTs \/ TsLocked
           \/ FrequencyListTsNotFound \/ PrefferedScanNextTs \/ ScanComplete \/ StopScan
    <2>1. ScanOK'
        BY <1>3, IgnoreKeeps, TsLockedKeeps, FrequencyListTsNotFoundKeeps, PrefferedScanNextTsKeeps,
           ScanCompleteKeeps, StopScanKeeps
    <2>2. mOadScanState' = mOadScanState \/ mOadScanState' # "InProgress"
        BY <1>3 DEF Ignore, PrefferedTsNotFound, FrequencyListScanNextTs, TsLocked, FrequencyListTsNotFound,
                    PrefferedScanNextTs, ScanComplete, StopScan
    <2> QED BY <2>1, <2>2 DEF Idle
<1>4. CASE RunTimer \/ \E event \in Posted : Post(event)
    <2>1. ScanOK'
        BY <1>4, TimerExpiresKeeps, TimerSendsKeeps, PostKeeps DEF RunTimer
    <2>2. mOadScanState' = mOadScanState
        BY <1>4 DEF RunTimer, TimerExpires, TimerSends, Post
    <2> QED BY <2>1, <2>2 DEF Idle
<1>5. CASE UNCHANGED vars
    BY <1>5 DEF vars, IInv, ScanOK, StartedOK, Idle
<1> QED BY <1>1, <1>2, <1>3, <1>4, <1>5 DEF Next, Handle

-----------------------------------------------------------------------------
\* TypeOK, whatever comes from outside.
THEOREM ScanTypesCorrect == Spec => []TypeOK
<1>1. Init => TypeOK /\ StoppingIsQuiet
    BY InitIInv DEF IInv
<1> QED BY <1>1, NextQuiet, PTL DEF Spec

\* StoppingIsQuiet: no timer wakes a scan that is stopping, whatever comes from outside.
THEOREM StoppingStaysQuiet == Spec => []StoppingIsQuiet
<1>1. Init => TypeOK /\ StoppingIsQuiet
    BY InitIInv DEF IInv
<1> QED BY <1>1, NextQuiet, PTL DEF Spec

(***************************************************************************)
(* HandOverKept: the start of the full scan that the service sends itself  *)
(* finds the machine idle, whatever is queued before it.                   *)
(***************************************************************************)
THEOREM FullScanIsReached ==
    ASSUME FullScanStart \notin Posted
    PROVE  Spec => []HandOverKept
<1>1. IInv => HandOverKept
    BY DEF IInv, ScanOK, HandOverKept, Holds, Message, Idle, FullScanStart
<1> QED BY <1>1, InitIInv, NextIInv, PTL DEF Spec

(***************************************************************************)
(* TimerStartsNothing: no timer starts a scan, neither the preferred one   *)
(* again nor the full one.                                                 *)
(***************************************************************************)
THEOREM TimersStartNothing ==
    ASSUME FullScanStart \notin Posted
    PROVE  Spec => TimerStartsNothing
<1>1. IInv /\ [Next]_vars =>
        [mOadScanState = "Idle" /\ mOadScanState' = "InProgress" => Head(queue).from # "timer"]_vars
    BY NextIInv DEF Idle
<1> QED BY <1>1, InitIInv, NextIInv, PTL DEF Spec, TimerStartsNothing
=============================================================================
