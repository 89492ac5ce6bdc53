------------------------- MODULE PumpWatchDogProofs -------------------------
(***************************************************************************)
(* Theorems about PumpWatchDog, for intervals of any length.               *)
(***************************************************************************)
EXTENDS PumpWatchDog, TLAPS

(***************************************************************************)
(* How an armed bite and the keep-alive run together.  Right after a       *)
(* keep-alive the bite is whole; until the next one is due the two count   *)
(* down together; once it is due, every tick that the bite has come nearer *)
(* is a tick of work.                                                      *)
(***************************************************************************)
BiteKeepsStep ==
    bite # Never =>
        /\ at = "post" => bite = BiteInterval
        /\ at # "post" =>
              IF alive \in 1 .. AliveInterval
              THEN bite = BiteInterval - AliveInterval + alive
              ELSE busy >= BiteInterval - AliveInterval - bite

\* The keep-alive is out of the looper only while the thread is about to post it.
KeepAlivePosted == alive = Never <=> at \in {"created", "sendAlive", "post"}

NothingWatchedYet == at = "created" => bite = Never

BittenWhenDue == bitten => bite = 0

IInv ==
    /\ TypeOK /\ EndedIsUnwatched
    /\ BiteKeepsStep /\ KeepAlivePosted /\ NothingWatchedYet /\ BittenWhenDue

-----------------------------------------------------------------------------
\* A thread that has just been created, with no messages, satisfies the invariant.
LEMMA InitIInv == Init => IInv
<1> SUFFICES ASSUME Init PROVE IInv
    OBVIOUS
<1>1. TypeOK
    <2>1. 0 \in 0 .. BiteInterval
        BY IntervalsAssumption
    <2> QED BY <2>1, Zenon DEF Init, TypeOK
<1>2. /\ EndedIsUnwatched /\ BiteKeepsStep /\ KeepAlivePosted
      /\ NothingWatchedYet /\ BittenWhenDue
    BY DEF Init, EndedIsUnwatched, BiteKeepsStep, KeepAlivePosted, NothingWatchedYet, BittenWhenDue
<1> QED BY <1>1, <1>2 DEF IInv

\* Every step of the engine, the halting caller, the watchdog and time keeps it.
LEMMA NextIInv == IInv /\ [Next]_vars => IInv'
<1> SUFFICES ASSUME IInv, [Next]_vars PROVE IInv'
    OBVIOUS
<1> USE IntervalsAssumption, NeverAssumption
    DEF IInv, TypeOK, EndedIsUnwatched, BiteKeepsStep, KeepAlivePosted, NothingWatchedYet,
        BittenWhenDue, Moves
<1>1. CASE CreateWdMessage BY <1>1 DEF CreateWdMessage
<1>2. CASE SendAlive       BY <1>2 DEF SendAlive
<1>3. CASE PostKeepAlive   BY <1>3 DEF PostKeepAlive
<1>4. CASE TakeKeepAlive   BY <1>4 DEF TakeKeepAlive
<1>5. CASE LoopEnds        BY <1>5 DEF LoopEnds
<1>6. CASE Unwatch         BY <1>6 DEF Unwatch
<1>7. CASE TakeOther       BY <1>7 DEF TakeOther
<1>8. CASE OtherEnds       BY <1>8 DEF OtherEnds
<1>9. CASE HaltUnwatches   BY <1>9 DEF HaltUnwatches
<1>10. CASE HaltStops      BY <1>10 DEF HaltStops
<1>11. CASE HaltJoins      BY <1>11 DEF HaltJoins
<1>12. CASE Bite           BY <1>12 DEF Bite
<1>13. CASE Tick
    <2>1. ~Pressing /\ at' = at /\ bitten' = bitten /\ ~bitten
        BY <1>13 DEF Tick
    <2>2. at \in {"poll", "work", "ended"} /\ bite # 0
        BY <2>1 DEF Pressing
    <2>3. alive # Never
        BY <2>2
    <2>4. /\ alive' \in 0 .. AliveInterval
          /\ alive' = IF alive = 0 THEN 0 ELSE alive - 1
        BY <1>13, <2>3 DEF Tick, Less
    <2>5. /\ bite' \in 0 .. BiteInterval \cup {Never}
          /\ bite' = IF bite = Never THEN Never ELSE bite - 1
        BY <1>13, <2>2 DEF Tick, Less
    <2>6. busy' \in 0 .. BiteInterval
        BY <1>13 DEF Tick
    <2>7. BiteKeepsStep'
        <3> SUFFICES ASSUME bite' # Never
                     PROVE  IF alive' \in 1 .. AliveInterval
                            THEN bite' = BiteInterval - AliveInterval + alive'
                            ELSE busy' >= BiteInterval - AliveInterval - bite'
            BY <2>1, <2>2
        <3>1. bite \in 1 .. BiteInterval /\ bite' = bite - 1
            BY <2>2, <2>5
        <3>2. CASE alive > 0
            BY <2>2, <2>3, <2>4, <2>6, <3>1, <3>2
        <3>3. CASE alive = 0
            <4>1. at = "work"
                BY <2>1, <2>2, <3>1, <3>3 DEF Pressing
            <4>2. busy' = IF busy < BiteInterval THEN busy + 1 ELSE busy
                BY <1>13, <4>1 DEF Tick
            <4>3. busy >= BiteInterval - AliveInterval - bite
                BY <3>1, <3>3, <4>1
            <4> QED BY <2>4, <3>1, <3>3, <4>2, <4>3
        <3> QED BY <2>3, <3>2, <3>3
    <2> QED BY <1>13, <2>1, <2>2, <2>3, <2>4, <2>5, <2>6, <2>7 DEF Tick
<1>14. CASE UNCHANGED vars BY <1>14 DEF vars
<1> QED BY <1>1, <1>2, <1>3, <1>4, <1>5, <1>6, <1>7, <1>8, <1>9, <1>10, <1>11, <1>12, <1>13, <1>14
        DEF Next, EngineStep

-----------------------------------------------------------------------------
\* The invariant holds in every state of every run of an engine and its watchdog.
THEOREM WatchDogIsSound == Spec => []IInv
BY InitIInv, NextIInv, PTL DEF Spec

\* The types hold: no timer runs past due.
THEOREM WatchDogTypeCorrect == Spec => []TypeOK
BY WatchDogIsSound, PTL DEF IInv

\* However a halt and the keep-alives fall together, no bite outlives the thread.
THEOREM HaltUnarms == Spec => []EndedIsUnwatched
BY WatchDogIsSound, PTL DEF IInv

(***************************************************************************)
(* An engine that has paused within the difference of the two intervals is *)
(* not bitten.                                                             *)
(***************************************************************************)
THEOREM BitesOnlyBusy == Spec => []OnlyBusyIsBitten
<1>1. IInv => OnlyBusyIsBitten
    BY IntervalsAssumption, NeverAssumption
       DEF IInv, TypeOK, BittenWhenDue, BiteKeepsStep, OnlyBusyIsBitten
<1> QED BY <1>1, WatchDogIsSound, PTL
=============================================================================
