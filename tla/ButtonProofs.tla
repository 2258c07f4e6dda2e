---------------------------- MODULE ButtonProofs ----------------------------
(***************************************************************************)
(* Proofs about ButtonEvents and ButtonApp for every clock width,          *)
(* thresholds, intervals, loop gap and loop duration that the assumptions  *)
(* allow.  Of the button module: its four states tell the history of the   *)
(* samples, every event is earned by it, and no fresh press is overdue.    *)
(* Of the application: no event comes sooner after the one before it or    *)
(* after a setup than it takes, so a consumer that reads often enough      *)
(* loses none, and the module's promises hold of the debounced samples.    *)
(***************************************************************************)
EXTENDS ButtonApp, TLAPS

\* What the assumptions say of the constants.
LEMMA Constants ==
  /\ Wrap \in Nat /\ Wrap > 0
  /\ LONG_PRESS_TIME \in Nat /\ LONG_PRESS_TIME > 0
  /\ DOUBLE_CLICK_TIME \in Nat /\ DOUBLE_CLICK_TIME > 0
  /\ MaxGap \in Nat /\ MaxSkew \in Nat
  /\ LONG_PRESS_TIME + MaxGap + MaxSkew < Wrap
  /\ DOUBLE_CLICK_TIME + MaxGap + MaxSkew < Wrap
BY WrapAssumption, ButtonAssumption

\* The clock read after d ticks, a stamp of it, and a difference to a stamp.
LEMMA ClockRead ==
  ASSUME NEW to \in Ticks, NEW d \in 0 .. MaxSkew
  PROVE  /\ Advance(to, d) \in Ticks
         /\ Elapsed(Advance(to, d), Advance(to, d)) = 0
BY Constants DEF Ticks, Advance, Elapsed

\* A difference of two clock values is a number of ticks.
LEMMA ElapsedType ==
  ASSUME NEW to \in Ticks, NEW base \in Ticks
  PROVE  Elapsed(to, base) \in Nat
BY Constants DEF Ticks, Elapsed

\* While the difference to a stamp cannot wrap, it grows with the clock.
LEMMA ElapsedGrows ==
  ASSUME NEW to \in Ticks, NEW base \in Ticks, NEW k \in Nat,
         Elapsed(to, base) + k < Wrap
  PROVE  Elapsed(Advance(to, k), base) = Elapsed(to, base) + k
BY Constants DEF Ticks, Advance, Elapsed

Timed == {"WaitForDelay", "WaitForPossibleDoubleClick"}

\* In a timed state the stamp is read without a wrap during the next loop.
LEMMA TimedElapsed ==
  ASSUME Inv, inState \in Timed, NEW k \in Nat, k <= MaxSkew \/ gap + k <= MaxGap
  PROVE  /\ Elapsed(clock, last_pressed_time) \in Nat
         /\ Elapsed(Advance(clock, k), last_pressed_time)
              = Elapsed(clock, last_pressed_time) + k
         /\ age - Elapsed(clock, last_pressed_time) \in 0 .. MaxSkew
<1>1. Elapsed(clock, last_pressed_time) \in Nat
  BY ElapsedType DEF Inv, TypeOK
<1>2. gap \in Nat /\ gap <= MaxGap
  BY Constants DEF Inv, TypeOK
<1>3. Elapsed(clock, last_pressed_time) + k < Wrap
  <2>1. CASE inState = "WaitForDelay"
    BY <1>1, <1>2, <2>1, Constants DEF Inv, StampFresh
  <2>2. CASE inState = "WaitForPossibleDoubleClick"
    BY <1>1, <1>2, <2>2, Constants DEF Inv, StampFresh
  <2> QED BY <2>1, <2>2 DEF Timed
<1>4. age - Elapsed(clock, last_pressed_time) \in 0 .. MaxSkew
  BY DEF Inv, StampTellsAge, Timed
<1> QED BY <1>1, <1>3, <1>4, ElapsedGrows DEF Inv, TypeOK

\* The bound of the history is never met in a timed state.
LEMMA TimedAge ==
  ASSUME Inv, inState \in Timed, NEW k \in Nat, k <= MaxSkew \/ gap + k <= MaxGap
  PROVE  Aged(age + k) = age + k
<1>1. /\ Elapsed(clock, last_pressed_time) \in Nat
      /\ age - Elapsed(clock, last_pressed_time) \in 0 .. MaxSkew
  BY TimedElapsed
<1>2. gap \in Nat /\ gap <= MaxGap /\ age \in Nat
  BY Constants DEF Inv, TypeOK
<1>3. age + k <= MaxAge
  <2>1. CASE inState = "WaitForDelay"
    BY <1>1, <1>2, <2>1, Constants DEF Inv, StampFresh, MaxAge
  <2>2. CASE inState = "WaitForPossibleDoubleClick"
    BY <1>1, <1>2, <2>2, Constants DEF Inv, StampFresh, MaxAge
  <2> QED BY <2>1, <2>2 DEF Timed
<1> QED BY <1>2, <1>3, Constants DEF Aged, MaxAge

\* A run that a loop starts is as old as the loop.
LEMMA NewAge == \A d \in 0 .. MaxSkew : Aged(0 + d) = d
BY Constants DEF Aged, MaxAge

\* The history counts ticks.
LEMMA AgedType == \A n \in Nat : Aged(n) \in Nat
BY Constants DEF Aged, MaxAge

-----------------------------------------------------------------------------
IndInv == Inv /\ EventIsEarned

\* The states after the first runSetup.
LEMMA InitInv == Init => IndInv
<1> SUFFICES ASSUME Init PROVE IndInv
  OBVIOUS
<1>1. seen /\ armed /\ seen \in BOOLEAN /\ armed \in BOOLEAN /\ claimed \in BOOLEAN
  BY Zenon DEF Init
<1>2. /\ inState = "Off" /\ outEvent = "None" /\ report = "None"
      /\ clock \in Ticks /\ last_pressed_time \in Ticks
      /\ gap = 0 /\ age = 0 /\ presses = 0
  BY DEF Init
<1> QED BY <1>1, <1>2, Constants
        DEF IndInv, Inv, TypeOK, StateTellsHistory, StampTellsAge, StampFresh,
            EventIsEarned, InProcessingState, OutEventType

\* What the history records of a loop, with the types it keeps.
LEMMA RecordEffect ==
  ASSUME Inv, NEW pinState \in BOOLEAN, NEW d \in 0 .. MaxSkew,
         RecordLoop(pinState, d), Stored \in OutEventType,
         Counted(pinState) \in 0 .. 2
  PROVE  /\ clock' = Advance(clock, d) /\ clock' \in Ticks
         /\ gap' = 0 /\ gap' \in 0 .. MaxGap
         /\ seen' = pinState /\ seen' \in BOOLEAN
         /\ presses' = Counted(pinState) /\ presses' \in 0 .. 2
         /\ report' = Stored /\ report' \in OutEventType
         /\ armed' \in BOOLEAN /\ claimed' \in BOOLEAN
         /\ armed' <=> (armed \/ pinState) /\ report' = "None"
         /\ age' \in Nat
         /\ presses' # 0 => age' = Aged(RunAge(pinState) + d)
<1>1. clock' \in Ticks
  BY ClockRead DEF RecordLoop, Inv, TypeOK
<1>2. armed' \in BOOLEAN /\ claimed' \in BOOLEAN
  BY Zenon DEF RecordLoop
<1>3. armed' <=> (armed \/ pinState) /\ report' = "None"
  BY DEF RecordLoop
<1>4. RunAge(pinState) \in Nat /\ d \in Nat
  BY Constants DEF RunAge, Inv, TypeOK
<1>5. /\ clock' = Advance(clock, d) /\ gap' = 0 /\ seen' = pinState
      /\ presses' = Counted(pinState) /\ report' = Stored
      /\ age' = IF presses' = 0 THEN 0 ELSE Aged(RunAge(pinState) + d)
  BY DEF RecordLoop
<1>6. Aged(RunAge(pinState) + d) \in Nat
  BY <1>4, AgedType
<1> QED BY <1>1, <1>2, <1>3, <1>5, <1>6, Constants

\* What a loop does in each of the four states, read off the history.
LEMMA LoopInv ==
  ASSUME IndInv, NEW pinState \in BOOLEAN, NEW d \in 0 .. MaxSkew,
         Loop(pinState, d)
  PROVE  IndInv'
<1> DEFINE now == Advance(clock, d)
<1>a. RecordLoop(pinState, d) /\ InstanceLoop(pinState, now) /\ Inv
  BY DEF Loop, IndInv
<1>b. now \in Ticks /\ Elapsed(now, now) = 0 /\ d \in Nat /\ d <= MaxSkew
  BY ClockRead, Constants DEF IndInv, Inv, TypeOK
<1> USE <1>a, <1>b
<1>1. ASSUME inState = "Off", pinState, Stay
      PROVE  IndInv'
  <2>1. Stored = "None" /\ Counted(pinState) = 0
    BY <1>1 DEF Stored, Counted, Carried, Stay, stateVars,
                Inv, StateTellsHistory
  <2> QED
    BY <1>1, <2>1, RecordEffect, Constants
       DEF Stay, stateVars, IndInv, Inv, TypeOK, StateTellsHistory,
           StampTellsAge, StampFresh, EventIsEarned, OutEventType
<1>2. ASSUME inState = "Off", ~pinState, Enter("WaitForDelay", now)
      PROVE  IndInv'
  <2>1. seen /\ presses = 0 /\ armed /\ report = "None"
    BY <1>2 DEF Inv, TypeOK, StateTellsHistory
  <2>2. Stored = "None" /\ Counted(pinState) = 1
    BY <1>2, <2>1 DEF Stored, Counted, Carried, Enter
  <2>3. RunAge(pinState) = 0
    BY <1>2, <2>1 DEF RunAge
  <2>4. /\ inState' = "WaitForDelay" /\ outEvent' = outEvent
        /\ last_pressed_time' = now /\ clock' = now /\ gap' = 0
        /\ presses' = 1 /\ report' = "None" /\ age' = d
        /\ seen' = pinState
    BY <1>2, <2>2, <2>3, RecordEffect, NewAge DEF Enter, OutEventType
  <2>5. armed'
    BY <2>1, <2>2, <2>4, RecordEffect DEF OutEventType
  <2>6. TypeOK'
    BY <2>2, <2>4, RecordEffect
       DEF Inv, TypeOK, OutEventType, InProcessingState
  <2> QED
    BY <1>2, <2>4, <2>6, <2>5, Constants
       DEF IndInv, Inv, StateTellsHistory, StampTellsAge, StampFresh,
           EventIsEarned
<1>3. ASSUME inState = "WaitForDelay", pinState,
             Enter("WaitForPossibleDoubleClick", now)
      PROVE  IndInv'
  <2>1. ~seen /\ presses = 1 /\ armed /\ report = "None"
    BY <1>3 DEF Inv, TypeOK, StateTellsHistory
  <2>2. Stored = "None" /\ Counted(pinState) = 1
    BY <1>3, <2>1 DEF Stored, Counted, Carried, Enter
  <2>3. RunAge(pinState) = 0
    BY <1>3, <2>1 DEF RunAge
  <2>4. /\ inState' = "WaitForPossibleDoubleClick" /\ outEvent' = outEvent
        /\ last_pressed_time' = now
    BY <1>3 DEF Enter
  <2>5. Stored \in OutEventType /\ Counted(pinState) \in 0 .. 2
    BY <2>2 DEF OutEventType
  <2>6. /\ clock' = now /\ gap' = 0 /\ presses' = 1
        /\ report' = "None" /\ seen' = pinState
        /\ presses' # 0 => age' = Aged(RunAge(pinState) + d)
    BY <2>2, <2>5, RecordEffect
  <2>7. /\ inState' = "WaitForPossibleDoubleClick" /\ outEvent' = outEvent
        /\ last_pressed_time' = now /\ clock' = now /\ gap' = 0
        /\ presses' = 1 /\ report' = "None" /\ age' = d
        /\ seen' = pinState
    BY <2>4, <2>6, <2>3, NewAge
  <2>8. armed'
    BY <2>1, <2>2, <2>7, RecordEffect DEF OutEventType
  <2>9. TypeOK'
    BY <2>2, <2>7, RecordEffect
       DEF Inv, TypeOK, OutEventType, InProcessingState
  <2> QED
    BY <1>3, <2>7, <2>9, <2>8, Constants
       DEF IndInv, Inv, StateTellsHistory, StampTellsAge, StampFresh,
           EventIsEarned
<1>4. ASSUME inState = "WaitForDelay", ~pinState,
             Elapsed(now, last_pressed_time) >= LONG_PRESS_TIME,
             Store("LongClick")
      PROVE  IndInv'
  <2>1. /\ Stored = "LongClick" /\ Counted(pinState) = 1
        /\ RunAge(pinState) = age
    BY <1>4 DEF Stored, Counted, Carried, RunAge, Store,
                Inv, TypeOK, StateTellsHistory
  <2>2. age + d + MaxSkew >= LONG_PRESS_TIME /\ age \in Nat
    BY <1>4, TimedElapsed, Constants DEF Timed, Inv, TypeOK
  <2>3. Aged(age + d) = age + d
    BY <1>4, TimedAge DEF Timed
  <2> QED
    BY <1>4, <2>1, <2>2, <2>3, RecordEffect, Constants
       DEF Store, IndInv, Inv, TypeOK, StateTellsHistory,
           StampTellsAge, StampFresh, EventIsEarned, OutEventType,
           InProcessingState
<1>5. ASSUME inState \in Timed, Stay,
             pinState <=> inState = "WaitForPossibleDoubleClick",
             Elapsed(now, last_pressed_time)
               < (IF pinState THEN DOUBLE_CLICK_TIME ELSE LONG_PRESS_TIME)
      PROVE  IndInv'
  <2>1. /\ Stored = "None" /\ Counted(pinState) = 1
        /\ RunAge(pinState) = age
    BY <1>5 DEF Stored, Counted, Carried, RunAge, Stay, stateVars, Timed,
                Inv, TypeOK, StateTellsHistory
  <2>a. Aged(age + d) = age + d
    BY <1>5, TimedAge
  <2>2. /\ clock' = now /\ last_pressed_time' = last_pressed_time
        /\ inState' = inState /\ outEvent' = outEvent
        /\ age' = age + d /\ presses' = 1 /\ report' = "None"
        /\ gap' = 0
    BY <1>5, <2>1, <2>a, RecordEffect DEF Stay, stateVars, OutEventType
  <2>3. age' - Elapsed(clock', last_pressed_time') \in 0 .. MaxSkew
    BY <1>5, <2>2, TimedElapsed, Constants DEF Inv, TypeOK
  <2>4. TypeOK'
    BY <1>5, <2>1, <2>2, RecordEffect DEF Inv, TypeOK, OutEventType
  <2>5. StateTellsHistory'
    BY <1>5, <2>1, <2>2, RecordEffect
       DEF Inv, TypeOK, StateTellsHistory, Timed, OutEventType
  <2>6. StampTellsAge' /\ EventIsEarned'
    BY <2>2, <2>3 DEF StampTellsAge, EventIsEarned
  <2>7. StampFresh'
    BY <1>5, <2>2, ElapsedType, Constants DEF StampFresh, Inv, TypeOK, Timed
  <2> QED BY <2>4, <2>5, <2>6, <2>7 DEF IndInv, Inv
<1>6. ASSUME inState = "WaitForPossibleDoubleClick", ~pinState,
             Store("DoubleClick")
      PROVE  IndInv'
  <2>1. Stored = "DoubleClick" /\ Counted(pinState) = 2
    BY <1>6 DEF Stored, Counted, Carried, Store,
                Inv, TypeOK, StateTellsHistory
  <2> QED
    BY <1>6, <2>1, RecordEffect, Constants
       DEF Store, IndInv, Inv, TypeOK, StateTellsHistory,
           StampTellsAge, StampFresh, EventIsEarned, OutEventType,
           InProcessingState
<1>7. ASSUME inState = "WaitForPossibleDoubleClick", pinState,
             Elapsed(now, last_pressed_time) >= DOUBLE_CLICK_TIME,
             Store("Click")
      PROVE  IndInv'
  <2>1. /\ Stored = "Click" /\ Counted(pinState) = 1
        /\ RunAge(pinState) = age
    BY <1>7 DEF Stored, Counted, Carried, RunAge, Store,
                Inv, TypeOK, StateTellsHistory
  <2>2. age + d + MaxSkew >= DOUBLE_CLICK_TIME /\ age \in Nat
    BY <1>7, TimedElapsed, Constants DEF Timed, Inv, TypeOK
  <2>3. /\ inState' = "WaitForRelease" /\ outEvent' = "Click"
        /\ last_pressed_time' = last_pressed_time
    BY <1>7 DEF Store
  <2>4. Stored \in OutEventType /\ Counted(pinState) \in 0 .. 2
    BY <2>1 DEF OutEventType
  <2>5. /\ presses' = 1 /\ report' = "Click" /\ seen' = pinState
        /\ armed' <=> (armed \/ pinState) /\ report' = "None"
        /\ presses' # 0 => age' = Aged(RunAge(pinState) + d)
    BY <2>1, <2>4, RecordEffect
  <2>6. TypeOK'
    BY <2>3, <2>4, RecordEffect DEF Inv, TypeOK, OutEventType, InProcessingState
  <2>7. StateTellsHistory'
    BY <1>7, <2>3, <2>5 DEF StateTellsHistory
  <2>8. EventIsEarned'
    <3>0. Aged(age + d) = age + d
      BY <1>7, TimedAge DEF Timed
    <3>1. age' + MaxSkew >= DOUBLE_CLICK_TIME
      BY <2>1, <2>2, <2>5, <3>0, Constants
    <3>2. seen'
      BY <1>7, <2>5
    <3> QED BY <2>5, <3>1, <3>2 DEF EventIsEarned
  <2> QED
    BY <2>3, <2>6, <2>7, <2>8 DEF IndInv, Inv, StampTellsAge, StampFresh
<1>8. CASE InWaitForRelease(pinState)
  <2>1. Stored = "None" /\ Counted(pinState) = 0
    BY <1>8 DEF Stored, Counted, Carried, InWaitForRelease,
                Inv, TypeOK, StateTellsHistory
  <2>2. /\ inState' = IF pinState THEN "Off" ELSE "WaitForRelease"
        /\ outEvent' = outEvent /\ last_pressed_time' = last_pressed_time
        /\ presses' = 0 /\ report' = "None" /\ seen' = pinState
    BY <1>8, <2>1, RecordEffect DEF InWaitForRelease, OutEventType
  <2>3. armed' <=> pinState
    BY <1>8, <2>1, <2>2, RecordEffect
       DEF InWaitForRelease, Inv, StateTellsHistory, OutEventType
  <2>4. TypeOK'
    BY <2>1, <2>2, RecordEffect
       DEF Inv, TypeOK, OutEventType, InProcessingState
  <2> QED
    BY <2>2, <2>4, <2>3
       DEF IndInv, Inv, StateTellsHistory, StampTellsAge, StampFresh,
           EventIsEarned
<1>9. Elapsed(now, last_pressed_time) \in Nat
  BY ElapsedType DEF Inv, TypeOK
<1>10. CASE InOff(pinState, now)
  BY <1>1, <1>2, <1>10 DEF InOff
<1>11. CASE InWaitForDelay(pinState, now)
  BY <1>3, <1>4, <1>5, <1>9, <1>11, Constants DEF InWaitForDelay, Timed
<1>12. CASE InWaitForPossibleDoubleClick(pinState, now)
  BY <1>5, <1>6, <1>7, <1>9, <1>12, Constants
     DEF InWaitForPossibleDoubleClick, Timed
<1> QED BY <1>8, <1>10, <1>11, <1>12 DEF InstanceLoop

\* runSetup forgets everything.
LEMMA SetupInv ==
  ASSUME IndInv, NEW d \in 0 .. MaxSkew, Setup(d)
  PROVE  IndInv'
<1>1. /\ seen' /\ armed' /\ seen' \in BOOLEAN /\ armed' \in BOOLEAN
      /\ claimed' \in BOOLEAN
  BY Zenon DEF Setup
<1>2. /\ inState' = "Off" /\ outEvent' = "None" /\ report' = "None"
      /\ clock' \in Ticks /\ last_pressed_time' \in Ticks
      /\ gap' = 0 /\ age' = 0 /\ presses' = 0
  BY ClockRead DEF Setup, SetupState, IndInv, Inv, TypeOK
<1> QED BY <1>1, <1>2, Constants
        DEF IndInv, Inv, TypeOK, StateTellsHistory, StampTellsAge, StampFresh,
            EventIsEarned, InProcessingState, OutEventType

\* Taking the event touches nothing but the slot.
LEMMA GetInv == ASSUME IndInv, Get PROVE IndInv'
BY DEF Get, TakeState, IndInv, Inv, TypeOK, StateTellsHistory, StampTellsAge,
       StampFresh, EventIsEarned, OutEventType

\* A tick ages the run and the stamp alike.
LEMMA TickInv == ASSUME IndInv, Tick PROVE IndInv'
<1>1. /\ gap < MaxGap /\ clock' = Advance(clock, 1) /\ gap' = gap + 1
      /\ age' = IF presses > 0 /\ report = "None" THEN Aged(age + 1) ELSE age
      /\ inState' = inState /\ outEvent' = outEvent
      /\ last_pressed_time' = last_pressed_time
      /\ seen' = seen /\ presses' = presses /\ armed' = armed
      /\ report' = report /\ claimed' = claimed
  BY DEF Tick, stateVars
<1>2. TypeOK'
  <2>1. clock' \in Ticks
    BY <1>1, Constants DEF IndInv, Inv, TypeOK, Ticks, Advance
  <2>2. age' \in Nat
    BY <1>1, AgedType DEF IndInv, Inv, TypeOK
  <2> QED BY <1>1, <2>1, <2>2, Constants DEF IndInv, Inv, TypeOK
<1>3. StateTellsHistory'
  BY <1>1 DEF IndInv, Inv, StateTellsHistory
<1>4. EventIsEarned'
  BY <1>1 DEF IndInv, EventIsEarned
<1>5. CASE inState \in Timed
  <2>1. presses > 0 /\ report = "None"
    BY <1>5 DEF IndInv, Inv, StateTellsHistory, Timed
  <2>2. gap + 1 <= MaxGap /\ gap \in Nat
    BY <1>1, Constants DEF IndInv, Inv, TypeOK
  <2>3. /\ Elapsed(clock, last_pressed_time) \in Nat
        /\ Elapsed(clock', last_pressed_time')
             = Elapsed(clock, last_pressed_time) + 1
        /\ age - Elapsed(clock, last_pressed_time) \in 0 .. MaxSkew
    BY <1>1, <1>5, <2>2, TimedElapsed DEF IndInv
  <2>a. Aged(age + 1) = age + 1
    BY <1>5, <2>2, TimedAge DEF IndInv
  <2>4. StampTellsAge'
    BY <1>1, <2>1, <2>3, <2>a DEF IndInv, Inv, TypeOK, StampTellsAge
  <2>5. StampFresh'
    BY <1>1, <2>2, <2>3, Constants DEF IndInv, Inv, StampFresh
  <2> QED BY <1>2, <1>3, <1>4, <2>4, <2>5 DEF IndInv, Inv
<1>6. CASE inState \notin Timed
  BY <1>1, <1>2, <1>3, <1>4, <1>6
     DEF IndInv, Inv, StampTellsAge, StampFresh, Timed
<1> QED BY <1>5, <1>6

\* Every step keeps the invariant.
LEMMA NextInv == IndInv /\ [Next]_vars => IndInv'
<1> SUFFICES ASSUME IndInv, [Next]_vars PROVE IndInv'
  OBVIOUS
<1>1. CASE Tick
  BY <1>1, TickInv
<1>2. CASE AnyLoop
  BY <1>2, LoopInv DEF AnyLoop
<1>3. CASE AnySetup
  BY <1>3, SetupInv DEF AnySetup
<1>4. CASE Get
  BY <1>4, GetInv
<1>5. CASE UNCHANGED vars
  BY <1>5 DEF vars, IndInv, Inv, TypeOK, StateTellsHistory, StampTellsAge,
              StampFresh, EventIsEarned
<1> QED BY <1>1, <1>2, <1>3, <1>4, <1>5 DEF Next

\* The strengthened invariant holds in every state.
LEMMA IndInvAlways == Spec => []IndInv
<1>1. Init => IndInv
  BY InitInv
<1>2. IndInv /\ [Next]_vars => IndInv'
  BY NextInv
<1> QED BY <1>1, <1>2, PTL DEF Spec

(***************************************************************************)
(* The types, and what inState and last_pressed_time stand for in terms of *)
(* the samples (instanceLoop, runSetup, get).                              *)
(***************************************************************************)
THEOREM ButtonInvariant == Spec => []Inv
<1>1. IndInv => Inv
  BY DEF IndInv
<1> QED BY <1>1, IndInvAlways, PTL

(***************************************************************************)
(* No event is invented, claimed twice or early: every event stored by     *)
(* instanceLoop is earned by fresh presses of the right number and length. *)
(***************************************************************************)
THEOREM ButtonEventsEarned == Spec => []EventIsEarned
<1>1. IndInv => EventIsEarned
  BY DEF IndInv
<1> QED BY <1>1, IndInvAlways, PTL

(***************************************************************************)
(* No fresh press waits longer than its threshold for instanceLoop to      *)
(* answer it, for any width of the clock and any pattern of loops.         *)
(***************************************************************************)
THEOREM ButtonNothingOverdue == Spec => []NothingOverdue
<1>1. IndInv => NothingOverdue
  <2> SUFFICES ASSUME Inv, presses > 0, report = "None"
               PROVE  /\ presses = 1
                      /\ age < (IF seen THEN DOUBLE_CLICK_TIME
                                ELSE LONG_PRESS_TIME) + MaxSkew + gap
    BY DEF IndInv, NothingOverdue
  <2>1. inState \in Timed
    BY DEF Inv, TypeOK, StateTellsHistory, InProcessingState, Timed
  <2>2. /\ age - Elapsed(clock, last_pressed_time) \in 0 .. MaxSkew
        /\ Elapsed(clock, last_pressed_time) \in Nat
    BY <2>1, ElapsedType DEF Inv, TypeOK, StampTellsAge, Timed
  <2>3. CASE inState = "WaitForDelay"
    BY <2>2, <2>3, Constants
       DEF Inv, TypeOK, StateTellsHistory, StampFresh
  <2>4. CASE inState = "WaitForPossibleDoubleClick"
    BY <2>2, <2>4, Constants
       DEF Inv, TypeOK, StateTellsHistory, StampFresh
  <2> QED BY <2>1, <2>3, <2>4 DEF Timed
<1> QED BY <1>1, IndInvAlways, PTL

-----------------------------------------------------------------------------
(* The application: the parts and what connects them. *)

\* What the assumptions say of the constants.
LEMMA AppConstants ==
  /\ Wrap \in Nat /\ Wrap > 0
  /\ DebounceTime \in Nat /\ LONG_PRESS_TIME \in Nat /\ DOUBLE_CLICK_TIME \in Nat
  /\ MaxGap \in Nat /\ MaxSkew \in Nat /\ MaxSkew < Wrap /\ ReadGap \in Nat
  /\ MaxQuiet \in Nat
  /\ LONG_PRESS_TIME \in ReadGap + 1 .. MaxQuiet
  /\ 2 * (DebounceTime + 1) \in ReadGap + 1 .. MaxQuiet
  /\ DebounceTime + 1 + DOUBLE_CLICK_TIME \in ReadGap + 1 .. MaxQuiet
<1>1. /\ Spacing["LongClick"] \in ReadGap + 1 .. MaxQuiet
      /\ Spacing["DoubleClick"] \in ReadGap + 1 .. MaxQuiet
      /\ Spacing["Click"] \in ReadGap + 1 .. MaxQuiet
  BY ReadAssumption DEF OutEventType
<1>2. /\ Spacing["LongClick"] = LONG_PRESS_TIME
      /\ Spacing["DoubleClick"] = 2 * (DebounceTime + 1)
      /\ Spacing["Click"] = DebounceTime + 1 + DOUBLE_CLICK_TIME
  BY DEF Spacing
<1> QED BY <1>1, <1>2, WrapAssumption, DebouncedAssumption, ButtonAssumption, ReadAssumption

\* The parts and the application mean the same by the clock.
LEMMA OneClock ==
  \A to, k :
    /\ D!Advance(to, k) = Advance(to, k)
    /\ D!Elapsed(to, k) = Elapsed(to, k)
BY DEF Advance, Elapsed, D!Advance, D!Elapsed

\* A difference to a stamp grows at most as fast as the clock, whether the
\* clock wraps or not, and is 0 when the stamp is taken.
LEMMA ElapsedBounded ==
  ASSUME NEW to \in Ticks, NEW base \in Ticks, NEW k \in 0 .. Wrap
  PROVE  /\ Elapsed(to, base) \in Nat
         /\ Advance(to, k) \in Ticks
         /\ Elapsed(Advance(to, k), base) <= Elapsed(to, base) + k
         /\ Elapsed(Advance(to, k), Advance(to, k)) = 0
BY AppConstants DEF Ticks, Advance, Elapsed

\* Between the read of the clock and the end of the call the stamp ages.
LEMMA NewStamp ==
  ASSUME NEW to \in Ticks, NEW e \in 0 .. MaxSkew, NEW d \in 0 .. e
  PROVE  Elapsed(Advance(to, e), Advance(to, d)) <= e - d
BY AppConstants DEF Ticks, Advance, Elapsed


-----------------------------------------------------------------------------
\* The fields of both parts that the spacing of events rests on.
Types ==
  /\ currentLevel \in BOOLEAN
  /\ isChanged \in BOOLEAN
  /\ lastChangeTime \in Ticks
  /\ last_pressed_time \in Ticks
  /\ clock \in Ticks
  /\ quiet \in 0 .. MaxQuiet

(***************************************************************************)
(* How far the next event has come: each state's wait, and the transition  *)
(* pending below it, began after the last event and the last setup, so     *)
(* neither is longer than the quiet time.  Only just after a setup may a   *)
(* button that is Off be pressed, with no transition pending then.         *)
(***************************************************************************)
Since(stamp, earlier) ==
  earlier + Elapsed(clock, stamp) <= quiet \/ quiet = MaxQuiet

Spaced ==
  /\ inState = "Off" => currentLevel \/ ~isChanged
  /\ inState = "WaitForDelay" =>
       /\ ~currentLevel
       /\ Since(last_pressed_time, 0)
       /\ isChanged => Since(lastChangeTime, 0)
  /\ inState = "WaitForPossibleDoubleClick" =>
       /\ currentLevel
       /\ Since(last_pressed_time, DebounceTime + 1)
       /\ isChanged => Since(lastChangeTime, DebounceTime + 1)

AppInv == Types /\ Spaced

-----------------------------------------------------------------------------
\* What the two parts do to their fields in a loop, with the types they keep.
LEMMA LoopEffect ==
  ASSUME AppInv, NEW input \in BOOLEAN, NEW e \in 0 .. MaxSkew, NEW d \in 0 .. e,
         AppLoop(input, d, e)
  PROVE  /\ D!Update(input, Advance(clock, d))
         /\ InstanceLoop(currentLevel', clock')
         /\ clock' = Advance(clock, e) /\ clock' \in Ticks
         /\ Advance(clock, d) \in Ticks
         /\ report' = Stored
         /\ quiet' \in 0 .. MaxQuiet
         /\ report' # "None" => quiet' = 0
         /\ report' = "None" => quiet' = MaxQuiet \/ (quiet # MaxQuiet /\ quiet' = quiet + e)
<1>1. e \in Nat /\ quiet \in 0 .. MaxQuiet
  BY AppConstants DEF AppInv, Types
<1>2. quiet' = IF report' # "None" THEN 0 ELSE Quiet(e)
  BY DEF AppLoop
<1>3. /\ D!Update(input, Advance(clock, d))
      /\ InstanceLoop(currentLevel', clock')
      /\ clock' = Advance(clock, e) /\ clock' \in Ticks
      /\ Advance(clock, d) \in Ticks
      /\ report' = Stored
  BY AppConstants, ElapsedBounded, OneClock
   DEF AppLoop, AppInv, Types, D!Get, D!Duration, Loop, RecordLoop
<1> QED BY <1>1, <1>2, <1>3, AppConstants DEF Quiet

LEMMA UpdateEffect ==
  ASSUME AppInv, NEW input \in BOOLEAN, NEW now \in Ticks, D!Update(input, now)
  PROVE  /\ currentLevel' \in BOOLEAN
         /\ isChanged' \in BOOLEAN
         /\ lastChangeTime' \in Ticks
         /\ currentLevel' # currentLevel =>
              /\ isChanged
              /\ Elapsed(now, lastChangeTime) > DebounceTime
              /\ ~isChanged'
         /\ isChanged' =>
              \/ isChanged /\ lastChangeTime' = lastChangeTime
              \/ lastChangeTime' = now
<1>1. CASE D!Cancel(input)
  <2>1. isChanged' = FALSE /\ UNCHANGED <<currentLevel, lastChangeTime>>
    BY <1>1 DEF D!Cancel
  <2>2. isChanged' \in BOOLEAN /\ ~isChanged'
    BY <2>1, Zenon
  <2> QED BY <2>1, <2>2 DEF AppInv, Types
<1>2. CASE D!Accept(input, now)
  <2>1. /\ isChanged /\ Elapsed(now, lastChangeTime) > DebounceTime
        /\ currentLevel' = input /\ isChanged' = FALSE
        /\ lastChangeTime' = lastChangeTime
    BY <1>2, OneClock DEF D!Accept
  <2>2. isChanged' \in BOOLEAN /\ ~isChanged'
    BY <2>1, Zenon
  <2> QED BY <2>1, <2>2 DEF AppInv, Types
<1>3. CASE D!Hold(input, now)
  <2>1. isChanged /\ UNCHANGED <<currentLevel, isChanged, lastChangeTime>>
    BY <1>3 DEF D!Hold, D!stateVars
  <2> QED BY <2>1 DEF AppInv, Types
<1>4. CASE D!Start(input, now)
  <2>1. isChanged' = TRUE /\ lastChangeTime' = now /\ currentLevel' = currentLevel
    BY <1>4 DEF D!Start
  <2>2. isChanged' \in BOOLEAN
    BY <2>1, Zenon
  <2> QED BY <2>1, <2>2 DEF AppInv, Types
<1> QED BY <1>1, <1>2, <1>3, <1>4 DEF D!Update

\* How the stamps age in a loop, whichever way it goes.
LEMMA StampsAge ==
  ASSUME AppInv, NEW input \in BOOLEAN, NEW e \in 0 .. MaxSkew, NEW d \in 0 .. e,
         AppLoop(input, d, e)
  PROVE  /\ Elapsed(clock', clock') = 0
         /\ Elapsed(clock, last_pressed_time) \in Nat
         /\ Elapsed(clock', last_pressed_time) \in Nat
         /\ Elapsed(clock', last_pressed_time)
              <= Elapsed(clock, last_pressed_time) + e
         /\ Elapsed(clock, lastChangeTime) \in Nat
         /\ Elapsed(clock', lastChangeTime') \in Nat
         /\ isChanged' =>
              \/ /\ isChanged
                 /\ Elapsed(clock', lastChangeTime')
                      <= Elapsed(clock, lastChangeTime) + e
              \/ Elapsed(clock', lastChangeTime') <= e
         /\ currentLevel' # currentLevel =>
              /\ isChanged /\ ~isChanged'
              /\ Elapsed(clock, lastChangeTime) + e > DebounceTime
<1> DEFINE now == Advance(clock, d)
<1>1. /\ clock' = Advance(clock, e) /\ clock' \in Ticks /\ now \in Ticks
      /\ D!Update(input, now)
  BY LoopEffect
<1>2. d \in 0 .. Wrap /\ e \in 0 .. Wrap /\ d \in Nat /\ e \in Nat /\ d <= e
  BY AppConstants
<1>3. /\ clock \in Ticks /\ lastChangeTime \in Ticks
      /\ last_pressed_time \in Ticks
  BY DEF AppInv, Types
<1>4. lastChangeTime' \in Ticks
  BY <1>1, UpdateEffect
<1>5. Elapsed(clock', clock') = 0
  BY <1>1, <1>2, <1>3, ElapsedBounded
<1>6. /\ Elapsed(clock, last_pressed_time) \in Nat
      /\ Elapsed(clock', last_pressed_time) \in Nat
      /\ Elapsed(clock', last_pressed_time)
           <= Elapsed(clock, last_pressed_time) + e
  BY <1>1, <1>2, <1>3, ElapsedBounded
<1>7. /\ Elapsed(clock, lastChangeTime) \in Nat
      /\ Elapsed(clock', lastChangeTime') \in Nat
  BY <1>1, <1>2, <1>3, <1>4, ElapsedBounded
<1>8. Elapsed(clock', lastChangeTime) <= Elapsed(clock, lastChangeTime) + e
  BY <1>1, <1>2, <1>3, ElapsedBounded
<1>9. Elapsed(clock', now) <= e - d
  BY <1>1, <1>3, NewStamp
<1>10. Elapsed(now, lastChangeTime) <= Elapsed(clock, lastChangeTime) + d
  BY <1>2, <1>3, ElapsedBounded
<1>11. Elapsed(now, lastChangeTime) \in Nat /\ Elapsed(clock', now) \in Nat
  BY <1>1, <1>2, <1>3, ElapsedBounded
<1>12. isChanged' =>
         \/ /\ isChanged
            /\ Elapsed(clock', lastChangeTime')
                 <= Elapsed(clock, lastChangeTime) + e
         \/ Elapsed(clock', lastChangeTime') <= e
  <2>1. isChanged' =>
          \/ isChanged /\ lastChangeTime' = lastChangeTime
          \/ lastChangeTime' = now
    BY <1>1, UpdateEffect
  <2> QED BY <2>1, <1>2, <1>8, <1>9, <1>11
<1>13. currentLevel' # currentLevel =>
         /\ isChanged /\ ~isChanged'
         /\ Elapsed(clock, lastChangeTime) + e > DebounceTime
  <2>1. currentLevel' # currentLevel =>
          isChanged /\ ~isChanged' /\ Elapsed(now, lastChangeTime) > DebounceTime
    BY <1>1, UpdateEffect
  <2> QED BY <2>1, <1>2, <1>7, <1>10, <1>11, AppConstants
<1> QED BY <1>5, <1>6, <1>7, <1>12, <1>13

\* A wait that has not outlived the quiet time does not after a loop either,
\* unless the loop stores an event.
LEMMA SinceKept ==
  ASSUME AppInv, NEW input \in BOOLEAN, NEW e \in 0 .. MaxSkew, NEW d \in 0 .. e,
         AppLoop(input, d, e), report' = "None",
         NEW before \in Nat, NEW after \in Nat, NEW earlier \in Nat,
         earlier + before <= quiet \/ quiet = MaxQuiet,
         after <= before + e
  PROVE  earlier + after <= quiet' \/ quiet' = MaxQuiet
<1>1. e \in Nat /\ quiet \in 0 .. MaxQuiet /\ quiet' \in 0 .. MaxQuiet
  BY LoopEffect, AppConstants DEF AppInv, Types
<1>2. quiet' = MaxQuiet \/ (quiet # MaxQuiet /\ quiet' = quiet + e)
  BY LoopEffect
<1> QED BY <1>1, <1>2, AppConstants

\* A loop keeps the waits within the quiet time, and any event it stores has
\* taken its time.
LEMMA LoopSpaced ==
  ASSUME AppInv, NEW input \in BOOLEAN, NEW e \in 0 .. MaxSkew, NEW d \in 0 .. e,
         AppLoop(input, d, e)
  PROVE  AppInv' /\ (report' # "None" => Spacing[report'] <= quiet + e)
<1> DEFINE level == currentLevel'
           base == DebounceTime + 1
           pressed == Elapsed(clock, last_pressed_time)
           changed == Elapsed(clock, lastChangeTime)
<1>1. InstanceLoop(level, clock') /\ report' = Stored
  BY LoopEffect
<1>2. /\ clock' \in Ticks /\ e \in Nat
      /\ quiet \in 0 .. MaxQuiet /\ quiet' \in 0 .. MaxQuiet
  BY LoopEffect, AppConstants DEF AppInv, Types
<1>3. /\ currentLevel' \in BOOLEAN /\ isChanged' \in BOOLEAN
      /\ lastChangeTime' \in Ticks
  BY LoopEffect, UpdateEffect
<1>4. pressed \in Nat /\ changed \in Nat /\ base \in Nat
  BY StampsAge, AppConstants
<1>5. /\ isChanged \in BOOLEAN /\ currentLevel \in BOOLEAN
      /\ last_pressed_time \in Ticks
  BY DEF AppInv, Types
<1>6. SUFFICES /\ last_pressed_time' \in Ticks
               /\ Spaced'
               /\ report' # "None" => Spacing[report'] <= quiet + e
  BY <1>2, <1>3 DEF AppInv, Types
<1>7. Elapsed(clock', last_pressed_time) \in Nat
      /\ Elapsed(clock', last_pressed_time) <= pressed + e
  BY StampsAge
<1>8. CASE InOff(level, clock')
  <2>1. CASE level
    <3>1. inState' = "Off" /\ last_pressed_time' = last_pressed_time
          /\ report' = "None"
      BY <1>1, <1>8, <2>1 DEF InOff, Stay, stateVars, Stored
    <3> QED BY <3>1, <2>1, <1>5 DEF Spaced
  <2>2. CASE ~level
    <3>1. /\ inState = "Off" /\ inState' = "WaitForDelay"
          /\ last_pressed_time' = clock' /\ report' = "None"
      BY <1>1, <1>8, <2>2 DEF InOff, Enter, Stored
    <3>2. currentLevel \/ ~isChanged
      BY <3>1 DEF AppInv, Spaced
    <3>3. Elapsed(clock', last_pressed_time') <= quiet'
      BY <1>2, <3>1, StampsAge
    <3>4. isChanged' => 0 + Elapsed(clock', lastChangeTime') <= quiet' \/ quiet' = MaxQuiet
      <4>1. isChanged' => Elapsed(clock', lastChangeTime') <= e
        BY <2>2, <3>2, StampsAge
      <4>2. quiet' = MaxQuiet \/ quiet' = quiet + e
        BY <3>1, LoopEffect
      <4>3. Elapsed(clock', lastChangeTime') \in Nat
        BY StampsAge
      <4> QED BY <1>2, <4>1, <4>2, <4>3
    <3>5. Elapsed(clock', last_pressed_time') = 0
      BY <3>1, StampsAge
    <3> QED BY <1>2, <2>2, <3>1, <3>3, <3>4, <3>5 DEF Spaced, Since
  <2> QED BY <2>1, <2>2
<1>9. CASE InWaitForDelay(level, clock')
  <2>1. /\ inState = "WaitForDelay"
        /\ ~currentLevel
        /\ 0 + pressed <= quiet \/ quiet = MaxQuiet
        /\ isChanged => 0 + changed <= quiet \/ quiet = MaxQuiet
    <3>1. inState = "WaitForDelay"
      BY <1>9 DEF InWaitForDelay
    <3> QED BY <3>1 DEF AppInv, Spaced, Since
  <2>2. CASE level
    <3>1. /\ inState' = "WaitForPossibleDoubleClick"
          /\ last_pressed_time' = clock' /\ report' = "None"
      BY <1>1, <1>9, <2>2 DEF InWaitForDelay, Enter, Stored
    <3>2. isChanged /\ ~isChanged' /\ changed + e > DebounceTime
      BY <2>1, <2>2, StampsAge
    <3>3. Elapsed(clock', last_pressed_time') = 0
      BY <3>1, StampsAge
    <3>4. quiet' = MaxQuiet \/ (quiet # MaxQuiet /\ quiet' = quiet + e)
      BY <3>1, LoopEffect
    <3>5. base + Elapsed(clock', last_pressed_time') <= quiet' \/ quiet' = MaxQuiet
      BY <1>2, <1>4, <2>1, <3>2, <3>3, <3>4, AppConstants
    <3> QED BY <1>2, <2>2, <3>1, <3>2, <3>5 DEF Spaced, Since
  <2>3. CASE ~level
    <3>1. CASE Elapsed(clock', last_pressed_time) >= LONG_PRESS_TIME
      <4>1. /\ inState' = "WaitForRelease" /\ report' = "LongClick"
            /\ last_pressed_time' = last_pressed_time
        BY <1>1, <1>9, <2>1, <2>3, <3>1, OneClock DEF InWaitForDelay, Store, Stored
      <4>2. LONG_PRESS_TIME <= quiet + e
        BY <1>2, <1>4, <1>7, <2>1, <3>1, AppConstants
      <4> QED BY <1>5, <4>1, <4>2 DEF Spaced, Spacing
    <3>2. CASE ~(Elapsed(clock', last_pressed_time) >= LONG_PRESS_TIME)
      <4>1. /\ inState' = inState /\ last_pressed_time' = last_pressed_time
            /\ report' = "None"
        BY <1>1, <1>9, <2>1, <2>3, <3>2, OneClock
           DEF InWaitForDelay, Stay, stateVars, Stored
      <4>2. 0 + Elapsed(clock', last_pressed_time) <= quiet' \/ quiet' = MaxQuiet
        BY <1>4, <1>7, <2>1, <4>1, SinceKept
      <4>3. isChanged' => 0 + Elapsed(clock', lastChangeTime') <= quiet' \/ quiet' = MaxQuiet
        <5>1. CASE isChanged /\ Elapsed(clock', lastChangeTime') <= changed + e
          BY <1>4, <2>1, <4>1, <5>1, StampsAge, SinceKept
        <5>2. CASE Elapsed(clock', lastChangeTime') <= e
          BY <1>2, <4>1, <5>2, StampsAge, LoopEffect
        <5> QED BY <5>1, <5>2, StampsAge
      <4> QED BY <1>5, <2>1, <2>3, <4>1, <4>2, <4>3 DEF Spaced, Since
    <3> QED BY <3>1, <3>2
  <2> QED BY <2>2, <2>3
<1>10. CASE InWaitForPossibleDoubleClick(level, clock')
  <2>1. /\ inState = "WaitForPossibleDoubleClick"
        /\ currentLevel
        /\ base + pressed <= quiet \/ quiet = MaxQuiet
        /\ isChanged => base + changed <= quiet \/ quiet = MaxQuiet
    <3>1. inState = "WaitForPossibleDoubleClick"
      BY <1>10 DEF InWaitForPossibleDoubleClick
    <3> QED BY <3>1 DEF AppInv, Spaced, Since
  <2>2. CASE ~level
    <3>1. /\ inState' = "WaitForRelease" /\ report' = "DoubleClick"
          /\ last_pressed_time' = last_pressed_time
      BY <1>1, <1>10, <2>1, <2>2 DEF InWaitForPossibleDoubleClick, Store, Stored
    <3>2. isChanged /\ changed + e > DebounceTime
      BY <2>1, <2>2, StampsAge
    <3>3. 2 * (DebounceTime + 1) <= quiet + e
      BY <1>2, <1>4, <2>1, <3>2, AppConstants
    <3> QED BY <1>5, <3>1, <3>3 DEF Spaced, Spacing
  <2>3. CASE level
    <3>1. CASE Elapsed(clock', last_pressed_time) >= DOUBLE_CLICK_TIME
      <4>1. /\ inState' = "WaitForRelease" /\ report' = "Click"
            /\ last_pressed_time' = last_pressed_time
        BY <1>1, <1>10, <2>1, <2>3, <3>1, OneClock
           DEF InWaitForPossibleDoubleClick, Store, Stored
      <4>2. DebounceTime + 1 + DOUBLE_CLICK_TIME <= quiet + e
        BY <1>2, <1>4, <1>7, <2>1, <3>1, AppConstants
      <4> QED BY <1>5, <4>1, <4>2 DEF Spaced, Spacing
    <3>2. CASE ~(Elapsed(clock', last_pressed_time) >= DOUBLE_CLICK_TIME)
      <4>1. /\ inState' = inState /\ last_pressed_time' = last_pressed_time
            /\ report' = "None"
        BY <1>1, <1>10, <2>1, <2>3, <3>2, OneClock
           DEF InWaitForPossibleDoubleClick, Stay, stateVars, Stored
      <4>2. base + Elapsed(clock', last_pressed_time) <= quiet' \/ quiet' = MaxQuiet
        BY <1>4, <1>7, <2>1, <4>1, SinceKept
      <4>3. base <= quiet \/ quiet = MaxQuiet
        BY <1>2, <1>4, <2>1, AppConstants
      <4>4. isChanged' => base + Elapsed(clock', lastChangeTime') <= quiet' \/ quiet' = MaxQuiet
        <5>1. CASE isChanged /\ Elapsed(clock', lastChangeTime') <= changed + e
          BY <1>4, <2>1, <4>1, <5>1, StampsAge, SinceKept
        <5>2. CASE Elapsed(clock', lastChangeTime') <= e
          <6>1. Elapsed(clock', lastChangeTime') \in Nat
            BY StampsAge
          <6>2. quiet' = MaxQuiet \/ (quiet # MaxQuiet /\ quiet' = quiet + e)
            BY <4>1, LoopEffect
          <6> QED BY <1>2, <1>4, <4>3, <5>2, <6>1, <6>2
        <5> QED BY <5>1, <5>2, StampsAge
      <4> QED BY <1>5, <2>1, <2>3, <4>1, <4>2, <4>4 DEF Spaced, Since
    <3> QED BY <3>1, <3>2
  <2> QED BY <2>2, <2>3
<1>11. CASE InWaitForRelease(level)
  <2>1. /\ inState' = IF level THEN "Off" ELSE "WaitForRelease"
        /\ last_pressed_time' = last_pressed_time /\ report' = "None"
    BY <1>1, <1>11 DEF InWaitForRelease, Stored
  <2> QED BY <1>5, <2>1 DEF Spaced
<1> QED BY <1>1, <1>8, <1>9, <1>10, <1>11 DEF InstanceLoop

\* What a loop reports is an event or nothing.
LEMMA LoopReports ==
  ASSUME AppInv, NEW input \in BOOLEAN, NEW e \in 0 .. MaxSkew, NEW d \in 0 .. e,
         AppLoop(input, d, e)
  PROVE  report' \in OutEventType
<1>1. InstanceLoop(currentLevel', clock') /\ report' = Stored
  BY LoopEffect
<1> QED BY <1>1
        DEF InstanceLoop, InOff, InWaitForDelay, InWaitForPossibleDoubleClick,
            InWaitForRelease, Enter, Store, Stay, stateVars, Stored, OutEventType

\* Setup of both parts leaves nothing pending or waited for.
LEMMA SetupSpaced ==
  ASSUME AppInv, NEW input \in BOOLEAN, NEW e \in 0 .. MaxSkew, NEW d \in 0 .. e,
         AppSetup(input, d, e)
  PROVE  AppInv'
<1>1. /\ currentLevel' = input /\ isChanged' = FALSE
      /\ lastChangeTime' = Advance(clock, d) /\ clock' = Advance(clock, e)
      /\ last_pressed_time' = Advance(clock, e)
      /\ inState' = "Off" /\ quiet' = 0
  BY OneClock
     DEF AppSetup, D!Setup, D!SetupState, D!Duration, Setup, SetupState
<1>2. isChanged' \in BOOLEAN
  BY <1>1, Zenon
<1>3. Advance(clock, d) \in Ticks /\ Advance(clock, e) \in Ticks
  BY AppConstants, ElapsedBounded DEF AppInv, Types
<1> QED BY <1>1, <1>2, <1>3, AppConstants DEF AppInv, Types, Spaced

\* Taking the event does not concern the waits.
LEMMA GetSpaced == AppInv /\ AppGet => AppInv'
BY DEF AppGet, Get, TakeState, debounceVars, AppInv, Types, Spaced, Since

\* While time passes the quiet time grows as the stamps age.
LEMMA TickSpaced == AppInv /\ AppTick => AppInv'
<1> SUFFICES ASSUME AppInv, AppTick PROVE AppInv'
  OBVIOUS
<1>1. /\ clock' = Advance(clock, 1)
      /\ UNCHANGED <<currentLevel, isChanged, lastChangeTime>>
      /\ UNCHANGED <<inState, outEvent, last_pressed_time>>
      /\ quiet' = Quiet(1)
  BY OneClock DEF AppTick, D!Tick, Tick, stateVars
<1>2. 1 \in 0 .. Wrap
  BY AppConstants
<1>3. /\ clock' \in Ticks
      /\ Elapsed(clock, last_pressed_time) \in Nat
      /\ Elapsed(clock', last_pressed_time) \in Nat
      /\ Elapsed(clock', last_pressed_time)
           <= Elapsed(clock, last_pressed_time) + 1
      /\ Elapsed(clock, lastChangeTime) \in Nat
      /\ Elapsed(clock', lastChangeTime) \in Nat
      /\ Elapsed(clock', lastChangeTime) <= Elapsed(clock, lastChangeTime) + 1
  BY <1>1, <1>2, ElapsedBounded DEF AppInv, Types
<1>4. /\ quiet \in 0 .. MaxQuiet /\ quiet' \in 0 .. MaxQuiet
      /\ quiet' = MaxQuiet \/ (quiet # MaxQuiet /\ quiet' = quiet + 1)
  BY <1>1, AppConstants DEF AppInv, Types, Quiet
<1>5. Types'
  BY <1>1, <1>3, <1>4 DEF AppInv, Types
<1>6. Spaced'
  BY <1>1, <1>3, <1>4, AppConstants DEF AppInv, Types, Spaced, Since
<1> QED BY <1>5, <1>6 DEF AppInv

\* Every step keeps the invariant.
LEMMA NextSpaced == AppInv /\ [AppNext]_appVars => AppInv'
<1> SUFFICES ASSUME AppInv, [AppNext]_appVars PROVE AppInv'
  OBVIOUS
<1>1. AppAnyLoop => AppInv'
  BY LoopSpaced DEF AppAnyLoop
<1>2. AppAnySetup => AppInv'
  BY SetupSpaced DEF AppAnySetup
<1>3. UNCHANGED appVars => AppInv'
  BY DEF appVars, debounceVars, vars, AppInv, Types, Spaced, Since
<1> QED BY <1>1, <1>2, <1>3, GetSpaced, TickSpaced DEF AppNext

\* Just after the first setup nothing is pending or waited for.
LEMMA InitSpaced == AppInit => AppInv
<1> SUFFICES ASSUME AppInit PROVE AppInv
  OBVIOUS
<1>1. /\ currentLevel \in BOOLEAN /\ isChanged = FALSE
      /\ clock \in D!Ticks /\ lastChangeTime = clock
      /\ last_pressed_time = clock /\ inState = "Off" /\ quiet = 0
  BY DEF AppInit, D!Init, Init
<1>2. isChanged \in BOOLEAN
  BY <1>1, Zenon
<1> QED BY <1>1, <1>2, AppConstants DEF AppInv, Types, Spaced, Ticks, D!Ticks

\* The invariant holds in every state.
LEMMA AppInvAlways == AppSpec => []AppInv
BY InitSpaced, NextSpaced, PTL DEF AppSpec

-----------------------------------------------------------------------------
(***************************************************************************)
(* For every clock, interval and pair of thresholds: no event is stored    *)
(* sooner after the one before it, or after runSetup, than its own wait in *)
(* instanceLoop and the debounce of the changes it needs take together.    *)
(***************************************************************************)
THEOREM AppEventsTakeTheirTime == AppSpec => EventsTakeTheirTime
<1> DEFINE InTime ==
      \A input \in BOOLEAN, e \in 0 .. MaxSkew : \A d \in 0 .. e :
        AppLoop(input, d, e) /\ report' # "None" => Spacing[report'] <= quiet + e
<1>1. AppInv /\ [AppNext]_appVars => [InTime]_appVars
  BY LoopSpaced
<1> QED BY <1>1, AppInvAlways, PTL DEF AppSpec, EventsTakeTheirTime

(***************************************************************************)
(* While get() is called more often than events can follow one another, no *)
(* loop stores an event over one that has not been taken.                  *)
(***************************************************************************)
THEOREM AppNeverOverwritesUnread == AppSpec => UnreadNeverOverwritten
<1> DEFINE Kept == AppAnyLoop /\ report' # "None" => outEvent = "None"
<1>1. AppInv /\ [AppNext]_appVars => [Kept]_appVars
  <2>1. SUFFICES ASSUME AppInv, report' # "None", outEvent # "None",
                        NEW input \in BOOLEAN, NEW e \in 0 .. MaxSkew,
                        NEW d \in 0 .. e,
                        quiet + e <= ReadGap, AppLoop(input, d, e)
                 PROVE  FALSE
    BY DEF AppAnyLoop
  <2>2. Spacing[report'] <= quiet + e
    BY <2>1, LoopSpaced
  <2>3. report' \in OutEventType \ {"None"}
    BY <2>1, LoopReports
  <2>4. Spacing[report'] \in ReadGap + 1 .. MaxQuiet
    BY <2>3, ReadAssumption
  <2>5. quiet \in Nat /\ e \in Nat
    BY <2>1, AppConstants DEF AppInv, Types
  <2> QED BY <2>1, <2>2, <2>4, <2>5, AppConstants
<1> QED BY <1>1, AppInvAlways, PTL DEF AppSpec, UnreadNeverOverwritten

\* Each step of the application is a step of the debounced input.
LEMMA StepsOfInput == AppNext => [D!Next]_(D!vars)
<1> SUFFICES ASSUME AppNext PROVE [D!Next]_(D!vars)
  OBVIOUS
<1>1. AppTick => D!Next
  BY DEF AppTick, D!Next
<1>2. AppAnyLoop => D!Next
  BY DEF AppAnyLoop, AppLoop, D!Next, D!AnyGet
<1>3. AppAnySetup => D!Next
  BY DEF AppAnySetup, AppSetup, D!Next, D!AnySetup
<1>4. AppGet => UNCHANGED D!vars
  BY DEF AppGet, Get, debounceVars, D!vars
<1> QED BY <1>1, <1>2, <1>3, <1>4 DEF AppNext

\* Each step of the application is a step of the button module, whose sample
\* of the pin is the level that the debounced input has just accepted.
LEMMA StepsOfButton == AppInv /\ AppNext => [Next]_vars
<1> SUFFICES ASSUME AppInv, AppNext PROVE Next
  OBVIOUS
<1>1. AppTick => Next
  BY DEF AppTick, Next
<1>2. ASSUME NEW input \in BOOLEAN, NEW e \in 0 .. MaxSkew, NEW d \in 0 .. e,
             AppLoop(input, d, e)
      PROVE  Next
  <2>1. currentLevel' \in BOOLEAN
    BY <1>2, LoopEffect, UpdateEffect
  <2>2. Loop(currentLevel', e)
    BY <1>2 DEF AppLoop
  <2> QED BY <2>1, <2>2 DEF Next, AnyLoop
<1>3. AppAnySetup => Next
  BY DEF AppAnySetup, AppSetup, Next, AnySetup
<1>4. AppGet => Next
  BY DEF AppGet, Next
<1> QED BY <1>1, <1>2, <1>3, <1>4 DEF AppNext, AppAnyLoop

\* What is assumed of the parts' surroundings, and so what is proved of the
\* parts, holds in the application, of which they are conjuncts.
LEMMA AppIsOfItsParts == AppSpec => D!Spec /\ Spec
<1>1. AppInit => AppInv /\ D!Init /\ Init
  BY InitSpaced DEF AppInit
<1>2. AppInv /\ [AppNext]_appVars => AppInv'
  BY NextSpaced
<1>3. AppInv /\ [AppNext]_appVars => [D!Next]_(D!vars) /\ [Next]_vars
  <2>1. UNCHANGED appVars => UNCHANGED D!vars /\ UNCHANGED vars
    BY DEF appVars, debounceVars, vars, D!vars
  <2> QED BY <2>1, StepsOfInput, StepsOfButton
<1> QED BY <1>1, <1>2, <1>3, PTL DEF AppSpec, D!Spec, Spec

(***************************************************************************)
(* What the button module promises of any samples it promises of those     *)
(* that the debounced input hands it in the application.                   *)
(***************************************************************************)
THEOREM AppButtonPromises == AppSpec => [](Inv /\ EventIsEarned /\ NothingOverdue)
<1>1. AppSpec => Spec
  BY AppIsOfItsParts
<1> QED BY <1>1, ButtonInvariant, ButtonEventsEarned, ButtonNothingOverdue, PTL

=============================================================================
