---------------------------- MODULE ButtonEvents ----------------------------
(***************************************************************************)
(* ButtonEventModule (button_events.hpp): an active-low input is turned    *)
(* into Click, DoubleClick and LongClick events, held in a slot for one.   *)
(* A loop samples the pin and then reads the clock; the clock may advance  *)
(* in between, by at most MaxSkew ticks.                                   *)
(*                                                                         *)
(* The history variables tell what the samples alone say: fresh presses    *)
(* since the last event, and how long the latest samples have agreed.  A   *)
(* press is fresh once a loop after the one that reported the last event   *)
(* has sampled the button released.                                        *)
(***************************************************************************)
EXTENDS WrappingTime

CONSTANTS
  LONG_PRESS_TIME,    \* 300 ms in ticks
  DOUBLE_CLICK_TIME,  \* 400 ms in ticks
  MaxGap,             \* the most ticks between two loops
  MaxSkew             \* the most ticks one loop takes

\* Loops are frequent enough that no timed wait can wrap the clock.
ASSUME ButtonAssumption ==
  /\ LONG_PRESS_TIME \in Nat \ {0}
  /\ DOUBLE_CLICK_TIME \in Nat \ {0}
  /\ MaxGap \in Nat
  /\ MaxSkew \in 0 .. MaxGap
  /\ LONG_PRESS_TIME + MaxGap + MaxSkew < Wrap
  /\ DOUBLE_CLICK_TIME + MaxGap + MaxSkew < Wrap

InProcessingState ==
  {"Off", "WaitForDelay", "WaitForRelease", "WaitForPossibleDoubleClick"}

OutEventType == {"None", "Click", "DoubleClick", "LongClick"}

VARIABLES
  inState,            \* ButtonEventModule::inState
  outEvent,           \* ButtonEventModule::outEvent
  last_pressed_time,  \* ButtonEventModule::last_pressed_time
  clock,              \* Clock::now()
  gap,                \* history: ticks since the last loop
  seen,               \* history: the last sample, TRUE when released
  age,                \* history: ticks since the first sample of the run of
                      \* equal samples, while a fresh press is unanswered
  presses,            \* history: fresh presses not answered by an earlier loop
  armed,              \* history: a press sampled now would be fresh
  report,             \* history: the event the last loop stored, or None
  claimed             \* history: an event was stored during the press that
                      \* the latest samples show

stateVars == <<inState, outEvent, last_pressed_time>>

vars == <<inState, outEvent, last_pressed_time,
          clock, gap, seen, age, presses, armed, report, claimed>>

-----------------------------------------------------------------------------
(***************************************************************************)
(* instanceLoop: pinState is the sample, now what Clock::now() answers.    *)
(***************************************************************************)
Enter(newState, now) ==
  /\ inState' = newState
  /\ last_pressed_time' = now
  /\ UNCHANGED outEvent

Store(event) ==
  /\ outEvent' = event
  /\ inState' = "WaitForRelease"
  /\ UNCHANGED last_pressed_time

Stay == UNCHANGED stateVars

InOff(pinState, now) ==
  /\ inState = "Off"
  /\ IF pinState THEN Stay ELSE Enter("WaitForDelay", now)

\* As InWaitForDelay, with the comparison off by one tick.
InWaitForDelayStrict(pinState, now) ==
  /\ inState = "WaitForDelay"
  /\ \/ /\ pinState
        /\ Enter("WaitForPossibleDoubleClick", now)
     \/ /\ ~pinState
        /\ IF Elapsed(now, last_pressed_time) > LONG_PRESS_TIME
           THEN Store("LongClick")
           ELSE Stay

InWaitForDelay(pinState, now) ==
  /\ inState = "WaitForDelay"
  /\ \/ /\ pinState
        /\ Enter("WaitForPossibleDoubleClick", now)
     \/ /\ ~pinState
        /\ IF Elapsed(now, last_pressed_time) >= LONG_PRESS_TIME
           THEN Store("LongClick")
           ELSE Stay

\* As InWaitForPossibleDoubleClick, with the timeout looked at first.
InWaitForDoubleTimeFirst(pinState, now) ==
  /\ inState = "WaitForPossibleDoubleClick"
  /\ IF Elapsed(now, last_pressed_time) >= DOUBLE_CLICK_TIME
     THEN Store("Click")
     ELSE IF pinState THEN Stay ELSE Store("DoubleClick")

\* As InWaitForPossibleDoubleClick, with every loop restarting the window.
InWaitForDoubleRestarted(pinState, now) ==
  /\ inState = "WaitForPossibleDoubleClick"
  /\ \/ /\ ~pinState
        /\ Store("DoubleClick")
     \/ /\ pinState
        /\ IF Elapsed(now, last_pressed_time) >= DOUBLE_CLICK_TIME
           THEN Store("Click")
           ELSE Enter(inState, now)

InWaitForPossibleDoubleClick(pinState, now) ==
  /\ inState = "WaitForPossibleDoubleClick"
  /\ \/ /\ ~pinState
        /\ Store("DoubleClick")
     \/ /\ pinState
        /\ IF Elapsed(now, last_pressed_time) >= DOUBLE_CLICK_TIME
           THEN Store("Click")
           ELSE Stay

\* As InWaitForRelease, leaving at once whatever the pin shows.
InWaitForReleaseUnguarded(pinState) ==
  /\ inState = "WaitForRelease"
  /\ inState' = "Off"
  /\ UNCHANGED <<outEvent, last_pressed_time>>

InWaitForRelease(pinState) ==
  /\ inState = "WaitForRelease"
  /\ inState' = IF pinState THEN "Off" ELSE inState
  /\ UNCHANGED <<outEvent, last_pressed_time>>

InstanceLoop(pinState, now) ==
  \/ InOff(pinState, now)
  \/ InWaitForDelay(pinState, now)
  \/ InWaitForPossibleDoubleClick(pinState, now)
  \/ InWaitForRelease(pinState)

\* runSetup
SetupState(now) ==
  /\ inState' = "Off"
  /\ outEvent' = "None"
  /\ last_pressed_time' = now

\* instanceGet
TakeState ==
  /\ outEvent' = "None"
  /\ UNCHANGED <<inState, last_pressed_time>>

-----------------------------------------------------------------------------
\* Just after the first runSetup; the samples before it count as released.
Init ==
  /\ inState = "Off"
  /\ outEvent = "None"
  /\ clock \in Ticks
  /\ last_pressed_time = clock
  /\ gap = 0
  /\ seen = TRUE
  /\ age = 0
  /\ presses = 0
  /\ armed = TRUE
  /\ report = "None"
  /\ claimed = FALSE

(***************************************************************************)
(* The history of the samples: the presses carried over to this loop, the  *)
(* presses counted with it, and the age of the run it extends or starts.   *)
(***************************************************************************)
Carried == IF report = "None" THEN presses ELSE 0

Counted(pinState) ==
  IF armed /\ seen /\ ~pinState THEN Carried + 1 ELSE Carried

RunAge(pinState) == IF pinState = seen THEN age ELSE 0

\* The history counts ticks up to MaxAge, which is more than Inv allows.
MaxAge == LONG_PRESS_TIME + DOUBLE_CLICK_TIME + MaxGap + 2 * MaxSkew

Aged(ticks) == IF ticks < MaxAge THEN ticks ELSE MaxAge

\* The event this step stores: a store always enters WaitForRelease.
Stored ==
  IF inState # "WaitForRelease" /\ inState' = "WaitForRelease"
  THEN outEvent' ELSE "None"

RecordLoop(pinState, d) ==
  /\ clock' = Advance(clock, d)
  /\ gap' = 0
  /\ seen' = pinState
  /\ presses' = Counted(pinState)
  /\ age' = IF presses' = 0 THEN 0 ELSE Aged(RunAge(pinState) + d)
  /\ report' = Stored
  /\ armed' = ((armed \/ pinState) /\ report' = "None")
  /\ claimed' = (~pinState /\ (claimed \/ report' # "None"))

Loop(pinState, d) ==
  /\ InstanceLoop(pinState, Advance(clock, d))
  /\ RecordLoop(pinState, d)

Setup(d) ==
  /\ SetupState(Advance(clock, d))
  /\ clock' = Advance(clock, d)
  /\ gap' = 0
  /\ seen' = TRUE
  /\ age' = 0
  /\ presses' = 0
  /\ armed' = TRUE
  /\ report' = "None"
  /\ claimed' = FALSE

\* get(): the consumer takes the event that is pending, if any.
Get ==
  /\ TakeState
  /\ UNCHANGED <<clock, gap, seen, age, presses, armed, report, claimed>>

Tick ==
  /\ gap < MaxGap
  /\ clock' = Advance(clock, 1)
  /\ gap' = gap + 1
  /\ age' = IF presses > 0 /\ report = "None" THEN Aged(age + 1) ELSE age
  /\ UNCHANGED <<stateVars, seen, presses, armed, report, claimed>>

AnyLoop == \E pinState \in BOOLEAN, d \in 0 .. MaxSkew : Loop(pinState, d)

AnySetup == \E d \in 0 .. MaxSkew : Setup(d)

Next == Tick \/ AnyLoop \/ AnySetup \/ Get

Spec == Init /\ [][Next]_vars

\* The clock ticks and the framework keeps calling runLoop.
FairSpec == Spec /\ WF_vars(Tick) /\ WF_vars(AnyLoop)

-----------------------------------------------------------------------------
TypeOK ==
  /\ inState \in InProcessingState
  /\ outEvent \in OutEventType
  /\ last_pressed_time \in Ticks
  /\ clock \in Ticks
  /\ gap \in 0 .. MaxGap
  /\ seen \in BOOLEAN
  /\ age \in Nat
  /\ presses \in 0 .. 2
  /\ armed \in BOOLEAN
  /\ report \in OutEventType
  /\ claimed \in BOOLEAN

(***************************************************************************)
(* Every event is earned by the samples: a Click by one fresh press that   *)
(* stayed released for the double-click time, a LongClick by one that      *)
(* stayed down for the long-press time, a DoubleClick by two.  The times   *)
(* are short by at most one loop's duration, the lag of the clock read.    *)
(***************************************************************************)
EventIsEarned ==
  /\ report = "Click" =>
       presses = 1 /\ seen /\ age + MaxSkew >= DOUBLE_CLICK_TIME
  /\ report = "LongClick" =>
       presses = 1 /\ ~seen /\ age + MaxSkew >= LONG_PRESS_TIME
  /\ report = "DoubleClick" => presses = 2 /\ ~seen

(***************************************************************************)
(* No fresh press is left waiting: after a loop an unanswered press is one *)
(* press, held for less than the long-press time or released for less than *)
(* the double-click time.  So "a held press emits LongClick", "a second    *)
(* press emits DoubleClick" even in the loop in which the window expires,  *)
(* and "otherwise expiry emits Click" (README), wherever the clock wraps.  *)
(***************************************************************************)
NothingOverdue ==
  presses > 0 /\ report = "None" =>
    /\ presses = 1
    /\ age < (IF seen THEN DOUBLE_CLICK_TIME ELSE LONG_PRESS_TIME)
               + MaxSkew + gap

(***************************************************************************)
(* What the code's four states stand for, in terms of the samples.         *)
(***************************************************************************)
StateTellsHistory ==
  /\ inState = "WaitForRelease" <=> ~armed
  /\ inState = "Off" => seen /\ presses = 0
  /\ inState = "WaitForDelay" => ~seen /\ presses = 1 /\ report = "None"
  /\ inState = "WaitForPossibleDoubleClick" =>
       seen /\ presses = 1 /\ report = "None"
  /\ inState = "WaitForRelease" /\ report = "None" => presses = 0
  /\ report # "None" => inState = "WaitForRelease"

StampTellsAge ==
  inState \in {"WaitForDelay", "WaitForPossibleDoubleClick"} =>
    age - Elapsed(clock, last_pressed_time) \in 0 .. MaxSkew

\* A timed state is left by the first loop that reads the clock late enough.
StampFresh ==
  /\ inState = "WaitForDelay" =>
       Elapsed(clock, last_pressed_time) < LONG_PRESS_TIME + gap
  /\ inState = "WaitForPossibleDoubleClick" =>
       Elapsed(clock, last_pressed_time) < DOUBLE_CLICK_TIME + gap

Inv == TypeOK /\ StateTellsHistory /\ StampTellsAge /\ StampFresh

\* Unless the module is set up again, every fresh press is answered.
EveryPressAnswered ==
  presses > 0 ~> report # "None" \/ presses = 0

(***************************************************************************)
(* "A held press emits LongClick at 300 ms" (README), or DoubleClick when  *)
(* it is the second: a press that is held for ever is answered while held. *)
(***************************************************************************)
HeldPressReported == ~seen /\ ~claimed ~> seen \/ claimed

=============================================================================
