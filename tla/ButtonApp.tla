----------------------------- MODULE ButtonApp ------------------------------
(***************************************************************************)
(* A button as an application uses it: ButtonEventModule over a            *)
(* DebounceInput of the raw pin, the two sharing one clock, and a consumer *)
(* that takes the events with get().  One loop samples the raw pin, lets   *)
(* the debounce read the clock, hands the accepted level to the button and *)
(* lets the button read the clock, in that order.                          *)
(***************************************************************************)
EXTENDS ButtonEvents

CONSTANTS
  DebounceTime,
  ReadGap,     \* the most ticks an event is left unread
  MaxQuiet     \* the history of the quiet time counts up to here

VARIABLES
  currentLevel, isChanged, lastChangeTime,    \* DebounceInput
  rawGap, rawSeen, rawAge,                    \* its history
  quiet        \* history: ticks since the last event was stored and the
               \* last setup was done, whichever is later

debounceVars ==
  <<currentLevel, isChanged, lastChangeTime, rawGap, rawSeen, rawAge>>

appVars == <<debounceVars, vars, quiet>>

\* The debounce reads the clock before the loop's end, hence its longer gap.
D == INSTANCE Debounce WITH
  MaxGap <- MaxGap + MaxSkew, gap <- rawGap, seen <- rawSeen, age <- rawAge

\* What the debounce assumes besides: no change that waits can wrap the clock.
ASSUME DebouncedAssumption ==
  /\ DebounceTime \in Nat
  /\ DebounceTime + (MaxGap + MaxSkew) + MaxSkew < Wrap

(***************************************************************************)
(* The time each event takes since the one before it and since setup.  A   *)
(* LongClick can follow a Click after just the long-press time, when its   *)
(* press was on its way through the debounce as the double-click window    *)
(* expired, and so it can follow a setup that found the button pressed; a  *)
(* DoubleClick needs two accepted changes, a Click one and its window.     *)
(***************************************************************************)
Spacing ==
  [LongClick   |-> LONG_PRESS_TIME,
   DoubleClick |-> 2 * (DebounceTime + 1),
   Click       |-> DebounceTime + 1 + DOUBLE_CLICK_TIME]

\* The consumer reads more often than events can follow one another.
ASSUME ReadAssumption ==
  /\ ReadGap \in Nat
  /\ MaxQuiet \in Nat
  /\ \A event \in OutEventType \ {"None"} : Spacing[event] \in ReadGap + 1 .. MaxQuiet

-----------------------------------------------------------------------------
AppInit ==
  /\ D!Init
  /\ Init
  /\ quiet = 0

\* The quiet time some ticks later.
Quiet(ticks) == IF quiet + ticks < MaxQuiet THEN quiet + ticks ELSE MaxQuiet

\* ButtonEventModule::runLoop with InPin = DebounceInput.
AppLoop(input, d, e) ==
  /\ D!Get(input, d, e)
  /\ Loop(currentLevel', e)
  /\ quiet' = IF report' # "None" THEN 0 ELSE Quiet(e)

\* As AppSetup, with the input's own runSetup left out.
AppSetupButtonOnly(input, d, e) ==
  /\ UNCHANGED <<currentLevel, isChanged, lastChangeTime, rawSeen, rawAge>>
  /\ rawGap' = e - d
  /\ Setup(e)
  /\ quiet' = 0

\* InPin::runSetup, then ButtonEventModule::runSetup.
AppSetup(input, d, e) ==
  /\ D!Setup(input, d, e)
  /\ Setup(e)
  /\ quiet' = 0

\* ButtonEventModule::get, called by the application.
AppGet ==
  /\ Get
  /\ UNCHANGED <<debounceVars, quiet>>

\* Time passes, while neither the next loop nor the next get() is due.
AppTick ==
  /\ D!Tick
  /\ Tick
  /\ outEvent # "None" => quiet < ReadGap
  /\ quiet' = Quiet(1)

AppAnyLoop ==
  \E input \in BOOLEAN, e \in 0 .. MaxSkew :
    /\ outEvent # "None" => quiet + e <= ReadGap
    /\ \E d \in 0 .. e : AppLoop(input, d, e)

AppAnySetup ==
  \E input \in BOOLEAN, e \in 0 .. MaxSkew : \E d \in 0 .. e : AppSetup(input, d, e)

AppNext == AppTick \/ AppAnyLoop \/ AppAnySetup \/ AppGet

AppSpec == AppInit /\ [][AppNext]_appVars

\* Time passes, the framework keeps calling runLoop, the application get().
AppFairSpec == AppSpec /\ WF_appVars(AppTick) /\ WF_appVars(AppAnyLoop) /\ WF_appVars(AppGet)

-----------------------------------------------------------------------------
(***************************************************************************)
(* Every event takes its own time since the event before it and since the  *)
(* last setup: neither a wait of the button nor a transition pending in    *)
(* the debounce is carried over from before either of them.  Setup in the  *)
(* middle of a press starts both parts again (debounce.hpp:28 and          *)
(* button_events.hpp:43); a half-done one would let a release that was     *)
(* pending before it shorten a Click after it.                             *)
(***************************************************************************)
EventsTakeTheirTime ==
  [][\A input \in BOOLEAN, e \in 0 .. MaxSkew : \A d \in 0 .. e :
       AppLoop(input, d, e) /\ report' # "None" => Spacing[report'] <= quiet + e]_appVars

(***************************************************************************)
(* "get() returns and clears the latest pending event" from one slot       *)
(* (README): a consumer that leaves an event unread for less than the      *)
(* shortest spacing of two events never has one overwritten.               *)
(***************************************************************************)
UnreadNeverOverwritten ==
  [][AppAnyLoop /\ report' # "None" => outEvent = "None"]_appVars

=============================================================================
