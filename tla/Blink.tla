------------------------------- MODULE Blink -------------------------------
(***************************************************************************)
(* The application of tests/application_test.cpp, with either kind of      *)
(* sequence poller: it drives an OutputPin in mode Output                  *)
(* (gpio/output.hpp), which forwards to its backend and keeps no state of  *)
(* its own.  The program may run its setup again at any time, and use the  *)
(* poller's other operations.                                              *)
(***************************************************************************)
EXTENDS TimePoller

VARIABLES
  running,  \* setup has run
  mode,     \* the pin's mode, as the backend has set it
  level     \* the level last written to the pin

blinkVars == <<vars, running, mode, level>>

BlinkInit ==
  /\ Init
  /\ running = FALSE
  /\ mode = "Untied"
  /\ level \in BOOLEAN

\* OutputPin::runSetup, OutputPin::set
RunSetup == mode' = "Output"

Set(value) == level' = value

\* As Setup, leaving the poller's state alone.
SetupOrigin ==
  /\ RunSetup
  /\ InitOrigin
  /\ Set(FALSE)
  /\ running' = TRUE

Setup ==
  /\ RunSetup
  /\ Reset
  /\ Set(FALSE)
  /\ running' = TRUE

Loop ==
  /\ running
  /\ CyclicPoll \/ FinitePoll
  /\ IF result' THEN Set(state' # 0) ELSE UNCHANGED level
  /\ UNCHANGED <<running, mode>>

\* The poller's origin is moved, or time passes; the pin stays as it is.
Shift == (SetFrom \/ InitOrigin) /\ UNCHANGED <<running, mode, level>>

Pass == Tick /\ UNCHANGED <<running, mode, level>>

BlinkNext == Setup \/ Loop \/ Shift \/ Pass

\* Setup runs, the clock ticks and the main loop goes round.
BlinkSpec ==
  /\ BlinkInit
  /\ [][BlinkNext]_blinkVars
  /\ WF_blinkVars(~running /\ Setup)
  /\ WF_blinkVars(Loop)
  /\ WF_blinkVars(Pass)

-----------------------------------------------------------------------------
(***************************************************************************)
(* Once set up, the pin is an output and shows the poller's interval, high *)
(* in all but the first, even if setup runs again in the middle of the     *)
(* sequence; and a cyclic poller that nothing keeps restarting goes on     *)
(* blinking.                                                               *)
(***************************************************************************)
Blinks ==
  /\ [](running => mode = "Output" /\ (level <=> state # 0))
  /\ cyclic /\ <>[][~Restart]_vars =>
       []<>(running /\ level) /\ []<>(running /\ ~level)

=============================================================================
