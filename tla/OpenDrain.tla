----------------------------- MODULE OpenDrain -----------------------------
(***************************************************************************)
(* The open-drain specializations of OutputPin in gpio/output.hpp: several *)
(* boards share one line, each through a pin that either drives the line   *)
(* to its active level or lets go of it by turning into an input.  A       *)
(* resistor pulls the line, when nobody drives it, to the other level.     *)
(*                                                                         *)
(* The boards run at their own pace, so what others do on the line may     *)
(* fall between the two backend calls of a runSetup, and a board may be    *)
(* reset at any time.                                                      *)
(***************************************************************************)

CONSTANT Boards   \* the boards on the line, a pin each

VARIABLES
  variant,  \* template parameter M, the same for the whole line
  mode,     \* the pins' modes, as the backend has set them
  latch,    \* the pins' output latches
  stage,    \* how far each board's program is
  wanted    \* history: the level each board has set last

vars == <<variant, mode, latch, stage, wanted>>

Variants == {"OpenDrainLowOutput", "OpenDrainHighOutput"}

Low == variant = "OpenDrainLowOutput"

\* The level an open drain drives, and the one it leaves to the resistor.
Active == ~Low
Idle == Low

\* Backend::pinMode(PIN, m) and Backend::digitalWrite(PIN, level).
PinMode(b, m) == mode' = [mode EXCEPT ![b] = m]

DigitalWrite(b, level) == latch' = [latch EXCEPT ![b] = level]

Drives(b, level) == mode[b] = "Output" /\ latch[b] = level

\* The level on the line, which get() reads.
Line == IF \E b \in Boards : Drives(b, Active) THEN Active ELSE Idle

-----------------------------------------------------------------------------
\* A pin comes out of reset as an input, with a latch nobody has written.
Init ==
  /\ variant \in Variants
  /\ mode = [b \in Boards |-> "Untied"]
  /\ latch \in [Boards -> BOOLEAN]
  /\ stage = [b \in Boards |-> "reset"]
  /\ wanted = [b \in Boards |-> Idle]

To(b, s) == stage' = [stage EXCEPT ![b] = s]

\* As SetupUntie, writing the latch before the pin is let go.
SetupUntieLate(b) ==
  /\ stage[b] \in {"reset", "running"}
  /\ To(b, "setup")
  /\ wanted' = [wanted EXCEPT ![b] = Idle]
  /\ UNCHANGED <<variant, latch, mode>>

\* runSetup, its first call; an application may run its setup again.
SetupUntie(b) ==
  /\ stage[b] \in {"reset", "running"}
  /\ PinMode(b, "Untied")
  /\ To(b, "setup")
  /\ wanted' = [wanted EXCEPT ![b] = Idle]
  /\ UNCHANGED <<variant, latch>>

\* As SetupLatch, without the preload.
SetupLatchNot(b) ==
  /\ stage[b] = "setup"
  /\ To(b, "running")
  /\ UNCHANGED <<variant, mode, latch, wanted>>

\* runSetup, its second call: the latch is loaded with the level to drive.
SetupLatch(b) ==
  /\ stage[b] = "setup"
  /\ \/ Low /\ DigitalWrite(b, FALSE)
     \/ ~Low /\ DigitalWrite(b, TRUE)
  /\ To(b, "running")
  /\ UNCHANGED <<variant, mode, wanted>>

\* set(level) of OpenDrainLowOutput.
SetLow(b, level) ==
  /\ Low
  /\ \/ level /\ PinMode(b, "Untied")
     \/ ~level /\ PinMode(b, "Output")

\* set(level) of OpenDrainHighOutput.
SetHigh(b, level) ==
  /\ ~Low
  /\ \/ level /\ PinMode(b, "Output")
     \/ ~level /\ PinMode(b, "Untied")

Set(b, level) ==
  /\ stage[b] = "running"
  /\ SetLow(b, level) \/ SetHigh(b, level)
  /\ wanted' = [wanted EXCEPT ![b] = level]
  /\ UNCHANGED <<variant, latch, stage>>

\* The board is reset; the latch may come up at either level.
Reset(b) ==
  /\ PinMode(b, "Untied")
  /\ \E level \in BOOLEAN : DigitalWrite(b, level)
  /\ To(b, "reset")
  /\ wanted' = [wanted EXCEPT ![b] = Idle]
  /\ UNCHANGED variant

Step(b) ==
  \/ SetupUntie(b)
  \/ SetupLatch(b)
  \/ \E level \in BOOLEAN : Set(b, level)
  \/ Reset(b)

Next == \E b \in Boards : Step(b)

Spec == Init /\ [][Next]_vars

-----------------------------------------------------------------------------
TypeOK ==
  /\ variant \in Variants
  /\ mode \in [Boards -> {"Untied", "Output"}]
  /\ latch \in [Boards -> BOOLEAN]
  /\ stage \in [Boards -> {"reset", "setup", "running"}]
  /\ wanted \in [Boards -> BOOLEAN]

\* A board whose setup is complete has the active level in its latch.
Preloaded == \A b \in Boards : stage[b] = "running" => latch[b] = Active

\* Nothing is wanted of the line before the setup is complete.
NothingWanted == \A b \in Boards : stage[b] # "running" => wanted[b] = Idle

\* A pin is an output exactly while its board wants the active level.
DrivesWhenWanted ==
  \A b \in Boards : mode[b] = "Output" <=> wanted[b] = Active

Inv == TypeOK /\ Preloaded /\ NothingWanted /\ DrivesWhenWanted

(***************************************************************************)
(* No two boards ever fight over the line: a pin never drives the level    *)
(* the resistor is for, not even while a board starts, restarts or runs    *)
(* its setup again with the line held.                                     *)
(***************************************************************************)
NoContention == \A b \in Boards : ~Drives(b, Idle)

(***************************************************************************)
(* The line is a wired AND (OpenDrainLowOutput) or OR of what the boards   *)
(* have set: active exactly while a board that has set it active holds it. *)
(***************************************************************************)
LineIsWired ==
  Line = Active <=> \E b \in Boards : stage[b] = "running" /\ wanted[b] = Active

=============================================================================
