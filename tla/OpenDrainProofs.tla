-------------------------- MODULE OpenDrainProofs --------------------------
(***************************************************************************)
(* Proofs about OpenDrain for any number of boards on the line: nobody     *)
(* drives the resistor's level, and the line is wired.  Both follow from   *)
(* one invariant: a pin is an output only after its latch was loaded.      *)
(***************************************************************************)
EXTENDS OpenDrain, TLAPS

\* The active level and the idle one are the two levels.
LEMMA Levels == Active \in BOOLEAN /\ Idle \in BOOLEAN /\ (Active <=> ~Idle)
BY DEF Active, Idle, Low

\* They differ.
LEMMA LevelsDiffer == Idle # Active
BY DEF Active, Idle, Low

\* A step leaves the variant, and with it the levels, alone.
LEMMA SameLevels ==
  ASSUME variant' = variant
  PROVE  Active' = Active /\ Idle' = Idle /\ Low' = Low
BY DEF Active, Idle, Low

\* After power-up no pin is driven.
LEMMA InitInv == Init => Inv
<1> SUFFICES ASSUME Init PROVE Inv
  OBVIOUS
<1>1. wanted \in [Boards -> BOOLEAN]
  BY Levels, Zenon DEF Init
<1>2. TypeOK
  BY <1>1 DEF Init, TypeOK
<1>3. \A b \in Boards : wanted[b] = Idle /\ mode[b] # "Output"
  BY DEF Init
<1>4. \A b \in Boards : wanted[b] # Active
  BY <1>3, LevelsDiffer
<1> QED BY <1>2, <1>3, <1>4
        DEF Init, Inv, Preloaded, NothingWanted, DrivesWhenWanted

\* What keeps the invariant: the board that steps is in order afterwards,
\* the others and the variant are left alone.
LEMMA OwnPin ==
  ASSUME Inv, NEW b \in Boards, variant' = variant,
         NEW m \in {"Untied", "Output"}, NEW l \in BOOLEAN,
         NEW s \in {"reset", "setup", "running"}, NEW w \in BOOLEAN,
         mode' = [mode EXCEPT ![b] = m], latch' = [latch EXCEPT ![b] = l],
         stage' = [stage EXCEPT ![b] = s], wanted' = [wanted EXCEPT ![b] = w],
         s = "running" => l = Active,
         s # "running" => w = Idle,
         m = "Output" <=> w = Active
  PROVE  Inv'
<1>1. Active' = Active /\ Idle' = Idle
  BY SameLevels
<1>2. TypeOK'
  <2>1. latch' \in [Boards -> BOOLEAN]
    BY Zenon DEF Inv, TypeOK
  <2>2. wanted' \in [Boards -> BOOLEAN]
    BY Zenon DEF Inv, TypeOK
  <2>3. mode' \in [Boards -> {"Untied", "Output"}]
    BY DEF Inv, TypeOK
  <2>4. stage' \in [Boards -> {"reset", "setup", "running"}]
    BY DEF Inv, TypeOK
  <2> QED BY <2>1, <2>2, <2>3, <2>4 DEF Inv, TypeOK
<1>3. ASSUME NEW c \in Boards
      PROVE  /\ stage'[c] = "running" => latch'[c] = Active
             /\ stage'[c] # "running" => wanted'[c] = Idle
             /\ mode'[c] = "Output" <=> wanted'[c] = Active
  <2>1. CASE c = b
    <3>1. mode'[c] = m /\ latch'[c] = l /\ stage'[c] = s /\ wanted'[c] = w
      BY <2>1, Zenon DEF Inv, TypeOK
    <3> QED BY <3>1
  <2>2. CASE c # b
    <3>1. /\ mode'[c] = mode[c] /\ latch'[c] = latch[c]
          /\ stage'[c] = stage[c] /\ wanted'[c] = wanted[c]
      BY <2>2, Zenon DEF Inv, TypeOK
    <3>2. /\ stage[c] = "running" => latch[c] = Active
          /\ stage[c] # "running" => wanted[c] = Idle
          /\ mode[c] = "Output" <=> wanted[c] = Active
      BY DEF Inv, Preloaded, NothingWanted, DrivesWhenWanted
    <3> QED BY <3>1, <3>2
  <2> QED BY <2>1, <2>2
<1> QED BY <1>1, <1>2, <1>3
        DEF Inv, Preloaded, NothingWanted, DrivesWhenWanted

\* Writing to a field what it holds changes nothing.
LEMMA KeepsOwn ==
  ASSUME Inv, NEW b \in Boards
  PROVE  /\ latch = [latch EXCEPT ![b] = latch[b]]
         /\ mode = [mode EXCEPT ![b] = mode[b]]
         /\ stage = [stage EXCEPT ![b] = stage[b]]
         /\ latch[b] \in BOOLEAN
         /\ mode[b] \in {"Untied", "Output"}
         /\ wanted[b] \in BOOLEAN
BY Zenon DEF Inv, TypeOK

\* Untying the pin, the first call of setup, keeps the invariant.
LEMMA SetupUntieInv ==
  ASSUME Inv, NEW b \in Boards, SetupUntie(b)
  PROVE  Inv'
<1>1. /\ mode' = [mode EXCEPT ![b] = "Untied"]
      /\ stage' = [stage EXCEPT ![b] = "setup"]
      /\ wanted' = [wanted EXCEPT ![b] = Idle]
      /\ variant' = variant /\ latch' = latch
  BY DEF SetupUntie, PinMode, To
<1>2. latch' = [latch EXCEPT ![b] = latch[b]] /\ latch[b] \in BOOLEAN
  BY <1>1, KeepsOwn
<1> QED BY <1>1, <1>2, LevelsDiffer, Levels, OwnPin

\* Preloading the latch, the second, keeps it.
LEMMA SetupLatchInv ==
  ASSUME Inv, NEW b \in Boards, SetupLatch(b)
  PROVE  Inv'
<1>1. latch' = [latch EXCEPT ![b] = Active]
  <2>1. CASE Low
    <3>1. Active = FALSE
      BY <2>1 DEF Active
    <3> QED BY <2>1, <3>1 DEF SetupLatch, DigitalWrite
  <2>2. CASE ~Low
    <3>1. Active = TRUE
      BY <2>2 DEF Active
    <3> QED BY <2>2, <3>1 DEF SetupLatch, DigitalWrite
  <2> QED BY <2>1, <2>2
<1>2. /\ stage[b] = "setup" /\ stage' = [stage EXCEPT ![b] = "running"]
      /\ variant' = variant /\ mode' = mode /\ wanted' = wanted
  BY DEF SetupLatch, To
<1>3. mode[b] = "Output" <=> wanted[b] = Active
  BY DEF Inv, DrivesWhenWanted
<1>4. wanted = [wanted EXCEPT ![b] = wanted[b]]
  BY Zenon DEF Inv, TypeOK
<1> QED BY <1>1, <1>2, <1>3, <1>4, KeepsOwn, Levels, OwnPin

\* Setting the output keeps it.
LEMMA SetInv ==
  ASSUME Inv, NEW b \in Boards, NEW level \in BOOLEAN, Set(b, level)
  PROVE  Inv'
<1>1. /\ stage[b] = "running" /\ stage' = stage
      /\ variant' = variant /\ latch' = latch
      /\ wanted' = [wanted EXCEPT ![b] = level]
  BY DEF Set
<1>2. PICK m \in {"Untied", "Output"} :
        /\ mode' = [mode EXCEPT ![b] = m]
        /\ m = "Output" <=> level = Active
  <2>1. CASE Low
    <3>1. Active = FALSE
      BY <2>1 DEF Active
    <3> QED BY <2>1, <3>1 DEF Set, SetLow, SetHigh, PinMode
  <2>2. CASE ~Low
    <3>1. Active = TRUE
      BY <2>2 DEF Active
    <3> QED BY <2>2, <3>1 DEF Set, SetLow, SetHigh, PinMode
  <2> QED BY <2>1, <2>2
<1>3. latch[b] = Active
  BY <1>1 DEF Inv, Preloaded
<1> QED BY <1>1, <1>2, <1>3, KeepsOwn, OwnPin

\* A reset of one board, which leaves any level in its latch, keeps it.
LEMMA ResetInv ==
  ASSUME Inv, NEW b \in Boards, Reset(b)
  PROVE  Inv'
<1> PICK l \in BOOLEAN : latch' = [latch EXCEPT ![b] = l]
  BY DEF Reset, DigitalWrite
<1>1. /\ mode' = [mode EXCEPT ![b] = "Untied"]
      /\ stage' = [stage EXCEPT ![b] = "reset"]
      /\ wanted' = [wanted EXCEPT ![b] = Idle]
      /\ variant' = variant
  BY DEF Reset, PinMode, To
<1> QED BY <1>1, LevelsDiffer, Levels, OwnPin

\* Every step keeps it.
LEMMA NextInv == Inv /\ [Next]_vars => Inv'
<1> SUFFICES ASSUME Inv, [Next]_vars PROVE Inv'
  OBVIOUS
<1>1. ASSUME NEW b \in Boards, Step(b) PROVE Inv'
  BY <1>1, SetupUntieInv, SetupLatchInv, SetInv, ResetInv DEF Step
<1>2. CASE UNCHANGED vars
  BY <1>2 DEF vars, Inv, TypeOK, Preloaded, NothingWanted, DrivesWhenWanted,
              Active, Idle, Low
<1> QED BY <1>1, <1>2 DEF Next

(***************************************************************************)
(* Pins are outputs only with the active level in their latch, and only    *)
(* while that level is wanted (runSetup and set of both specializations).  *)
(***************************************************************************)
THEOREM OpenDrainInvariant == Spec => []Inv
<1>1. Init => Inv
  BY InitInv
<1>2. Inv /\ [Next]_vars => Inv'
  BY NextInv
<1> QED BY <1>1, <1>2, PTL DEF Spec

\* An output pin belongs to a running board, whose latch is loaded.
LEMMA OutputIsActive ==
  ASSUME Inv, NEW b \in Boards, mode[b] = "Output"
  PROVE  stage[b] = "running" /\ wanted[b] = Active /\ latch[b] = Active
<1>1. wanted[b] = Active
  BY DEF Inv, DrivesWhenWanted
<1>2. stage[b] = "running"
  BY <1>1, Levels DEF Inv, NothingWanted
<1> QED BY <1>1, <1>2 DEF Inv, Preloaded

(***************************************************************************)
(* No pin ever drives the level that is the resistor's (set never drives   *)
(* it, and runSetup loads the latch only once the pin is let go).          *)
(***************************************************************************)
THEOREM OpenDrainNoContention == Spec => []NoContention
<1>1. Inv => NoContention
  <2> SUFFICES ASSUME Inv, NEW b \in Boards, Drives(b, Idle) PROVE FALSE
    BY DEF NoContention
  <2>1. mode[b] = "Output" /\ latch[b] = Idle
    BY DEF Drives
  <2>2. latch[b] = Active
    BY <2>1, OutputIsActive
  <2> QED BY <2>1, <2>2, LevelsDiffer
<1> QED BY <1>1, OpenDrainInvariant, PTL

(***************************************************************************)
(* The line is active exactly while a running board wants it so            *)
(* (set, and get of the boards).                                           *)
(***************************************************************************)
THEOREM OpenDrainLineIsWired == Spec => []LineIsWired
<1>1. Inv => LineIsWired
  <2> SUFFICES ASSUME Inv PROVE LineIsWired
    OBVIOUS
  <2>1. \A b \in Boards :
          Drives(b, Active) <=> stage[b] = "running" /\ wanted[b] = Active
    <3>1. \A b \in Boards : wanted[b] = Active => mode[b] = "Output"
      BY DEF Inv, DrivesWhenWanted
    <3> QED BY <3>1, OutputIsActive DEF Drives
  <2>2. Line = Active <=> \E b \in Boards : Drives(b, Active)
    BY Levels DEF Line
  <2> QED BY <2>1, <2>2 DEF LineIsWired
<1> QED BY <1>1, OpenDrainInvariant, PTL

=============================================================================
