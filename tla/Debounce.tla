------------------------------ MODULE Debounce ------------------------------
(***************************************************************************)
(* DebounceInput (gpio/debounce.hpp): a level is accepted when every       *)
(* sample for more than debounceTime ticks has shown it.  A call samples   *)
(* the pin, then reads the clock, then returns; an interrupt may let the   *)
(* clock advance in between, by at most MaxSkew ticks in one call.         *)
(***************************************************************************)
EXTENDS WrappingTime

CONSTANTS
  DebounceTime,  \* debounceTime, in ticks
  MaxGap,        \* the most ticks from one clock read to the next call
  MaxSkew        \* the most ticks one call takes

(***************************************************************************)
(* get() is polled often enough that a pending transition is looked at     *)
(* before the clock difference can wrap.                                   *)
(***************************************************************************)
ASSUME DebounceAssumption ==
  /\ DebounceTime \in Nat
  /\ MaxGap \in Nat
  /\ MaxSkew \in 0 .. MaxGap
  /\ DebounceTime + MaxGap + MaxSkew < Wrap

VARIABLES
  currentLevel,    \* DebounceState::currentLevel, the accepted level
  isChanged,       \* DebounceState::isChanged, a transition is pending
  lastChangeTime,  \* DebounceState::lastChangeTime
  clock,           \* Clock::now()
  gap,             \* history: ticks since the last call read the clock
  seen,            \* history: the last sample of the pin
  age              \* history: ticks since the first of the latest samples
                   \* that all differ from the accepted level, 0 if none does

stateVars == <<currentLevel, isChanged, lastChangeTime>>

vars == <<currentLevel, isChanged, lastChangeTime, clock, gap, seen, age>>

-----------------------------------------------------------------------------
(***************************************************************************)
(* DebounceState::debounce(input), where now is what Clock::now() answers. *)
(***************************************************************************)
\* As Cancel, with the pending transition kept.
CancelKept(input) ==
  /\ input = currentLevel
  /\ UNCHANGED stateVars

Cancel(input) ==
  /\ input = currentLevel
  /\ isChanged' = FALSE
  /\ UNCHANGED <<currentLevel, lastChangeTime>>

\* As Accept, without looking at the clock.
AcceptUntimed(input, now) ==
  /\ input # currentLevel
  /\ isChanged
  /\ currentLevel' = input
  /\ isChanged' = FALSE
  /\ UNCHANGED lastChangeTime

Accept(input, now) ==
  /\ input # currentLevel
  /\ isChanged
  /\ Elapsed(now, lastChangeTime) > DebounceTime
  /\ currentLevel' = input
  /\ isChanged' = FALSE
  /\ UNCHANGED lastChangeTime

\* As Hold, with each sample starting the interval again.
HoldRestamped(input, now) ==
  /\ input # currentLevel
  /\ isChanged
  /\ Elapsed(now, lastChangeTime) <= DebounceTime
  /\ lastChangeTime' = now
  /\ UNCHANGED <<currentLevel, isChanged>>

Hold(input, now) ==
  /\ input # currentLevel
  /\ isChanged
  /\ Elapsed(now, lastChangeTime) <= DebounceTime
  /\ UNCHANGED stateVars

\* As Start, without taking the time.
StartUnstamped(input, now) ==
  /\ input # currentLevel
  /\ ~isChanged
  /\ isChanged' = TRUE
  /\ UNCHANGED <<currentLevel, lastChangeTime>>

Start(input, now) ==
  /\ input # currentLevel
  /\ ~isChanged
  /\ isChanged' = TRUE
  /\ lastChangeTime' = now
  /\ UNCHANGED currentLevel

Update(input, now) ==
  Cancel(input) \/ Accept(input, now) \/ Hold(input, now) \/ Start(input, now)

\* DebounceState::runSetup: the current raw level is accepted at once.
SetupState(input, now) ==
  /\ currentLevel' = input
  /\ isChanged' = FALSE
  /\ lastChangeTime' = now

-----------------------------------------------------------------------------
\* Just after the first runSetup ("call runSetup() before reading").
Init ==
  /\ currentLevel \in BOOLEAN
  /\ isChanged = FALSE
  /\ clock \in Ticks
  /\ lastChangeTime = clock
  /\ gap = 0
  /\ seen = currentLevel
  /\ age = 0

\* The history counts ticks up to MaxAge, which is more than Inv allows.
MaxAge == DebounceTime + MaxGap + 2 * MaxSkew

Aged(ticks) == IF ticks < MaxAge THEN ticks ELSE MaxAge

\* The ticks for which samples up to this one have differed from the level.
RunAge(input) == IF input # currentLevel /\ seen # currentLevel THEN age ELSE 0

(***************************************************************************)
(* One call: the pin is sampled now, the clock is read d ticks later and   *)
(* the call and its caller are done after e ticks.                         *)
(***************************************************************************)
Duration(d, e) ==
  /\ clock' = Advance(clock, e)
  /\ gap' = e - d

Get(input, d, e) ==
  /\ Update(input, Advance(clock, d))
  /\ Duration(d, e)
  /\ seen' = input
  /\ age' = IF input # currentLevel' THEN Aged(RunAge(input) + e) ELSE 0

Setup(input, d, e) ==
  /\ SetupState(input, Advance(clock, d))
  /\ Duration(d, e)
  /\ seen' = input
  /\ age' = 0

Tick ==
  /\ gap < MaxGap
  /\ clock' = Advance(clock, 1)
  /\ gap' = gap + 1
  /\ age' = IF seen # currentLevel THEN Aged(age + 1) ELSE age
  /\ UNCHANGED <<currentLevel, isChanged, lastChangeTime, seen>>

AnyGet ==
  \E input \in BOOLEAN, e \in 0 .. MaxSkew : \E d \in 0 .. e : Get(input, d, e)

AnySetup ==
  \E input \in BOOLEAN, e \in 0 .. MaxSkew : \E d \in 0 .. e : Setup(input, d, e)

Next == Tick \/ AnyGet \/ AnySetup

Spec == Init /\ [][Next]_vars

\* The clock ticks and the main loop keeps polling the input.
FairSpec == Spec /\ WF_vars(Tick) /\ WF_vars(AnyGet)

-----------------------------------------------------------------------------
TypeOK ==
  /\ currentLevel \in BOOLEAN
  /\ isChanged \in BOOLEAN
  /\ lastChangeTime \in Ticks
  /\ clock \in Ticks
  /\ gap \in 0 .. MaxGap
  /\ seen \in BOOLEAN
  /\ age \in Nat

(***************************************************************************)
(* The pending flag and time stamp tell the true history: a transition is  *)
(* pending exactly when the last sample differs from the level, and the    *)
(* stamp is the start of that run of samples, at most one call late.       *)
(***************************************************************************)
StampTellsAge ==
  /\ isChanged <=> seen # currentLevel
  /\ ~isChanged => age = 0
  /\ isChanged => age - Elapsed(clock, lastChangeTime) \in 0 .. MaxSkew

(***************************************************************************)
(* No transition is overlooked: one that has lasted longer than the        *)
(* interval (and one call) is accepted by the next call, wherever the      *)
(* clock wraps, so what is still pending after a call is not older.        *)
(***************************************************************************)
NothingOverlooked == age <= DebounceTime + MaxSkew + gap

\* The inductive invariant: the stamp itself is never older than the
\* interval and the ticks since it was last looked at.
StampFresh ==
  isChanged => Elapsed(clock, lastChangeTime) <= DebounceTime + gap

Inv == TypeOK /\ StampTellsAge /\ StampFresh

(***************************************************************************)
(* "A different sampled level must persist for more than the interval"     *)
(* (README): outside runSetup the level changes only to a level that all   *)
(* samples have shown for more than debounceTime, less the duration of one *)
(* call, by which the clock read may lag the sample.                       *)
(***************************************************************************)
AcceptedOnlyStable ==
  [][currentLevel' # currentLevel /\ ~AnySetup
       => /\ seen = currentLevel'
          /\ age + MaxSkew > DebounceTime]_vars

(***************************************************************************)
(* An input that settles is eventually, and then for ever, the accepted    *)
(* level.                                                                  *)
(***************************************************************************)
SettledIsAccepted ==
  \A level \in BOOLEAN : <>[](seen = level) => <>[](currentLevel = level)

=============================================================================
