--------------------------- MODULE DebounceProofs ---------------------------
(***************************************************************************)
(* Proofs about Debounce for every clock width, interval, polling gap and  *)
(* call duration that DebounceAssumption allows.                           *)
(***************************************************************************)
EXTENDS Debounce, TLAPS

\* What the assumptions say of the constants.
LEMMA Constants ==
  /\ Wrap \in Nat /\ Wrap > 0
  /\ DebounceTime \in Nat /\ MaxGap \in Nat /\ MaxSkew \in Nat
  /\ MaxSkew <= MaxGap
  /\ DebounceTime + MaxGap + MaxSkew < Wrap
BY WrapAssumption, DebounceAssumption

\* The clock read after d of the e ticks a call takes.
LEMMA CallTimes ==
  ASSUME TypeOK, NEW e \in 0 .. MaxSkew, NEW d \in 0 .. e
  PROVE  /\ d \in Nat /\ e \in Nat /\ d <= e /\ e <= MaxSkew
         /\ e - d \in 0 .. MaxGap
         /\ Advance(clock, d) \in Ticks
         /\ Advance(clock, e) \in Ticks
         /\ Elapsed(Advance(clock, e), Advance(clock, d)) = e - d
BY Constants DEF TypeOK, Ticks, Advance, Elapsed

\* While the difference to a stamp cannot wrap, it grows with the clock.
LEMMA ElapsedGrows ==
  ASSUME NEW to \in Ticks, NEW base \in Ticks, NEW k \in Nat,
         Elapsed(to, base) + k < Wrap
  PROVE  /\ Elapsed(to, base) \in Nat
         /\ Elapsed(Advance(to, k), base) = Elapsed(to, base) + k
BY Constants DEF Ticks, Advance, Elapsed

\* During a call the stamp of a pending transition is read without a wrap.
LEMMA PendingElapsed ==
  ASSUME Inv, isChanged, NEW k \in 0 .. MaxSkew
  PROVE  /\ Elapsed(clock, lastChangeTime) \in Nat
         /\ Elapsed(Advance(clock, k), lastChangeTime)
              = Elapsed(clock, lastChangeTime) + k
<1>1. Elapsed(clock, lastChangeTime) <= DebounceTime + gap
  BY DEF Inv, StampFresh
<1>2. Elapsed(clock, lastChangeTime) \in Int
  BY Constants DEF Inv, TypeOK, Elapsed, Ticks
<1>3. Elapsed(clock, lastChangeTime) + k < Wrap
  BY <1>1, <1>2, Constants DEF Inv, TypeOK
<1> QED BY <1>3, Constants, ElapsedGrows DEF Inv, TypeOK

\* The bound of the history is never met while a transition is pending.
LEMMA PendingAge ==
  ASSUME Inv, isChanged, NEW k \in Nat, k <= MaxSkew \/ gap + k <= MaxGap
  PROVE  Aged(age + k) = age + k
<1>1. /\ Elapsed(clock, lastChangeTime) <= DebounceTime + gap
      /\ age - Elapsed(clock, lastChangeTime) \in 0 .. MaxSkew
  BY DEF Inv, StampFresh, StampTellsAge
<1>2. Elapsed(clock, lastChangeTime) \in Int
  BY Constants DEF Inv, TypeOK, Elapsed, Ticks
<1>3. age + k <= MaxAge
  BY <1>1, <1>2, Constants DEF Inv, TypeOK, MaxAge
<1> QED BY <1>3, Constants DEF Inv, TypeOK, Aged, MaxAge

\* A call alone takes less than the bound.
LEMMA CallAge == \A e \in 0 .. MaxSkew : Aged(e) = e
BY Constants DEF Aged, MaxAge

-----------------------------------------------------------------------------
\* The states after the first runSetup satisfy the invariant.
LEMMA InitInv == Init => Inv
<1> SUFFICES ASSUME Init PROVE Inv
  OBVIOUS
<1>1. /\ currentLevel \in BOOLEAN /\ isChanged \in BOOLEAN /\ seen \in BOOLEAN
      /\ ~isChanged /\ seen = currentLevel
  BY Zenon DEF Init
<1>2. lastChangeTime \in Ticks /\ clock \in Ticks /\ gap = 0 /\ age = 0
  BY Constants DEF Init, Ticks
<1> QED BY <1>1, <1>2, Constants
        DEF Inv, TypeOK, StampTellsAge, StampFresh

\* A call of get keeps the invariant.
LEMMA GetInv ==
  ASSUME Inv, NEW input \in BOOLEAN, NEW e \in 0 .. MaxSkew, NEW d \in 0 .. e,
         Get(input, d, e)
  PROVE  Inv'
<1> DEFINE now == Advance(clock, d)
<1>1. /\ d \in Nat /\ e \in Nat /\ d <= e /\ e <= MaxSkew
      /\ e - d \in 0 .. MaxGap
      /\ now \in Ticks /\ Advance(clock, e) \in Ticks
      /\ Elapsed(Advance(clock, e), now) = e - d
  BY CallTimes DEF Inv
<1>2. /\ clock' = Advance(clock, e) /\ gap' = e - d /\ seen' = input
      /\ age' = IF input # currentLevel' THEN Aged(RunAge(input) + e) ELSE 0
  BY DEF Get, Duration
<1>3. CASE Cancel(input)
  <2>1. /\ currentLevel' = input /\ isChanged' = FALSE
        /\ lastChangeTime' = lastChangeTime /\ age' = 0
    BY <1>2, <1>3 DEF Cancel
  <2>2. isChanged' \in BOOLEAN /\ ~isChanged'
    BY <2>1, Zenon
  <2> QED BY <1>1, <1>2, <2>1, <2>2
          DEF Inv, TypeOK, StampTellsAge, StampFresh
<1>4. CASE Accept(input, now)
  <2>1. /\ currentLevel' = input /\ isChanged' = FALSE
        /\ lastChangeTime' = lastChangeTime /\ age' = 0
    BY <1>2, <1>4 DEF Accept
  <2>2. isChanged' \in BOOLEAN /\ ~isChanged'
    BY <2>1, Zenon
  <2> QED BY <1>1, <1>2, <2>1, <2>2
          DEF Inv, TypeOK, StampTellsAge, StampFresh
<1>5. CASE Hold(input, now)
  <2>1. /\ currentLevel' = currentLevel /\ isChanged' = isChanged
        /\ lastChangeTime' = lastChangeTime /\ isChanged
        /\ input # currentLevel
        /\ Elapsed(now, lastChangeTime) <= DebounceTime
    BY <1>5 DEF Hold, stateVars
  <2>2. seen # currentLevel
    BY <2>1 DEF Inv, StampTellsAge
  <2>3. age' = age + e
    BY <1>1, <1>2, <2>1, <2>2, PendingAge DEF RunAge
  <2>4. /\ Elapsed(clock, lastChangeTime) \in Nat
        /\ Elapsed(now, lastChangeTime) = Elapsed(clock, lastChangeTime) + d
        /\ Elapsed(clock', lastChangeTime) = Elapsed(clock, lastChangeTime) + e
    BY <1>1, <1>2, <2>1, PendingElapsed, Constants
  <2>5. TypeOK'
    BY <1>1, <1>2, <2>1, <2>3 DEF Inv, TypeOK
  <2>6. StampTellsAge'
    <3>1. age - Elapsed(clock, lastChangeTime) \in 0 .. MaxSkew
      BY <2>1 DEF Inv, StampTellsAge
    <3>2. age' - Elapsed(clock', lastChangeTime') \in 0 .. MaxSkew
      BY <1>1, <2>1, <2>3, <2>4, <3>1 DEF Inv, TypeOK
    <3>3. isChanged' /\ seen' # currentLevel'
      BY <1>2, <2>1
    <3> QED BY <3>2, <3>3 DEF StampTellsAge
  <2>7. StampFresh'
    <3>1. Elapsed(clock', lastChangeTime') <= DebounceTime + gap'
      BY <1>1, <1>2, <2>1, <2>4, Constants
    <3> QED BY <3>1 DEF StampFresh
  <2> QED BY <2>5, <2>6, <2>7 DEF Inv
<1>6. CASE Start(input, now)
  <2>1. /\ currentLevel' = currentLevel /\ isChanged' = TRUE
        /\ lastChangeTime' = now /\ ~isChanged
        /\ input # currentLevel
    BY <1>6 DEF Start
  <2>2. ~(seen # currentLevel)
    BY <2>1 DEF Inv, StampTellsAge
  <2>3. age' = e
    <3>1. age' = Aged(0 + e)
      BY <1>2, <2>1, <2>2 DEF RunAge
    <3>2. 0 + e = e
      BY <1>1
    <3> QED BY <3>1, <3>2, CallAge
  <2>4. Elapsed(clock', lastChangeTime') = e - d
    BY <1>1, <1>2, <2>1
  <2> QED BY <1>1, <1>2, <2>1, <2>3, <2>4, Constants
          DEF Inv, TypeOK, StampTellsAge, StampFresh
<1> QED BY <1>3, <1>4, <1>5, <1>6 DEF Get, Update

\* runSetup keeps the invariant: it accepts the sampled level at once.
LEMMA SetupInv ==
  ASSUME Inv, NEW input \in BOOLEAN, NEW e \in 0 .. MaxSkew, NEW d \in 0 .. e,
         Setup(input, d, e)
  PROVE  Inv'
<1>1. /\ currentLevel' = input /\ isChanged' = FALSE /\ seen' = input
      /\ lastChangeTime' = Advance(clock, d) /\ clock' = Advance(clock, e)
      /\ gap' = e - d /\ age' = 0
  BY DEF Setup, SetupState, Duration
<1>2. isChanged' \in BOOLEAN /\ ~isChanged'
  BY <1>1, Zenon
<1> QED BY <1>1, <1>2, CallTimes DEF Inv, TypeOK, StampTellsAge, StampFresh

\* A tick of the clock ages the run and the stamp alike.
LEMMA TickInv == ASSUME Inv, Tick PROVE Inv'
<1>1. /\ gap < MaxGap /\ clock' = Advance(clock, 1) /\ gap' = gap + 1
      /\ age' = IF seen # currentLevel THEN Aged(age + 1) ELSE age
      /\ currentLevel' = currentLevel /\ isChanged' = isChanged
      /\ lastChangeTime' = lastChangeTime /\ seen' = seen
  BY DEF Tick
<1>2. TypeOK'
  <2>1. clock' \in Ticks
    BY <1>1, Constants DEF Inv, TypeOK, Ticks, Advance
  <2>2. age' \in Nat
    BY <1>1, Constants DEF Inv, TypeOK, Aged, MaxAge
  <2> QED BY <1>1, <2>1, <2>2, Constants DEF Inv, TypeOK
<1>3. CASE ~isChanged
  BY <1>1, <1>2, <1>3 DEF Inv, StampTellsAge, StampFresh
<1>4. CASE isChanged
  <2>1. /\ Elapsed(clock, lastChangeTime) <= DebounceTime + gap
        /\ seen # currentLevel
        /\ age - Elapsed(clock, lastChangeTime) \in 0 .. MaxSkew
    BY <1>4 DEF Inv, StampTellsAge, StampFresh
  <2>2. Elapsed(clock, lastChangeTime) \in Int
    BY Constants DEF Inv, TypeOK, Elapsed, Ticks
  <2>3. Elapsed(clock, lastChangeTime) + 1 < Wrap
    BY <1>1, <2>1, <2>2, Constants DEF Inv, TypeOK
  <2>4. Elapsed(clock', lastChangeTime') = Elapsed(clock, lastChangeTime) + 1
    BY <1>1, <2>3, ElapsedGrows DEF Inv, TypeOK
  <2>5. age' = age + 1
    <3>1. gap + 1 <= MaxGap
      BY <1>1, Constants DEF Inv, TypeOK
    <3> QED BY <1>1, <1>4, <2>1, <3>1, PendingAge
  <2>6. age' - Elapsed(clock', lastChangeTime') \in 0 .. MaxSkew
    BY <2>1, <2>2, <2>4, <2>5, Constants DEF Inv, TypeOK
  <2>7. Elapsed(clock', lastChangeTime') <= DebounceTime + gap'
    BY <1>1, <2>1, <2>2, <2>4, Constants DEF Inv, TypeOK
  <2>8. isChanged' /\ seen' # currentLevel'
    BY <1>1, <1>4, <2>1
  <2> QED BY <1>2, <2>6, <2>7, <2>8 DEF Inv, StampTellsAge, StampFresh
<1> QED BY <1>3, <1>4

\* Every step keeps the invariant.
LEMMA NextInv == Inv /\ [Next]_vars => Inv'
<1> SUFFICES ASSUME Inv, [Next]_vars PROVE Inv'
  OBVIOUS
<1>1. CASE Tick
  BY <1>1, TickInv
<1>2. CASE AnyGet
  BY <1>2, GetInv DEF AnyGet
<1>3. CASE AnySetup
  BY <1>3, SetupInv DEF AnySetup
<1>4. CASE UNCHANGED vars
  BY <1>4 DEF vars, Inv, TypeOK, StampTellsAge, StampFresh
<1> QED BY <1>1, <1>2, <1>3, <1>4 DEF Next

(***************************************************************************)
(* The types, and the agreement of isChanged and lastChangeTime with the   *)
(* samples they stand for (DebounceState::debounce, runSetup).             *)
(***************************************************************************)
THEOREM DebounceInvariant == Spec => []Inv
<1>1. Init => Inv
  BY InitInv
<1>2. Inv /\ [Next]_vars => Inv'
  BY NextInv
<1> QED BY <1>1, <1>2, PTL DEF Spec

(***************************************************************************)
(* No transition outlasts the interval without being accepted by the next  *)
(* call, for any clock width: the unsigned difference is always read in    *)
(* time (DebounceState::debounce).                                         *)
(***************************************************************************)
THEOREM DebounceOverlooksNothing == Spec => []NothingOverlooked
<1>1. Inv => NothingOverlooked
  <2> SUFFICES ASSUME Inv PROVE NothingOverlooked
    OBVIOUS
  <2>1. CASE ~isChanged
    BY <2>1, Constants DEF Inv, TypeOK, StampTellsAge, NothingOverlooked
  <2>2. CASE isChanged
    <3>1. /\ age - Elapsed(clock, lastChangeTime) \in 0 .. MaxSkew
          /\ Elapsed(clock, lastChangeTime) <= DebounceTime + gap
      BY <2>2 DEF Inv, StampTellsAge, StampFresh
    <3>2. Elapsed(clock, lastChangeTime) \in Int
      BY Constants DEF Inv, TypeOK, Elapsed, Ticks
    <3> QED BY <3>1, <3>2, Constants DEF Inv, TypeOK, NothingOverlooked
  <2> QED BY <2>1, <2>2
<1> QED BY <1>1, DebounceInvariant, PTL

\* A call of get that changes the level has seen it for long enough.
LEMMA GetAcceptsStable ==
  ASSUME Inv, NEW input \in BOOLEAN, NEW e \in 0 .. MaxSkew, NEW d \in 0 .. e,
         Get(input, d, e), currentLevel' # currentLevel
  PROVE  seen = currentLevel' /\ age + MaxSkew > DebounceTime
<1>1. Accept(input, Advance(clock, d))
  BY DEF Get, Update, Cancel, Hold, Start, stateVars
<1>2. /\ isChanged /\ input # currentLevel /\ currentLevel' = input
      /\ Elapsed(Advance(clock, d), lastChangeTime) > DebounceTime
  BY <1>1 DEF Accept
<1>3. seen # currentLevel /\ age - Elapsed(clock, lastChangeTime) \in 0 .. MaxSkew
  BY <1>2 DEF Inv, StampTellsAge
<1>4. seen = currentLevel'
  BY <1>2, <1>3 DEF Inv, TypeOK
<1>5. d \in 0 .. MaxSkew
  BY Constants
<1>6. /\ Elapsed(clock, lastChangeTime) \in Nat
      /\ Elapsed(Advance(clock, d), lastChangeTime)
           = Elapsed(clock, lastChangeTime) + d
  BY <1>2, <1>5, PendingElapsed
<1>7. age + MaxSkew > DebounceTime
  BY <1>2, <1>3, <1>5, <1>6, Constants DEF Inv, TypeOK
<1> QED BY <1>4, <1>7

(***************************************************************************)
(* A different level is accepted only after all samples have shown it for  *)
(* more than the interval, less one call: a spike or a bounce, however it  *)
(* meets the polls and the clock, never changes the level                  *)
(* (DebounceState::debounce).                                              *)
(***************************************************************************)
THEOREM DebounceAcceptsOnlyStable == Spec => AcceptedOnlyStable
<1> DEFINE Stable == currentLevel' # currentLevel /\ ~AnySetup
                       => /\ seen = currentLevel'
                          /\ age + MaxSkew > DebounceTime
<1>1. Inv /\ [Next]_vars => [Stable]_vars
  <2> SUFFICES ASSUME Inv, Next, currentLevel' # currentLevel, ~AnySetup
               PROVE  seen = currentLevel' /\ age + MaxSkew > DebounceTime
    BY DEF vars
  <2>1. AnyGet
    BY DEF Next, Tick
  <2> QED BY <2>1, GetAcceptsStable DEF AnyGet
<1> QED BY <1>1, DebounceInvariant, PTL DEF Spec, AcceptedOnlyStable

=============================================================================
