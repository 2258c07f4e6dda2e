-------------------------- MODULE TimePollerProofs --------------------------
(***************************************************************************)
(* Proofs about TimePoller for every clock width, sequence and gap: the    *)
(* inductive invariant Inv (types, and the bound on the backlog), and the  *)
(* refinement of IdealPoller, which needs that bound to exclude a wrap of  *)
(* the tick difference.                                                    *)
(***************************************************************************)
EXTENDS TimePoller, TLAPS

-----------------------------------------------------------------------------
(* The constants, in the form the steps need. *)

\* What the assumptions say of the numbers.
LEMMA Constants ==
  /\ Wrap \in Nat /\ MaxPeriod \in Nat /\ MaxGap \in Nat /\ StateLimit \in Nat
  /\ Count \in Nat /\ Count > 0 /\ Count < StateLimit
  /\ MaxPeriod + MaxGap < Wrap
BY WrapAssumption, PeriodsAssumption, StateLimitAssumption, GapAssumption
   DEF Count

\* Each period is positive and no shorter than the longest gap between polls.
LEMMA PeriodBounds ==
  \A i \in 1 .. Count : Periods[i] \in 1 .. MaxPeriod /\ MaxGap <= Periods[i]
BY PeriodsAssumption, GapAssumption DEF Count

\* Sequence::get answers the period of the interval the state selects.
LEMMA PeriodAtIndex ==
  ASSUME NEW s \in 0 .. (Count - 1)
  PROVE  /\ PeriodAt(s) = Periods[s + 1]
         /\ PeriodAt(s) \in 1 .. MaxPeriod
         /\ MaxGap <= PeriodAt(s)
<1>1. s + 1 \in 1 .. Count
  BY Constants
<1>2. PeriodAt(s) = Periods[s + 1]
  BY Constants, s = Count - 1 \/ s < Count - 1 DEF PeriodAt
<1> QED BY <1>1, <1>2, PeriodBounds

(* The arithmetic of the wrapping clock. *)

\* A difference of two tick values is a tick value.
LEMMA ElapsedType ==
  ASSUME NEW to \in Ticks, NEW base \in Ticks
  PROVE  Elapsed(to, base) \in Ticks
BY WrapAssumption DEF Ticks, Elapsed

\* One tick later, the unsigned difference has grown by one unless it wraps.
LEMMA TickElapsed ==
  ASSUME NEW to \in Ticks, NEW base \in Ticks, Elapsed(to, base) + 1 < Wrap
  PROVE  /\ Advance(to, 1) \in Ticks
         /\ Elapsed(Advance(to, 1), base) = Elapsed(to, base) + 1
BY WrapAssumption DEF Ticks, Elapsed, Advance

\* Moving the origin forward by a period that has elapsed leaves the excess.
LEMMA AdvanceOrigin ==
  ASSUME NEW to \in Ticks, NEW base \in Ticks, NEW period \in Nat,
         Elapsed(to, base) >= period
  PROVE  /\ Advance(base, period) \in Ticks
         /\ Elapsed(to, Advance(base, period)) = Elapsed(to, base) - period
BY WrapAssumption DEF Ticks, Elapsed, Advance

\* An origin set back by some ticks is exactly that far in the past.
LEMMA BackOrigin ==
  ASSUME NEW to \in Ticks, NEW back \in Ticks
  PROVE  /\ Elapsed(to, back) \in Ticks
         /\ Elapsed(to, Elapsed(to, back)) = back
BY WrapAssumption DEF Ticks, Elapsed

\* An origin set to the current time leaves nothing elapsed.
LEMMA NowOrigin ==
  ASSUME NEW to \in Ticks
  PROVE  Elapsed(to, to) = 0
BY WrapAssumption DEF Ticks, Elapsed

-----------------------------------------------------------------------------
(* The inductive invariant. *)

\* While the sequence is unfinished the next state is the one the ideal
\* poller moves to: the counter never reaches the width of its type.
LEMMA NextStateFollows ==
  ASSUME TypeOK, ~HasFinished
  PROVE  /\ state \in 0 .. (Count - 1)
         /\ NextState(state) = Ideal!Following(state)
         /\ NextState(state) \in 0 .. (IF cyclic THEN Count - 1 ELSE Count)
BY Constants DEF TypeOK, HasFinished, NextState, Ideal!Following, Count

\* The poller stays of its kind, so that the range of its state stays.
LEMMA TypeKept ==
  ASSUME TypeOK, cyclic' = cyclic,
         clock' \in Ticks, from' \in Ticks,
         state' \in 0 .. (IF cyclic THEN Count - 1 ELSE Count),
         result' \in BOOLEAN, polled' \in {0, 1}, gap' \in 0 .. MaxGap
  PROVE  TypeOK'
BY Zenon DEF TypeOK, Count

\* A cyclic poller never counts as finished.
LEMMA CyclicNeverFinished ==
  ASSUME TypeOK, cyclic
  PROVE  ~HasFinished
BY Constants DEF TypeOK, HasFinished

\* Polling an unfinished sequence either ends an interval, with the excess
\* carried over, or changes nothing but the answer.
LEMMA PollTimerEffect ==
  ASSUME Inv, ~HasFinished, PollTimer(PeriodAt(state)), clock' = clock
  PROVE  \/ /\ Elapsed(clock, from) > Periods[state + 1]
            /\ from' \in Ticks
            /\ Elapsed(clock, from') = Elapsed(clock, from) - Periods[state + 1]
            /\ state' = Ideal!Following(state)
            /\ state' \in 0 .. (IF cyclic THEN Count - 1 ELSE Count)
            /\ result' = TRUE
            /\ Periods[state + 1] >= MaxGap
            /\ Periods[state + 1] \in Nat
         \/ /\ Elapsed(clock, from) <= Periods[state + 1]
            /\ Elapsed(clock, from) <= MaxPeriod
            /\ from' = from /\ state' = state /\ result' = FALSE
<1>1. /\ state \in 0 .. (Count - 1)
      /\ NextState(state) = Ideal!Following(state)
      /\ NextState(state) \in 0 .. (IF cyclic THEN Count - 1 ELSE Count)
  BY NextStateFollows DEF Inv
<1>2. /\ PeriodAt(state) = Periods[state + 1]
      /\ PeriodAt(state) \in 1 .. MaxPeriod
      /\ MaxGap <= PeriodAt(state)
  BY <1>1, PeriodAtIndex
<1>3. Elapsed(clock, from) \in Ticks
  BY ElapsedType DEF Inv, TypeOK
<1>4. CASE Expire(PeriodAt(state))
  <2>1. /\ Advance(from, PeriodAt(state)) \in Ticks
        /\ Elapsed(clock, Advance(from, PeriodAt(state)))
             = Elapsed(clock, from) - PeriodAt(state)
    BY <1>2, <1>3, <1>4, AdvanceOrigin, Constants
       DEF Inv, TypeOK, Expire, Expired, Ticks
  <2> QED BY <1>1, <1>2, <1>4, <2>1, Constants DEF Expire, Expired
<1>5. CASE Wait(PeriodAt(state))
  BY <1>2, <1>3, <1>5, Constants DEF Wait, Expired, Ticks
<1> QED BY <1>4, <1>5 DEF PollTimer

\* The initial states have the types of the code and no backlog.
LEMMA InitInv == Init => Inv
<1> SUFFICES ASSUME Init PROVE Inv
  OBVIOUS
<1>1. TypeOK
  <2>1. 0 \in 0 .. (IF cyclic THEN Count - 1 ELSE Count) /\ 0 \in 0 .. MaxGap
    BY Constants
  <2> QED BY <2>1 DEF Init, TypeOK
<1>2. Elapsed(clock, from) = 0
  BY NowOrigin DEF Init
<1> QED BY <1>1, <1>2, Constants DEF Init, Inv, BacklogBounded

\* Every operation keeps the types and the bound on the backlog: a poll that
\* ends an interval takes off at least one gap, which is all that the ticks
\* since the previous poll can have added.
LEMMA NextInv == Inv /\ [Next]_vars => Inv'
<1> SUFFICES ASSUME Inv, [Next]_vars PROVE Inv'
  OBVIOUS
<1> USE DEF Inv, TypeOK
<1>0. Elapsed(clock, from) \in Ticks
  BY ElapsedType
<1>1. CASE Tick
  <2>1. TypeOK'
    BY <1>1, Constants DEF Tick, Ticks, Advance
  <2>2. BacklogBounded'
    <3>1. CASE HasFinished
      BY <1>1, <3>1 DEF Tick, BacklogBounded, HasFinished
    <3>2. CASE ~HasFinished
      <4>1. Elapsed(clock, from) <= MaxPeriod + gap
        BY <3>2 DEF BacklogBounded
      <4>2. Elapsed(clock', from') = Elapsed(clock, from) + 1
        BY <1>0, <1>1, <4>1, TickElapsed, Constants DEF Tick, Ticks
      <4>3. Elapsed(clock', from') <= MaxPeriod + gap'
        BY <1>0, <1>1, <4>1, <4>2, Constants DEF Tick, Ticks
      <4> QED BY <4>3 DEF BacklogBounded
    <3> QED BY <3>1, <3>2
  <2> QED BY <2>1, <2>2
<1>2. ASSUME ~HasFinished, PollTimer(PeriodAt(state)), Called
      PROVE  Inv'
  <2>1. cyclic' = cyclic /\ clock' = clock /\ polled' = 1 - polled /\ gap' = 0
    BY <1>2 DEF Called
  <2>2. CASE /\ from' \in Ticks
             /\ Elapsed(clock, from') = Elapsed(clock, from) - Periods[state + 1]
             /\ state' \in 0 .. (IF cyclic THEN Count - 1 ELSE Count)
             /\ result' = TRUE
             /\ Periods[state + 1] >= MaxGap
             /\ Periods[state + 1] \in Nat
    <3>1. /\ clock' \in Ticks /\ polled' \in {0, 1} /\ gap' \in 0 .. MaxGap
      BY <2>1, Constants
    <3>2. result' \in BOOLEAN
      BY <2>2, Zenon
    <3>3. TypeOK'
      BY <2>1, <2>2, <3>1, <3>2, TypeKept
    <3>4. Elapsed(clock, from) <= MaxPeriod + gap
      BY <1>2 DEF BacklogBounded
    <3>5. Elapsed(clock', from') <= MaxPeriod + gap'
      BY <1>0, <2>1, <2>2, <3>4, Constants DEF Ticks
    <3> QED BY <3>3, <3>5 DEF BacklogBounded
  <2>3. CASE /\ Elapsed(clock, from) <= MaxPeriod
             /\ from' = from /\ state' = state /\ result' = FALSE
    <3>1. result' \in BOOLEAN
      BY <2>3, Zenon
    <3>2. TypeOK'
      <4>1. clock' \in Ticks /\ from' \in Ticks /\ polled' \in {0, 1}
            /\ gap' \in 0 .. MaxGap
        BY <2>1, <2>3, Constants
      <4>2. state' \in 0 .. (IF cyclic THEN Count - 1 ELSE Count)
        BY <2>3
      <4> QED BY <2>1, <3>1, <4>1, <4>2, TypeKept
    <3>3. Elapsed(clock', from') <= MaxPeriod + gap'
      BY <2>1, <2>3, Constants
    <3> QED BY <3>2, <3>3 DEF BacklogBounded
  <2> QED BY <1>2, <2>1, <2>2, <2>3, PollTimerEffect
<1>3. CASE CyclicPoll
  BY <1>2, <1>3, CyclicNeverFinished DEF CyclicPoll
<1>4. CASE FinitePoll
  <2>1. CASE ~HasFinished
    BY <1>2, <1>4, <2>1 DEF FinitePoll
  <2>2. CASE HasFinished
    <3>1. /\ result' = FALSE /\ from' = from /\ state' = state
          /\ cyclic' = cyclic /\ clock' = clock
          /\ polled' = 1 - polled /\ gap' = 0
      BY <1>4, <2>2 DEF FinitePoll, Called
    <3>2. result' \in BOOLEAN
      BY <3>1, Zenon
    <3>3. TypeOK'
      <4>1. clock' \in Ticks /\ from' \in Ticks /\ polled' \in {0, 1}
            /\ gap' \in 0 .. MaxGap
        BY <3>1, Constants
      <4>2. state' \in 0 .. (IF cyclic THEN Count - 1 ELSE Count)
        BY <3>1
      <4> QED BY <3>1, <3>2, <4>1, <4>2, TypeKept
    <3>4. BacklogBounded'
      BY <2>2, <3>1 DEF BacklogBounded, HasFinished
    <3> QED BY <3>3, <3>4
  <2> QED BY <2>1, <2>2
<1>5. CASE SetFrom
  <2> PICK back \in 0 .. MaxPeriod : from' = Elapsed(clock, back)
    BY <1>5 DEF SetFrom
  <2>1. from' \in Ticks /\ Elapsed(clock, from') = back
    BY BackOrigin, Constants DEF Ticks
  <2> QED BY <1>5, <2>1, Constants DEF SetFrom, BacklogBounded
<1>6. CASE InitOrigin
  BY <1>6, NowOrigin, Constants DEF InitOrigin, BacklogBounded
<1>7. CASE Reset
  BY <1>7, NowOrigin, Constants DEF Reset, BacklogBounded
<1>8. CASE UNCHANGED vars
  BY <1>8 DEF vars, BacklogBounded, HasFinished
<1> QED BY <1>1, <1>3, <1>4, <1>5, <1>6, <1>7, <1>8 DEF Next, Restart

(***************************************************************************)
(* Polled at least once per shortest period, a poller of any sequence on a *)
(* clock of any width keeps its types and never owes more than the longest *)
(* period plus the current gap (TimePoller::poll).                         *)
(***************************************************************************)
THEOREM PollerInvariant == Spec => []Inv
<1>1. Init => Inv
  BY InitInv
<1>2. Inv /\ [Next]_vars => Inv'
  BY NextInv
<1> QED BY <1>1, <1>2, PTL DEF Spec

-----------------------------------------------------------------------------
(* The refinement of IdealPoller. *)

\* An unfinished poll is an ideal poll that ends the interval or waits.
LEMMA PollImplements ==
  ASSUME Inv, ~HasFinished, PollTimer(PeriodAt(state)), Called
  PROVE  Ideal!PollEnds \/ Ideal!PollWaits
<1>1. cyclic' = cyclic /\ clock' = clock /\ polled' = 1 - polled
  BY DEF Called
<1>2. Ideal!Finished = FALSE
  BY Constants DEF Inv, TypeOK, Ideal!Finished, HasFinished, Count
<1>3. CASE /\ Elapsed(clock, from) > Periods[state + 1]
           /\ Elapsed(clock, from') = Elapsed(clock, from) - Periods[state + 1]
           /\ state' = Ideal!Following(state)
           /\ state' \in 0 .. (IF cyclic THEN Count - 1 ELSE Count)
           /\ result' = TRUE
  <2>1. Ideal!Finished' <=> HasFinished'
    BY <1>3, Constants DEF Ideal!Finished, HasFinished, Count
  <2> QED BY <1>1, <1>2, <1>3, <2>1 DEF Ideal!PollEnds, HasFinished
<1>4. CASE /\ Elapsed(clock, from) <= Periods[state + 1]
           /\ from' = from /\ state' = state /\ result' = FALSE
  BY <1>1, <1>4 DEF Ideal!PollWaits, HasFinished
<1> QED BY <1>1, <1>3, <1>4, PollTimerEffect

\* Every step of the wrapping poller is a step of the ideal one or a stutter.
LEMMA StepImplements ==
  Inv /\ Inv' /\ [Next]_vars => [Ideal!Next]_(Ideal!idealVars)
<1> SUFFICES ASSUME Inv, Inv', [Next]_vars
             PROVE  Ideal!Next \/ UNCHANGED Ideal!idealVars
  OBVIOUS
<1> USE DEF Inv, TypeOK
<1>0. Elapsed(clock, from) \in Ticks
  BY ElapsedType
<1>1. Ideal!Finished <=> HasFinished
  BY Constants DEF Ideal!Finished, HasFinished, Count
<1>2. CASE Tick
  <2>1. CASE HasFinished
    BY <1>2, <2>1 DEF Tick, Ideal!idealVars, HasFinished
  <2>2. CASE ~HasFinished
    <3>1. Elapsed(clock, from) <= MaxPeriod + gap
      BY <2>2 DEF BacklogBounded
    <3>2. Elapsed(clock', from') = Elapsed(clock, from) + 1
      BY <1>0, <1>2, <3>1, TickElapsed, Constants DEF Tick, Ticks
    <3>3. Ideal!Tick
      BY <1>1, <1>2, <2>2, <3>2 DEF Tick, Ideal!Tick, HasFinished
    <3> QED BY <3>3 DEF Ideal!Next
  <2> QED BY <2>1, <2>2
<1>3. CASE CyclicPoll
  BY <1>3, CyclicNeverFinished, PollImplements DEF CyclicPoll, Ideal!Next
<1>4. CASE FinitePoll
  <2>1. CASE ~HasFinished
    BY <1>4, <2>1, PollImplements DEF FinitePoll, Ideal!Next
  <2>2. CASE HasFinished
    <3>1. Ideal!PollWaits
      BY <1>1, <1>4, <2>2 DEF FinitePoll, Called, HasFinished, Ideal!PollWaits
    <3> QED BY <3>1 DEF Ideal!Next
  <2> QED BY <2>1, <2>2
<1>5. ASSUME NEW back \in 0 .. MaxPeriod, from' = Elapsed(clock, back),
             UNCHANGED <<cyclic, clock, state, result, polled>>
      PROVE  Ideal!Next \/ UNCHANGED Ideal!idealVars
  <2>1. Elapsed(clock, from') = back
    BY <1>5, BackOrigin, Constants DEF Ticks
  <2>2. CASE HasFinished
    BY <1>5, <2>2 DEF Ideal!idealVars, HasFinished
  <2>3. CASE ~HasFinished
    BY <1>1, <1>5, <2>1, <2>3 DEF Ideal!MoveOrigin, Ideal!Next, HasFinished
  <2> QED BY <2>2, <2>3
<1>6. CASE SetFrom
  BY <1>5, <1>6 DEF SetFrom
<1>7. CASE InitOrigin
  <2>1. 0 \in 0 .. MaxPeriod /\ from' = Elapsed(clock, 0)
    BY <1>7, Constants DEF InitOrigin, Elapsed, Ticks
  <2> QED BY <1>5, <1>7, <2>1 DEF InitOrigin
<1>8. CASE Reset
  <2>1. Elapsed(clock', from') = 0 /\ ~HasFinished'
    BY <1>8, NowOrigin, Constants DEF Reset, HasFinished
  <2>2. Ideal!Reset
    BY <1>8, <2>1 DEF Reset, Ideal!Reset
  <2> QED BY <2>2 DEF Ideal!Next
<1>9. CASE UNCHANGED vars
  BY <1>9 DEF vars, Ideal!idealVars, HasFinished
<1> QED BY <1>2, <1>3, <1>4, <1>6, <1>7, <1>8, <1>9 DEF Next, Restart

(***************************************************************************)
(* For every clock width and every sequence, the wrapping poller           *)
(* implements the ideal one, which has no wrap, no drift and no missed     *)
(* interval (TimePoller::poll, setFrom, reset and both sequence pollers).  *)
(***************************************************************************)
THEOREM PollerImplementsIdeal == Spec => ImplementsIdeal
<1>1. Init => Ideal!Init
  BY NowOrigin, Constants DEF Init, Ideal!Init, HasFinished
<1>2. Inv /\ Inv' /\ [Next]_vars => [Ideal!Next]_(Ideal!idealVars)
  BY StepImplements
<1> QED BY <1>1, <1>2, PollerInvariant, PTL
        DEF Spec, ImplementsIdeal, Ideal!Spec

=============================================================================
