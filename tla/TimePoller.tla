----------------------------- MODULE TimePoller -----------------------------
(***************************************************************************)
(* TimePoller and the two pollers built on it, CyclicTimeSequencePoller    *)
(* and TimerSequencePoller (time_poller.hpp), driven by a wrapping clock.  *)
(* Both sequence pollers hold one TimePoller and poll it with the period   *)
(* their state selects; they differ in the type of the state (a CyclicInt  *)
(* or a plain unsigned) and in the end-of-sequence test.                   *)
(***************************************************************************)
EXTENDS Sequences, WrappingTime

CONSTANTS
  Periods,     \* Sequence<Tick, values...>
  StateLimit,  \* number of values of w_StateType, 2^width
  MaxPeriod,   \* an upper bound on the periods
  MaxGap       \* the most ticks between two calls of poll

ASSUME PeriodsAssumption ==
  /\ Periods \in Seq(1 .. MaxPeriod)
  /\ Len(Periods) > 0

(***************************************************************************)
(* A finite poller stops only if its state type can hold the count.        *)
(***************************************************************************)
ASSUME StateLimitAssumption ==
  /\ StateLimit \in Nat
  /\ Len(Periods) < StateLimit

(***************************************************************************)
(* The polling discipline the header asks for ("called in a tight loop"):  *)
(* polls are at least as frequent as the shortest period, and the longest  *)
(* period plus one gap stays below the width of the clock.                 *)
(***************************************************************************)
ASSUME GapAssumption ==
  /\ MaxPeriod \in Nat
  /\ MaxGap \in Nat
  /\ \A i \in 1 .. Len(Periods) : MaxGap <= Periods[i]
  /\ MaxPeriod + MaxGap < Wrap

VARIABLES
  cyclic,      \* TRUE: CyclicTimeSequencePoller, FALSE: TimerSequencePoller
  clock,       \* Clock::now()
  from,        \* TimePoller::from, the origin of the current interval
  state,       \* TimePoller::state
  result,      \* what the last poll returned
  polled,      \* history: flips at every call of poll
  gap          \* history: ticks since the last call of poll

vars == <<cyclic, clock, from, state, result, polled, gap>>

-----------------------------------------------------------------------------
Count == Len(Periods)

\* Sequence::get, which answers the last period for every index past the end.
PeriodAt(index) ==
  IF index < Count - 1 THEN Periods[index + 1] ELSE Periods[Count]

\* As NextState, starting again at the count whatever the type of the state.
NextStateLazyWrap(s) == IF s + 1 = Count THEN 0 ELSE s + 1

\* As NextState, staying at the last value instead of wrapping.
NextStateSticky(s) ==
  IF s + 1 = (IF cyclic THEN Count ELSE StateLimit) THEN s ELSE s + 1

\* ++state: CyclicInt wraps at the count, an unsigned at its width.
NextState(s) ==
  IF s + 1 = (IF cyclic THEN Count ELSE StateLimit) THEN 0 ELSE s + 1

\* TimerSequencePoller::hasFinished; a CyclicInt never reaches the count.
HasFinished == Count <= state

Init ==
  /\ cyclic \in BOOLEAN
  /\ cyclic => Count > 1
  /\ clock \in Ticks
  /\ from = clock
  /\ state = 0
  /\ result = FALSE
  /\ polled = 0
  /\ gap = 0

(***************************************************************************)
(* TimePoller::poll(period): one comparison, at most one interval ended.   *)
(***************************************************************************)
Expired(period) == Elapsed(clock, from) > period

\* As Expire, with the next interval starting now: the excess is lost.
ExpireFromNow(period) ==
  /\ Expired(period)
  /\ from' = clock
  /\ state' = NextState(state)
  /\ result' = TRUE

\* As Expire, without the wraparound of "from += period".
ExpireUnwrapped(period) ==
  /\ Expired(period)
  /\ from' = IF from + period < Wrap THEN from + period ELSE 0
  /\ state' = NextState(state)
  /\ result' = TRUE

\* The interval is over: the next one starts where it ended.
Expire(period) ==
  /\ Expired(period)
  /\ from' = Advance(from, period)
  /\ state' = NextState(state)
  /\ result' = TRUE

Wait(period) ==
  /\ ~Expired(period)
  /\ result' = FALSE
  /\ UNCHANGED <<from, state>>

PollTimer(period) == Expire(period) \/ Wait(period)

Called ==
  /\ polled' = 1 - polled
  /\ gap' = 0
  /\ UNCHANGED <<cyclic, clock>>

\* CyclicTimeSequencePoller::poll
CyclicPoll ==
  /\ cyclic
  /\ PollTimer(PeriodAt(state))
  /\ Called

\* TimerSequencePoller::poll, which returns early at the end of the sequence.
FinitePoll ==
  /\ ~cyclic
  /\ \/ /\ HasFinished
        /\ result' = FALSE
        /\ UNCHANGED <<from, state>>
     \/ /\ ~HasFinished
        /\ PollTimer(PeriodAt(state))
  /\ Called

\* TimePoller::setFrom with a time at most MaxPeriod ticks in the past.
SetFrom ==
  /\ \E back \in 0 .. MaxPeriod : from' = Elapsed(clock, back)
  /\ UNCHANGED <<cyclic, clock, state, result, polled, gap>>

\* init(): setNow() on the poller, the state is kept.
InitOrigin ==
  /\ from' = clock
  /\ UNCHANGED <<cyclic, clock, state, result, polled, gap>>

\* reset(): setNow(), and the state starts again.
Reset ==
  /\ from' = clock
  /\ state' = 0
  /\ UNCHANGED <<cyclic, clock, result, polled, gap>>

\* The hardware clock, under the polling discipline.
Tick ==
  /\ gap < MaxGap
  /\ clock' = Advance(clock, 1)
  /\ gap' = gap + 1
  /\ UNCHANGED <<cyclic, from, state, result, polled>>

Restart == SetFrom \/ InitOrigin \/ Reset

Next == Tick \/ CyclicPoll \/ FinitePoll \/ Restart

Spec == Init /\ [][Next]_vars

-----------------------------------------------------------------------------
TypeOK ==
  /\ cyclic \in BOOLEAN
  /\ clock \in Ticks
  /\ from \in Ticks
  /\ state \in 0 .. (IF cyclic THEN Count - 1 ELSE Count)
  /\ result \in BOOLEAN
  /\ polled \in {0, 1}
  /\ gap \in 0 .. MaxGap

(***************************************************************************)
(* A poller that catches up one interval per call never falls so far       *)
(* behind that the clock width hides an interval: the backlog of an        *)
(* unfinished poller is at most the longest period plus the current gap.   *)
(***************************************************************************)
BacklogBounded ==
  ~HasFinished => Elapsed(clock, from) <= MaxPeriod + gap

Inv == TypeOK /\ BacklogBounded

(***************************************************************************)
(* The wrapping clock cannot be told from an unbounded one: every step is  *)
(* a step of IdealPoller when elapsed is read as the unsigned difference   *)
(* (poll's comparison, its "from += period" and the wraparound tests).     *)
(***************************************************************************)
Ideal == INSTANCE IdealPoller WITH
  elapsed <- IF HasFinished THEN 0 ELSE Elapsed(clock, from),
  MaxBack <- MaxPeriod

ImplementsIdeal == Ideal!Spec

(***************************************************************************)
(* Unless something keeps restarting it, a finite sequence ends and stays  *)
(* ended, whatever the polling pattern and wherever the clock wraps.       *)
(***************************************************************************)
FiniteSequenceEnds ==
  ~cyclic /\ <>[][~Restart]_vars => <>[]HasFinished

(***************************************************************************)
(* Unless something keeps restarting it, a cyclic sequence comes back to   *)
(* every one of its intervals for ever: no backlog starves a later one.    *)
(***************************************************************************)
CycleGoesOn ==
  cyclic /\ <>[][~Restart]_vars => \A s \in 0 .. Count - 1 : []<>(state = s)

=============================================================================
