---------------------------- MODULE IdealPoller -----------------------------
(***************************************************************************)
(* What a sequence poller promises, told without a wrapping clock: elapsed *)
(* is the true number of ticks since the last interval ended.  An interval *)
(* ends only when strictly more than its period has elapsed, each call     *)
(* ends at most one, the excess is carried into the next interval (the     *)
(* schedule does not drift), and a call that finds an interval over always *)
(* ends it.  A finite sequence that has run to its end ignores time.       *)
(***************************************************************************)
EXTENDS Integers, Sequences

CONSTANTS
  Periods,     \* the periods of the sequence, in order
  MaxBack      \* the furthest an origin may be set back

VARIABLES
  cyclic,      \* TRUE: repeat for ever, FALSE: stop after the last period
  elapsed,     \* true ticks since the origin of the current interval
  state,       \* how many intervals have ended (modulo their number if cyclic)
  result,      \* what the last poll returned
  polled       \* flips at every poll, so that each call is a visible step

idealVars == <<cyclic, elapsed, state, result, polled>>

Finished == state = Len(Periods)

Following(s) == IF cyclic /\ s + 1 = Len(Periods) THEN 0 ELSE s + 1

Init ==
  /\ cyclic \in BOOLEAN
  /\ elapsed = 0
  /\ state = 0
  /\ result = FALSE
  /\ polled = 0

Tick ==
  /\ ~Finished
  /\ elapsed' = elapsed + 1
  /\ UNCHANGED <<cyclic, state, result, polled>>

PollEnds ==
  /\ ~Finished
  /\ elapsed > Periods[state + 1]
  /\ state' = Following(state)
  /\ elapsed' = IF Finished' THEN 0 ELSE elapsed - Periods[state + 1]
  /\ result' = TRUE
  /\ polled' = 1 - polled
  /\ UNCHANGED cyclic

PollWaits ==
  /\ Finished \/ elapsed <= Periods[state + 1]
  /\ result' = FALSE
  /\ polled' = 1 - polled
  /\ UNCHANGED <<cyclic, elapsed, state>>

MoveOrigin ==
  /\ ~Finished
  /\ elapsed' \in 0 .. MaxBack
  /\ UNCHANGED <<cyclic, state, result, polled>>

Reset ==
  /\ elapsed' = 0
  /\ state' = 0
  /\ UNCHANGED <<cyclic, result, polled>>

Next == Tick \/ PollEnds \/ PollWaits \/ MoveOrigin \/ Reset

Spec == Init /\ [][Next]_idealVars

=============================================================================
