------------------------ MODULE MCInterruptAllocator ------------------------
(***************************************************************************)
(* Instances of InterruptAllocator.                                        *)
(***************************************************************************)
EXTENDS InterruptAllocator

Asks(event, pwmRequired) == [event |-> event, pwmRequired |-> pwmRequired]

\* A candidate that PWM and period events can both use.
Offer(request, preference, timer, configuration) ==
  [request |-> request, preference |-> preference, timer |-> timer,
   configuration |-> configuration, source |-> 10 + timer, entry |-> timer,
   pwm |-> TRUE, periodEvent |-> TRUE,
   reserved |-> FALSE, named |-> TRUE, routed |-> TRUE]

(***************************************************************************)
(* Small: every list of three candidates out of ten kinds, so that ties,   *)
(* duplicates, invalid names, reservations, shared timers, sources and     *)
(* entries, and candidates for nobody meet in every order.                 *)
(***************************************************************************)
SmallRequests ==
  { <<Asks(2, FALSE), Asks(1, FALSE)>>,
    <<Asks(1, TRUE), Asks(2, FALSE)>>,
    <<Asks(1, FALSE), Asks(1, FALSE)>> }

SmallCandidates ==
  { Offer(1, 0, 1, 1),
    Offer(1, 1, 2, 2),
    [Offer(1, 0, 2, 3) EXCEPT !.pwm = FALSE],
    [Offer(1, 0, 1, 2) EXCEPT !.reserved = TRUE],
    [Offer(1, 2, 3, 2) EXCEPT !.routed = FALSE],
    Offer(2, 0, 1, 1),
    [Offer(2, 0, 2, 2) EXCEPT !.source = 11],
    [Offer(2, 1, 3, 3) EXCEPT !.entry = 1],
    [Offer(2, 0, 3, 4) EXCEPT !.periodEvent = FALSE, !.routed = FALSE],
    Offer(3, 0, 3, 1) }

SmallCandidateLists == [1 .. 3 -> SmallCandidates]

SmallDemands == {{}, {1}, {1, 2}}

SmallBudgets == {0, 2, 5}

=============================================================================
