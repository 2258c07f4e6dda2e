----------------------- MODULE MCInterruptValidation -----------------------
(***************************************************************************)
(* Three requests with two candidates each, on any of three timers, with   *)
(* one pair that shares a source, so that the search backtracks over more  *)
(* than one row; what comes later is one of these problems in either       *)
(* order, with one candidate changed, or with an event that is not in the  *)
(* catalog.  To solve AtDefault takes as many candidates as DefaultBudget  *)
(* allows, and PastDefault one more.                                       *)
(***************************************************************************)
EXTENDS InterruptValidation

MCCatalog == <<1, 2, 3>>

Asks(event, pwmRequired) == [event |-> event, pwmRequired |-> pwmRequired]

\* A candidate that PWM and period events can both use.
Offer(request, preference, timer, configuration) ==
  [request |-> request, preference |-> preference, timer |-> timer,
   configuration |-> configuration, source |-> 10 + timer, entry |-> timer,
   pwm |-> TRUE, periodEvent |-> TRUE,
   reserved |-> FALSE, named |-> TRUE, routed |-> TRUE]

MCRequests == {<<Asks(3, FALSE), Asks(1, FALSE), Asks(2, FALSE)>>}

OnTimers(t) ==
  << Offer(3, 1, t[1], 2),
     Offer(1, 0, t[2], 1),
     Offer(2, 0, t[3], 1),
     [Offer(2, 1, t[4], 2) EXCEPT !.source = 20],
     [Offer(1, 1, t[5], 2) EXCEPT !.source = 20],
     Offer(3, 0, t[6], 1) >>

MCCandidateLists == {OnTimers(t) : t \in [1 .. 6 -> 1 .. 3]}

MCDemands == {{}, {1, 2, 3}}

Base == OnTimers(<<1, 1, 2, 3, 2, 3>>)

AtDefault == OnTimers(<<1, 1, 2, 1, 3, 2>>)

PastDefault == OnTimers(<<1, 1, 2, 2, 3, 1>>)

Changed ==
  { Base, AtDefault, PastDefault,
    [Base EXCEPT ![2].reserved = TRUE],
    [Base EXCEPT ![2].preference = 2],
    [Base EXCEPT ![3].timer = 1],
    [Base EXCEPT ![3].configuration = 3],
    [Base EXCEPT ![2].configuration = 2],
    [Base EXCEPT ![6].source = 11] }

MCLater ==
  [requests : {<<Asks(3, FALSE), Asks(1, FALSE), Asks(2, FALSE)>>,
               <<Asks(1, FALSE), Asks(2, FALSE), Asks(3, FALSE)>>,
               <<Asks(1, FALSE), Asks(2, FALSE), Asks(4, FALSE)>>},
   candidates : Changed \cup {[i \in 1 .. 6 |-> list[7 - i]] : list \in Changed},
   demands : {{}, {1}, {1, 2, 3}}]

=============================================================================
