-------------------------- MODULE MCOwnerAllocator --------------------------
(***************************************************************************)
(* The problems OwnerAllocator is checked on, after the cases of           *)
(* tests/timer_owner_static_tests.cpp: a clock (owner 1) with one period   *)
(* event, a drive (owner 2) with a PWM output and a period event, a lamp   *)
(* (owner 3) with a PWM output.                                            *)
(***************************************************************************)
EXTENDS OwnerAllocator

Use(n, k) == [kind |-> k, name |-> n]
Option == [kind |-> "option"]

Tick == Use(1, "period_event")
Output == Use(1, "pwm")
Period == Use(2, "period_event")
Unnamed == Use(0, "pwm")

Module(n, owned) == [name |-> n, items |-> owned]

\* The drive before and after the clock, in either order of its uses, or in
\* two parts around it; three owners; a use declared twice; one without a
\* valid name.
MCApplications ==
  {<<Module(1, <<Tick, Option>>), Module(2, <<Period, Output>>)>>,
   <<Module(2, <<Option, Output, Period>>), Module(1, <<Tick>>)>>,
   <<Module(2, <<Output>>), Module(1, <<Option, Tick>>), Module(2, <<Period>>)>>,
   <<Module(3, <<Output>>), Module(2, <<Output, Option>>), Module(1, <<Tick>>)>>,
   <<Module(1, <<Tick>>), Module(2, <<Output>>), Module(1, <<Tick>>)>>,
   <<Module(1, <<Tick>>), Module(2, <<Unnamed, Output>>)>>}

Bind(o, use, ep, p) ==
  [owner |-> o, local |-> use.name, kind |-> use.kind, endpoint |-> ep, pin |-> p]

Offer(o, id, t, pref, bound, held) ==
  [owner |-> o, identity |-> id, timer |-> t, preference |-> pref,
   bindings |-> bound, roles |-> held]

\* Two clocks alike but for their identity, one whose role is a drive's pin;
\* drives on three timers, one that serves one use only; two lamps; a model
\* with a role held twice.
Pool ==
  {Offer(1, 12, 10, 0, <<Bind(1, Tick, 101, 0)>>, <<401>>),
   Offer(1, 11, 10, 0, <<Bind(1, Tick, 101, 0)>>, <<>>),
   Offer(1, 13, 13, 1, <<Bind(1, Tick, 102, 0)>>, <<301>>),
   Offer(2, 21, 11, 0, <<Bind(2, Output, 201, 301), Bind(2, Period, 202, 0)>>, <<402>>),
   Offer(2, 22, 10, 0, <<Bind(2, Period, 103, 0), Bind(2, Output, 203, 302)>>, <<>>),
   Offer(2, 23, 11, 1, <<Bind(2, Output, 201, 302)>>, <<>>),
   Offer(3, 31, 12, 0, <<Bind(3, Output, 204, 302)>>, <<>>),
   Offer(3, 32, 12, 1, <<Bind(3, Output, 205, 303)>>, <<>>),
   Offer(1, 14, 13, 0, <<Bind(1, Tick, 102, 0)>>, <<403, 403>>)}

\* Enumerated by identity, upwards with repetitions, and downwards.
MCCandidateLists ==
  {list \in [Columns -> Pool] :
     \/ \A c, d \in Columns : c < d => list[c].identity <= list[d].identity
     \/ \A c, d \in Columns : c < d => list[c].identity > list[d].identity}

\* None, a pin, a timer, the clocks' endpoint and a role, an unused resource.
MCReservationSets == {{}, {301}, {10}, {101, 402}, {999}}

=============================================================================
