--------------------------- MODULE MCPwmAllocator ---------------------------
(***************************************************************************)
(* Problems to check PwmAllocator on: a lamp (instance 1) with one output  *)
(* and a drive (instance 2) with two.  Ratios have terms up to 4 and       *)
(* frequency bounds are in quarters of a hertz.                            *)
(***************************************************************************)
EXTENDS Sequences, PwmValues

R(m, e) == [n |-> m, d |-> e]

\* A request for about two hertz, from 1.5 to 2.5.
Wanted(inst, use, onPin) ==
  [key |-> <<inst, use>>,
   config |-> [NoConfig EXCEPT !.frequency = Around(R(2, 1), 1),
                               !.step = R(1, 2), !.pin = onPin]]

Lamp == Wanted(1, 1, 51)
Left == Wanted(2, 1, 52)
Right == Wanted(2, 2, 53)

Selective ==
  [Lamp EXCEPT !.config.required_timer = 10, !.config.counter_bits_at_least = 16,
               !.config.waveform = "fast", !.config.source = "icr"]

\* Windows below, above and without any frequency.
Windows ==
  {Around(R(1, 1), 0), [Around(R(3, 1), 1) EXCEPT !.upper = R(14, 1)],
   [specified |-> TRUE, lower |-> R(9, 1), upper |-> R(8, 1)]}

GivenRequests ==
  {<<Lamp, Left, Right>>, <<Right, Lamp, Left>>, <<Left, Right>>,
   <<Selective, Right, Left>>, <<Lamp, Left, Lamp>>, <<Right, Wanted(0, 1, 51)>>,
   <<Right, [Lamp EXCEPT !.config.error = "unsupported_option"]>>,
   <<Right, [Lamp EXCEPT !.config.step = R(2, 1)]>>,
   <<Left, Right, Wanted(1, 1, 11)>>}
  \cup {<<[Lamp EXCEPT !.config.frequency = w], Right, Left>> : w \in Windows}

For(use, ch, onPin, st) == [request |-> use, channel |-> ch, pin |-> onPin, step |-> st]

Offer(id, pref, t, cf, freq, list) ==
  [key |-> id, preference |-> pref, timer |-> t, counter_bits |-> 8,
   configuration |-> cf, frequency |-> freq, waveform |-> "any", source |-> "any",
   endpoints |-> list, domain |-> 0, setting |-> 0, independent_duties |-> TRUE]

LampOn(ch, st) == For(<<1, 1>>, ch, 51, st)
LeftOn(ch, st) == For(<<2, 1>>, ch, 52, st)
RightOn(ch, st) == For(<<2, 2>>, ch, 53, st)

InDomain(offer, which) == [offer EXCEPT !.domain = 90, !.setting = which]

Both == Offer(5, 0, 20, 2, R(2, 1), <<LeftOn(21, R(1, 4)), RightOn(22, R(1, 2))>>)

\* Candidate 1 twice, written differently; lamps with a domain and with
\* everything Selective asks for; drives on either timer, in either order of
\* their endpoints, in a domain, without independent duties, and one for the
\* left output only; a channel of another timer; a contradiction of 5.
Pool ==
  {Offer(1, 0, 10, 1, R(2, 1), <<LampOn(11, R(1, 2))>>),
   Offer(1, 0, 10, 1, R(4, 2), <<LampOn(11, R(2, 4))>>),
   InDomain(Offer(2, 1, 20, 1, R(3, 2), <<LampOn(21, R(1, 2))>>), 1),
   [Offer(3, 1, 10, 2, R(2, 1), <<LampOn(12, R(1, 4))>>)
      EXCEPT !.counter_bits = 16, !.waveform = "fast", !.source = "icr"],
   InDomain(Offer(4, 0, 10, 3, R(2, 1), <<LampOn(11, R(1, 2))>>), 1),
   Both,
   InDomain([Both EXCEPT !.key = 6, !.configuration = 3,
                         !.endpoints = <<RightOn(22, R(1, 2)), LeftOn(21, R(2, 4))>>], 2),
   Offer(7, 1, 10, 4, R(2, 1), <<LeftOn(11, R(1, 2)), RightOn(12, R(1, 2))>>),
   [Both EXCEPT !.key = 8, !.independent_duties = FALSE],
   Offer(9, 0, 20, 5, R(2, 1), <<LeftOn(21, R(1, 2))>>),
   Offer(10, 0, 10, 6, R(2, 1), <<LampOn(22, R(1, 2))>>),
   [Both EXCEPT !.frequency = R(3, 2)]}

\* Enumerated by key, upwards with repetitions, and downwards.
GivenCandidates ==
  {list \in [1 .. 3 -> Pool] :
     \/ \A c, d \in 1 .. 3 : c < d => list[c].key <= list[d].key
     \/ \A c, d \in 1 .. 3 : c < d => list[c].key > list[d].key}

Enumerated(list) == \A c, d \in DOMAIN list : c < d => list[c].key < list[d].key

Node(name, above, k) == [id |-> name, parent |-> above, kind |-> k]

Board ==
  <<Node(11, 10, "channel"), Node(12, 10, "channel"), Node(10, 0, "timer"),
    Node(20, 0, "timer"), Node(21, 20, "channel"), Node(22, 20, "channel"),
    Node(51, 0, "pin"), Node(52, 0, "pin"), Node(53, 0, "pin"), Node(90, 0, "domain")>>

\* The board, without a domain, and with a timer that is given twice.
GivenResources ==
  {Board, SubSeq(Board, 1, 9), Append(Board, Node(10, 0, "timer"))}

\* None, a timer, a channel and a pin, a domain, both ends of a branch.
GivenReservations == {<<>>, <<20>>, <<51, 12>>, <<90>>, <<22, 20>>}

=============================================================================
