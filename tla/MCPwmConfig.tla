---------------------------- MODULE MCPwmConfig ----------------------------
(***************************************************************************)
(* Declarations to check PwmConfig on.  Ratios have terms up to 4 and      *)
(* accuracies are in quarters, instead of millionths.                      *)
(***************************************************************************)
EXTENDS Sequences, Integers

Hertz(m, e, accuracy) ==
  [kind |-> "frequency", sections |-> {}, supported |-> TRUE,
   rate |-> [n |-> m, d |-> e], ppm |-> accuracy]

Guessed ==
  [kind |-> "frequency", sections |-> {}, supported |-> FALSE,
   rate |-> [n |-> 1, d |-> 1], ppm |-> 0]

Step(m, e) ==
  [kind |-> "duty_step", sections |-> {}, step |-> [n |-> m, d |-> e]]

OnPin(p) == [kind |-> "pin", sections |-> {}, pin |-> p]
Bits(b) == [kind |-> "counter_bits", sections |-> {}, bits |-> b]
Timer(t) == [kind |-> "require_timer", sections |-> {}, timer |-> t]
Wave(w) == [kind |-> "avr_waveform", sections |-> {}, waveform |-> w]
Top(s) == [kind |-> "avr_source", sections |-> {}, source |-> s]
Apb == [kind |-> "apb_clock", sections |-> {}]
Odd == [kind |-> "unknown", sections |-> {}]

Only(targets, option) == [option EXCEPT !.sections = targets]

\* Windows that are equal (2 Hz = 4/2 Hz), touch, overlap and are disjoint;
\* steps that are equal, finer, too coarse; pins that agree and differ.
Numbers ==
  {Hertz(2, 1, 0), Hertz(4, 2, 1), Hertz(4, 3, 2), Hertz(3, 1, 4), Hertz(1, 1, 0),
   Hertz(0, 1, 0), Hertz(2, 1, 5), Guessed, Step(2, 4), Step(1, 2), Step(1, 3),
   Step(3, 2), OnPin(3), OnPin(4), OnPin(0)}

\* Options for all targets, for one, and for none.
Selectors ==
  {Bits(8), Bits(10), Bits(0), Timer(1), Only({"atmega328p"}, Timer(2)), Timer(0),
   Only({"avr"}, Wave("fast")), Wave("phase_correct"), Top("icr"),
   Only({"avr"}, Top("ocra")), Only({"esp32"}, Apb), Only({"avr", "esp32"}, Odd),
   Only({"esp32"}, OnPin(4)), Odd, OnPin(3)}

RequestItem(n, list) == [kind |-> "request", name |-> n, options |-> list]

Lone(shared, own) == <<[name |-> 1, items |-> shared \o <<RequestItem(1, own)>>]>>

Whole == <<Hertz(2, 1, 0), Step(1, 2), OnPin(3)>>

\* One request of three options, alone and after a complete instance.
Triples == {Lone(<<>>, list) : list \in [1 .. 3 -> Numbers]}

Single ==
  Triples
    \cup {Lone(Whole, list) : list \in [1 .. 2 -> Numbers \cup Selectors]}
    \cup {Lone(Whole, list) : list \in [1 .. 3 -> Selectors]}

\* Instances whose options stand before, between and after two requests, and
\* further instances, with all the names, good and bad.
Several ==
  {<<[name |-> a, items |-> <<Hertz(2, 1, 1), RequestItem(b, <<OnPin(3), o>>),
                              Step(2, 4), RequestItem(c, <<OnPin(4)>>)>>],
     [name |-> d, items |-> <<Odd, RequestItem(b, Whole)>>]>> :
        a, b, c, d \in 0 .. 2, o \in {Hertz(1, 1, 0), Bits(8)}}

Declarations == Single \cup Several

=============================================================================
