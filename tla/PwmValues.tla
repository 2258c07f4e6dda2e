----------------------------- MODULE PwmValues -----------------------------
(***************************************************************************)
(* What the parts of the PWM code share: ratios (pwm/numeric.hpp), windows *)
(* of frequencies (pwm/frequency_window.hpp) and the Config of a request   *)
(* (pwm/requirements.hpp).  Fractions are pairs of numbers and compared    *)
(* exactly; FractionCompare is about how the code does that.               *)
(***************************************************************************)
EXTENDS Integers

CONSTANT Million  \* 1'000'000: bound of a ratio's terms, and the ppm in one

ASSUME MillionAssumption == Million \in Nat \ {0}

Ratio == [n : Nat, d : Nat]

\* Ratio::valid
Valid(q) == q.n \in 1 .. Million /\ q.d \in 1 .. Million

Divides(k, q) == q.n % k = 0 /\ q.d % k = 0

Normalized(q) ==
  LET gcd == CHOOSE k \in 1 .. q.d :
               Divides(k, q) /\ \A h \in 1 .. q.d : Divides(h, q) => h <= k
  IN  [n |-> q.n \div gcd, d |-> q.d \div gcd]

AtMost(a, b) == a.n * b.d <= b.n * a.d

\* A duty step: a valid ratio of at most one.
FineStep(q) == Valid(q) /\ q.n <= q.d

\* FrequencyWindow{}
Unspecified ==
  [specified |-> FALSE, lower |-> [n |-> 0, d |-> 1], upper |-> [n |-> 0, d |-> 1]]

\* FrequencyWindow::around, for a valid rate
Around(rate, ppm) ==
  [specified |-> TRUE,
   lower |-> Normalized([n |-> rate.n * (Million - ppm), d |-> rate.d]),
   upper |-> Normalized([n |-> rate.n * (Million + ppm), d |-> rate.d])]

\* FrequencyBound::valid
BoundValid(q) == q.n <= 2 * Million * Million /\ q.d \in 1 .. Million

WindowValid(w) ==
  w.specified /\ BoundValid(w.lower) /\ BoundValid(w.upper) /\ w.upper.n > 0

Empty(w) == WindowValid(w) /\ ~AtMost(w.lower, w.upper)

\* w.intersect(other), for a specified other
Intersect(w, other) ==
  IF ~w.specified
  THEN other
  ELSE [specified |-> TRUE,
        lower |-> IF AtMost(w.lower, other.lower) THEN other.lower ELSE w.lower,
        upper |-> IF AtMost(w.upper, other.upper) THEN w.upper ELSE other.upper]

\* The window contains the ratio, in the code's microhertz.
InWindow(w, actual) ==
  LET value == [n |-> actual.n * Million, d |-> actual.d]
  IN  /\ WindowValid(w) /\ ~Empty(w)
      /\ actual.n > 0 /\ actual.d > 0
      /\ AtMost(w.lower, value) /\ AtMost(value, w.upper)

-----------------------------------------------------------------------------
\* Config{}
NoConfig ==
  [frequency |-> Unspecified, step |-> [n |-> 0, d |-> 1], pin |-> 0,
   waveform |-> "any", source |-> "any", required_timer |-> 0,
   counter_bits_at_least |-> 0, error |-> "none"]

\* The order of ConfigError.
Rank == [none |-> 0, invalid_value |-> 1, unsupported_option |-> 2, conflict |-> 3]

\* As Failed, remembering the last error.
FailedLast(c, error) == [c EXCEPT !.error = error]

\* c.fail(error)
Failed(c, error) ==
  IF Rank[error] > Rank[c.error] THEN [c EXCEPT !.error = error] ELSE c

Errors == DOMAIN Rank

Window == [specified : BOOLEAN, lower : Ratio, upper : Ratio]

Config ==
  [frequency : Window, step : Ratio, pin : Nat,
   waveform : {"any", "fast", "phase_correct"},
   source : {"any", "icr", "apb", "built_in", "ocra"},
   required_timer : Nat, counter_bits_at_least : Nat, error : Errors]

\* Two ways of writing one number.
SameFraction(a, b) == a.n * b.d = b.n * a.d

=============================================================================
