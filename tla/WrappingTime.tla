---------------------------- MODULE WrappingTime ----------------------------
(***************************************************************************)
(* The unsigned tick arithmetic of setl::Time, which the time-driven       *)
(* headers use as Clock::TimeType.  The type itself lives in the           *)
(* grevir-time package; what is fixed here is what the headers and their   *)
(* wraparound tests rely on: a tick count of fixed width that wraps, and   *)
(* subtraction and addition modulo that width.                             *)
(***************************************************************************)
EXTENDS Integers

CONSTANT Wrap      \* number of distinct tick values, 2^32 for std::uint32_t

ASSUME WrapAssumption == Wrap \in Nat \ {0}

Ticks == 0 .. (Wrap - 1)

\* time += period, for a time and a period that are both tick values.
Advance(time, period) ==
    IF time + period < Wrap THEN time + period ELSE time + period - Wrap

\* to - from, the period between two tick values modulo the width.
Elapsed(to, from) ==
    IF from <= to THEN to - from ELSE to + Wrap - from

=============================================================================
