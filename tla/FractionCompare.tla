-------------------------- MODULE FractionCompare --------------------------
(***************************************************************************)
(* fraction_at_most of pwm/numeric.hpp: a/b <= c/d without multiplying, by *)
(* the quotients and remainders of Euclid's algorithm on both fractions at *)
(* once.  The frequency windows compare all their bounds with it.          *)
(***************************************************************************)
EXTENDS PwmValues

CONSTANT Largest  \* of the operands, 2^64 - 1

ASSUME LargestAssumption == Largest \in Nat \ {0}

VARIABLES
  an, ad, bn, bd,  \* the operands, which the loop overwrites
  reversed,        \* reversed
  answer,          \* what the function has returned
  lhs, rhs         \* history: the fractions it was called with

compareVars == <<an, ad, bn, bd, reversed, answer, lhs, rhs>>

Numerator == 0 .. Largest
Denominator == 1 .. Largest
Fraction == [n : Numerator, d : Denominator]

Answers == {"none", "yes", "no"}

\* The two remainders of an iteration.
Ar == an % ad
Br == bn % bd

QuotientsDiffer == an \div ad # bn \div bd

\* The callers check that no denominator is 0.
CompareInit ==
  /\ lhs \in Fraction
  /\ rhs \in Fraction
  /\ an = lhs.n /\ ad = lhs.d
  /\ bn = rhs.n /\ bd = rhs.d
  /\ reversed = FALSE
  /\ answer = "none"

Running == answer = "none"

Answer(value) ==
  /\ answer' = IF value THEN "yes" ELSE "no"
  /\ UNCHANGED <<an, ad, bn, bd, reversed, lhs, rhs>>

\* The quotients tell the fractions apart.
Decide ==
  /\ Running
  /\ QuotientsDiffer
  /\ Answer(IF reversed THEN an \div ad > bn \div bd ELSE an \div ad < bn \div bd)

\* As End, with the side whose remainder counts not swapped.
EndUnreversed ==
  /\ Running
  /\ ~QuotientsDiffer
  /\ Ar = 0 \/ Br = 0
  /\ Answer(Ar = 0)

\* One fraction is the quotient, or both are.
End ==
  /\ Running
  /\ ~QuotientsDiffer
  /\ Ar = 0 \/ Br = 0
  /\ Answer(IF reversed THEN Br = 0 ELSE Ar = 0)

\* As Descend, with the remainders over the same denominators again.
DescendInPlace ==
  /\ Running
  /\ ~QuotientsDiffer
  /\ Ar # 0 /\ Br # 0
  /\ an' = Ar /\ bn' = Br
  /\ reversed' = ~reversed
  /\ UNCHANGED <<ad, bd, answer, lhs, rhs>>

\* Go on with the reciprocals of what the quotient leaves.
Descend ==
  /\ Running
  /\ ~QuotientsDiffer
  /\ Ar # 0 /\ Br # 0
  /\ an' = ad /\ ad' = Ar
  /\ bn' = bd /\ bd' = Br
  /\ reversed' = ~reversed
  /\ UNCHANGED <<answer, lhs, rhs>>

CompareReturned ==
  /\ ~Running
  /\ UNCHANGED compareVars

CompareNext == Decide \/ End \/ Descend \/ CompareReturned

CompareSpec == CompareInit /\ [][CompareNext]_compareVars

\* A sequential computation: it runs on until it returns.
CompareFairSpec == CompareSpec /\ WF_compareVars(CompareNext)

-----------------------------------------------------------------------------
CompareTypeOK ==
  /\ lhs \in Fraction /\ rhs \in Fraction
  /\ an \in Numerator /\ ad \in Denominator
  /\ bn \in Numerator /\ bd \in Denominator
  /\ reversed \in BOOLEAN
  /\ answer \in Answers

\* Every iteration compares fractions that are in the order of those, or in
\* the opposite one if it is reversed, equality included.
Tracks ==
  Running =>
    (AtMost(lhs, rhs) <=> IF reversed THEN bn * ad <= an * bd ELSE an * bd <= bn * ad)

(***************************************************************************)
(* The loop keeps the question it was asked, and answers it as comparing   *)
(* the cross products would, although no product is ever formed that       *)
(* could overflow: equal fractions are at most each other whichever of     *)
(* them runs out of remainders first.                                      *)
(***************************************************************************)
ComparesExactly ==
  CompareTypeOK /\ Tracks /\ (~Running => (answer = "yes" <=> AtMost(lhs, rhs)))

(***************************************************************************)
(* The loop ends for all operands.                                         *)
(***************************************************************************)
Returns == <>(~Running)

(***************************************************************************)
(* It ends because each round leaves less: both denominators shrink.       *)
(***************************************************************************)
Shrinks == [][Running' => ad' < ad /\ bd' < bd]_<<an, ad, bn, bd, reversed>>

=============================================================================
