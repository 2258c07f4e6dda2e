------------------------------ MODULE MCBlink ------------------------------
(***************************************************************************)
(* Three unequal intervals, so that the backlog of a long one meets a      *)
(* short one, on a clock that wraps inside intervals; the pin is low in    *)
(* the first of them only.                                                 *)
(***************************************************************************)
EXTENDS Blink

MCPeriods == <<2, 4, 3>>

=============================================================================
