----------------------------- MODULE Instrument -----------------------------
(***************************************************************************)
(* What every module of an instrument's trading shares: its price grid,    *)
(* numbered from the lowest price up, and its two sides.                   *)
(***************************************************************************)
EXTENDS Integers

CONSTANT MaxPrice

ASSUME InstrumentAssumption == MaxPrice \in Nat \ {0}

Sides == {"buy", "sell"}
Prices == 1 .. MaxPrice

\* The limit of an order without one.
Market == 0

Opposite(side) == IF side = "buy" THEN "sell" ELSE "buy"

Least(a, b) == IF a <= b THEN a ELSE b
Most(a, b) == IF a >= b THEN a ELSE b

=============================================================================
