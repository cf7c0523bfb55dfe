------------------------------- MODULE Decimals -------------------------------
(***************************************************************************)
(* The decimal arithmetic of the research side (domain/types.py).  Money,   *)
(* prices, quantities and weights are whole numbers of 1/Scale; the code    *)
(* quantizes to four decimals, Scale = 10000.  A quotient is exact until it *)
(* is rounded; the code's Decimal carries 28 digits, so only a quotient     *)
(* within 10^-27 of a tie could round the other way there.                  *)
(***************************************************************************)
EXTENDS Integers

CONSTANT Scale

ASSUME ScaleAssumption == Scale \in Nat \ {0}

Magnitude(a) == IF a < 0 THEN -a ELSE a
Smaller(a, b) == IF a < b THEN a ELSE b
Larger(a, b) == IF a < b THEN b ELSE a

\* quantize of a / b, b # 0: ROUND_HALF_UP, ties away from zero.
HalfUp(a, b) ==
    LET rounded == (2 * Magnitude(a) + Magnitude(b)) \div (2 * Magnitude(b))
    IN  IF (a < 0) <=> (b < 0) THEN rounded ELSE -rounded

\* to_integral_value of a / b, b > 0: ROUND_DOWN, towards zero.
RoundDown(a, b) == IF a < 0 THEN -((-a) \div b) ELSE a \div b
=============================================================================
