------------------------------- MODULE Money --------------------------------
(***************************************************************************)
(* Amounts of money as the code computes and stores them.  An amount is a  *)
(* number of kurus, the hundredth of a lira; a quotient n / d of integers  *)
(* stands for the float or Decimal the code has before it rounds.          *)
(***************************************************************************)
LOCAL INSTANCE Integers

Atleast0(n)    == IF n > 0 THEN n ELSE 0
Lesser(a, b)   == IF a <= b THEN a ELSE b
Greater(a, b)  == IF a >= b THEN a ELSE b
Distance(a, b) == IF a >= b THEN a - b ELSE b - a

(* A stored NUMERIC(12, 2) is the nearest kurus, halves away from zero.    *)
Stored(n, d)  == (2 * n + d) \div (2 * d)

(* Python's round on a quotient of floats: the nearest integer, and at a   *)
(* tie either of the two, as the binary fraction happens to fall.          *)
Rounded(n, d) == {k \in {n \div d, n \div d + 1} : 2 * Distance(k * d, n) <= d}
=============================================================================
