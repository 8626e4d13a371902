----------------------------- MODULE FixedPoint -----------------------------
(***************************************************************************)
(* Arithmetic shared by the kinematic path solver modules.                 *)
(*                                                                         *)
(* The solver computes in double.  The model keeps every quantity that the *)
(* code holds in a double as an integer count of 1/Q units, and rounds     *)
(* each stored result toward zero, which is also what the code's own       *)
(* double -> int conversions do.                                           *)
(***************************************************************************)
LOCAL INSTANCE Integers

(* x / d rounded toward zero, for d > 0: C++ conversion of a quotient to  *)
(* an integral type.                                                       *)
Trunc(x, d) == IF x >= 0 THEN x \div d ELSE -((-x) \div d)

(* x / d rounded to the nearest integer, halfway cases away from zero,   *)
(* for d > 0: std::round.                                                   *)
RoundHalfAway(x, d) ==
  IF x >= 0 THEN (2 * x + d) \div (2 * d) ELSE -((2 * (-x) + d) \div (2 * d))

(* std::abs *)
AbsVal(x) == IF x < 0 THEN -x ELSE x

(* lo <= x <= hi, whichever of a and b is lower *)
Between(x, a, b) ==
  IF a <= b THEN a <= x /\ x <= b ELSE b <= x /\ x <= a

=============================================================================
