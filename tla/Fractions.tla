------------------------------ MODULE Fractions -----------------------------
(* Fractions in fixed point: the number x of the code is the integer        *)
(* numerator of x over Scale.                                              *)
EXTENDS Integers

CONSTANT Scale  \* the denominator of every fraction

ASSUME ScaleAssumption == Scale \in Nat \ {0}

AtLeast(a, b) == IF a >= b THEN a ELSE b
AtMost(a, b) == IF a <= b THEN a ELSE b
Magnitude(a) == AtLeast(a, -a)

(* _clip01: into [0, 1].                                                    *)
Clip01(x) == AtLeast(0, AtMost(Scale, x))

(* The square root of a product of two fractions, rounded down.             *)
Root(n) == CHOOSE r \in 0..Scale : r * r <= n /\ n < (r + 1) * (r + 1)
=============================================================================
