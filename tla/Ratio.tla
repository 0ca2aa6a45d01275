------------------------------- MODULE Ratio -------------------------------
(***************************************************************************)
(* Exact fractions for Decimal quotients (averages, returns, weights).  A   *)
(* ratio is <<n, d>> in lowest terms with d > 0, so that two equal amounts  *)
(* are the same value.                                                     *)
(***************************************************************************)
EXTENDS Integers

\* Euclid's algorithm.
Gcd[p \in Nat \X Nat] == IF p[2] = 0 THEN p[1] ELSE Gcd[<<p[2], p[1] % p[2]>>]

Over(n, d) ==
    LET s == IF d < 0 THEN -1 ELSE 1
        g == Gcd[<<IF n < 0 THEN -n ELSE n, s * d>>]
    IN <<(s * n) \div g, (s * d) \div g>>

Whole(n) == <<n, 1>>
Zero     == Whole(0)
One      == Whole(1)

Plus(x, y)   == Over(x[1] * y[2] + y[1] * x[2], x[2] * y[2])
Minus(x, y)  == Over(x[1] * y[2] - y[1] * x[2], x[2] * y[2])
Times(x, y)  == Over(x[1] * y[1], x[2] * y[2])
Divide(x, y) == Over(x[1] * y[2], x[2] * y[1])
Scale(k, x)  == Times(Whole(k), x)
Less(x, y)   == x[1] * y[2] < y[1] * x[2]
Positive(x)  == x[1] > 0
=============================================================================
