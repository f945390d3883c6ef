-------------------------------- MODULE Sums --------------------------------
(***************************************************************************)
(* Totals over 1 .. n, and the two cuts the gateway's arithmetic makes.    *)
(* The total is a recursive function, not a fold of a community module:    *)
(* SumsProofs proves how it changes when one term does, and the folds'     *)
(* definitions are out of the provers' reach.                              *)
(***************************************************************************)
EXTENDS Integers

\* The function that maps k to f[1] + ... + f[k].
Partial(n, f) ==
    LET s[k \in 0 .. n] == IF k = 0 THEN 0 ELSE s[k - 1] + f[k] IN s

Total(n, f) == Partial(n, f)[n]

\* std::max and std::min of two numbers
Larger(a, b) == IF a >= b THEN a ELSE b

Smaller(a, b) == IF a <= b THEN a ELSE b

\* max(0, x): how every release in the position book is cut off at zero.
Positive(x) == Larger(0, x)
=============================================================================
