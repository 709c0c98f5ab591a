-------------------------------- MODULE CInts --------------------------------
(* Integers as C has them: of w values, unsigned or signed, and division.    *)
EXTENDS Integers

Unsigned(n, w) == n % w
Signed(n, w) == IF n % w < w \div 2 THEN n % w ELSE (n % w) - w

\* A quotient rounded to zero, and what it leaves.
Quotient(x, n) ==
    LET abs(k) == IF k < 0 THEN -k ELSE k
    IN  IF (x < 0) = (n < 0) THEN abs(x) \div abs(n) ELSE -(abs(x) \div abs(n))
Remainder(x, n) == x - n * Quotient(x, n)

\* An int expression that overflows is undefined: it wraps, or the compiler
\* has widened it.
Overflow(n, w) == {n, Signed(n, w)}
=============================================================================
