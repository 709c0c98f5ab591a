------------------------------ MODULE Timespec ------------------------------
(* struct timespec as the main loop uses it (src/slstatus.c): a normalised   *)
(* pair of seconds and nanoseconds, its difference, and the conversion of a  *)
(* number of milliseconds.                                                   *)
EXTENDS Integers

CONSTANTS
    MsPerSec,   \* milliseconds per second: 1000 in the code
    NsPerMs     \* nanoseconds per millisecond: 1E6 in the code

ASSUME UnitsAssumption == MsPerSec \in Nat \ {0} /\ NsPerMs \in Nat \ {0}

NS == MsPerSec * NsPerMs     \* nanoseconds per second, 1E9

\* What clock_gettime returns and nanosleep accepts: 0 <= tv_nsec < 1E9.
Timespec == [sec : Int, nsec : 0 .. NS - 1]

\* The length of time that a timespec stands for, in nanoseconds.
Total(t) == t.sec * NS + t.nsec

\* Mutants of difftimespec: a second that is not borrowed, one not carried over.
difftimespecNoBorrow(a, b) ==
    [sec |-> a.sec - b.sec, nsec |-> a.nsec - b.nsec + (IF a.nsec < b.nsec THEN NS ELSE 0)]
difftimespecNoCarry(a, b) ==
    [sec |-> a.sec - b.sec - (IF a.nsec < b.nsec THEN 1 ELSE 0), nsec |-> a.nsec - b.nsec]

\* difftimespec(&res, &a, &b): the comparison is the borrow, 0 or 1.
difftimespec(a, b) ==
    LET borrow == IF a.nsec < b.nsec THEN 1 ELSE 0
    IN  [sec  |-> a.sec - b.sec - borrow,
         nsec |-> a.nsec - b.nsec + borrow * NS]

\* intspec: the configured interval, a number of milliseconds.
intspec(ms) == [sec |-> ms \div MsPerSec, nsec |-> (ms % MsPerSec) * NsPerMs]
=============================================================================
