------------------------------- MODULE Pacing -------------------------------
(* How the main loop keeps its period (src/slstatus.c, lines 121-162): a     *)
(* clock reading when a round starts, another when it ends, and a nanosleep  *)
(* for what is left of the interval, unless the round took longer.  Time     *)
(* passes between any two steps, also between the second reading and the     *)
(* call of nanosleep.  Names that begin with P are those which MainProofs,    *)
(* where it stands beside InstanceLock, has to tell apart.                    *)
EXTENDS Timespec

CONSTANTS
    interval,   \* the configured interval in milliseconds
    MaxSec      \* bound on the monotonic clock, in seconds

ASSUME PacingAssumption == interval \in Nat /\ MaxSec \in Nat

VARIABLES
    at,         \* where the loop is
    now,        \* the monotonic clock
    start,      \* first reading of the round
    snooze,     \* what is passed to nanosleep
    began,      \* ghost: when nanosleep was called
    ended,      \* ghost: when the second reading was taken
    early       \* ghost: the last sleep was ended by a signal

pvars == <<at, now, start, snooze, began, ended, early>>

Clock == [sec : 0 .. MaxSec, nsec : 0 .. NS - 1]

PInit ==
    /\ at = "begin"
    /\ now \in Clock
    /\ start = now /\ snooze = now /\ began = now /\ ended = now
    /\ early = TRUE     \* nothing to wait for before the first round

\* Time passes: while the modules run, between two calls, during the sleep.
Elapse ==
    /\ now' \in Clock
    /\ Total(now) < Total(now')
    /\ UNCHANGED <<at, start, snooze, began, ended, early>>

\* clock_gettime(CLOCK_MONOTONIC, &start)
BeginRound ==
    /\ at = "begin"
    /\ start' = now
    /\ at' = "round"
    /\ UNCHANGED <<now, snooze, began, ended, early>>

\* Mutant of Measure: a rest of less than a second is not slept.
MeasureStrict ==
    /\ at = "round"
    /\ snooze' = difftimespec(intspec(interval), difftimespec(now, start))
    /\ at' = IF snooze'.sec > 0 THEN "nanosleep" ELSE "begin"
    /\ ended' = now
    /\ early' = FALSE
    /\ UNCHANGED <<now, start, began>>

\* clock_gettime(&current) after the modules, and the two differences.  A
\* round that took longer than the interval goes on without a sleep.
Measure ==
    /\ at = "round"
    /\ snooze' = difftimespec(intspec(interval), difftimespec(now, start))
    /\ at' = IF snooze'.sec >= 0 THEN "nanosleep" ELSE "begin"
    /\ ended' = now
    /\ early' = FALSE
    /\ UNCHANGED <<now, start, began>>

\* nanosleep(&snooze, NULL) refuses a tv_nsec out of range with EINVAL, and
\* die("nanosleep:") ends the program.
Nanosleep ==
    /\ at = "nanosleep"
    /\ at' = IF snooze \in Timespec THEN "asleep" ELSE "died"
    /\ began' = now
    /\ UNCHANGED <<now, start, snooze, ended, early>>

\* The time asked for has passed.
Wake ==
    /\ at = "asleep"
    /\ Total(now) >= Total(began) + Total(snooze)
    /\ at' = "begin"
    /\ UNCHANGED <<now, start, snooze, began, ended, early>>

\* A signal handler ran: EINTR, and the loop goes on with the next round.
Interrupted ==
    /\ at = "asleep"
    /\ at' = "begin"
    /\ early' = TRUE
    /\ UNCHANGED <<now, start, snooze, began, ended>>

PNext == Elapse \/ BeginRound \/ Measure \/ Nanosleep \/ Wake \/ Interrupted

PSpec == PInit /\ [][PNext]_pvars
-----------------------------------------------------------------------------
(* Properties *)

\* The clock readings are clock values and what is left of the interval is a
\* timespec that nanosleep accepts (lines 122, 151-157).
PTypeOK ==
    /\ at \in {"begin", "round", "nanosleep", "asleep", "died"}
    /\ {now, start, began, ended} \subseteq Clock
    /\ snooze \in Timespec
    /\ early \in BOOLEAN

\* die("nanosleep:") (line 160) is unreachable: the borrow of difftimespec
\* always leaves a value that nanosleep accepts, however long the round took.
NeverDies == at # "died"

\* A sleep is for exactly what the modules left of the interval: it is
\* neither negative nor longer than the interval (lines 153-159).
SleepsTheRest ==
    at \in {"nanosleep", "asleep"} =>
        /\ Total(snooze) = interval * NsPerMs - (Total(ended) - Total(start))
        /\ 0 <= Total(snooze) /\ Total(snooze) <= interval * NsPerMs

\* Two rounds that no signal separates start at least one interval apart,
\* also after a round that overran it (lines 122, 150-162): the loop never
\* catches up by running rounds in quick succession.
KeepsPeriod ==
    at = "begin" =>
        early \/ Total(now) - Total(start) >= interval * NsPerMs
=============================================================================
