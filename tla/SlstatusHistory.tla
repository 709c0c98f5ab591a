-------------------------- MODULE SlstatusHistory ---------------------------
(* The main loop observed: how many rounds ago the duskc of each module was  *)
(* started, and when it was last its turn.                                   *)
EXTENDS Slstatus

CONSTANT
    Observed    \* the modules that are observed

ASSUME ObservedAssumption == Observed \subseteq Indices

VARIABLES
    since,      \* per observed module: rounds begun since a duskc was last started for it
    turn,       \* rounds begun since its last turn, which may have come to nothing
    missed      \* whether that turn came to nothing

hvars == <<vars, since, turn, missed>>

HInit ==
    /\ Init
    /\ since = [m \in Observed |-> 0]
    /\ turn = [m \in Observed |-> 0]
    /\ missed = [m \in Observed |-> FALSE]

\* A duskc is started for the module.
Sent == IF pc = "format" /\ pc' = "wait" /\ kids' # kids THEN {i} ELSE {}

\* Whose turn passes without one: the fork fails (line 138), or a text is
\* overlong and skips its own module and those behind it that were due too
\* (line 134).
Missed ==
    CASE pc = "format" /\ pc' = "wait" /\ kids' = kids -> {i}
      [] pc = "format" /\ pc' = "count"               -> {m \in i .. Len(modules) : Due(m)}
      [] OTHER                                        -> {}

\* Rounds are counted up to one too many.
Older(m, n) == IF pc = "round" /\ pc' # "round" /\ n <= modules[m].every THEN n + 1 ELSE n

HNext ==
    /\ Next
    /\ since' = [m \in Observed |-> IF m \in Sent THEN 0 ELSE Older(m, since[m])]
    /\ turn' = [m \in Observed |-> IF m \in Sent \cup Missed THEN 0 ELSE Older(m, turn[m])]
    /\ missed' = [m \in Observed |-> m \in Missed \/ (m \notin Sent /\ missed[m])]

HSpec == HInit /\ [][HNext]_hvars

HFairSpec == HSpec /\ WF_vars(Step) /\ WF_vars(Children)
-----------------------------------------------------------------------------
(* Properties *)

\* Each module has its turn within every update_interval rounds, also where
\* loop_count wraps around (lines 126-127, 148; slstatus.cfg:61), and its text
\* is on its way then, unless its fork failed or an overlong text ended that
\* round before it: that costs it this turn and no other.  An update_interval
\* of 0 is left out, at which the first round crashes (line 126).
OnTime ==
    \A m \in Observed : modules[m].every # 0 =>
        /\ turn[m] <= modules[m].every
        /\ since[m] > modules[m].every => missed[m]
=============================================================================
