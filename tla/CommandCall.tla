----------------------------- MODULE CommandCall -----------------------------
(* What the main loop takes a call of run_exec for (src/components/          *)
(* run_exec.c:11-73): a child is started, its output read, the child waited  *)
(* for.  A signal can end the reading and the waiting; only then is a child  *)
(* left behind, for the loop's own wait().                                   *)
EXTENDS Naturals

VARIABLES
    at,         \* "out" of a call, "reading", "reaping", or the program "died"
    child,      \* of this call: "none", "running", "zombie"
    signals     \* SIGINT and SIGTERM so far, by any count

vars == <<at, child, signals>>

Init == at = "out" /\ child = "none" /\ signals = 0

Spawn == at = "out" /\ at' = "reading" /\ child' = "running" /\ UNCHANGED signals
SpawnFails == at = "out" /\ at' = "died" /\ UNCHANGED <<child, signals>>

\* Nobody has the pipe open any more, or a signal has come.
ReadToEnd == at = "reading" /\ at' = "reaping" /\ UNCHANGED child /\ signals' \in {signals, signals + 1}

Reap == at = "reaping" /\ child = "zombie" /\ at' = "out" /\ child' = "none" /\ UNCHANGED signals

\* waitpid ends with EINTR.
Abandon == at = "reaping" /\ at' = "out" /\ child' = "none" /\ signals' = signals + 1

Exit == child = "running" /\ child' = "zombie" /\ UNCHANGED <<at, signals>>

\* A signal that ends neither, and out of a call the count may start again.
Signal  == signals' = signals + 1 /\ UNCHANGED <<at, child>>
Recount == at = "out" /\ signals' = 0 /\ UNCHANGED <<at, child>>

Next == Spawn \/ SpawnFails \/ ReadToEnd \/ Reap \/ Abandon \/ Exit \/ Signal \/ Recount

Spec == Init /\ [][Next]_vars
=============================================================================
