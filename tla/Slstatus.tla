------------------------------ MODULE Slstatus ------------------------------
(* The main loop of slstatus (src/slstatus.c): rounds of module calls, one   *)
(* duskc process per due module, the wait for it, the sleep between rounds,  *)
(* and the signals that arrive at any point of it.  A module is an entry of  *)
(* the configuration; the module functions are abstracted to what the loop   *)
(* can tell apart, except that run_exec has a child process of its own.      *)
(* How long a sleep lasts is the matter of Pacing.                           *)
EXTENDS Integers, Sequences, FiniteSets

CONSTANTS
    modules,    \* the loaded configuration, a sequence of Module records
    LoopLimit,  \* number of values of the unsigned loop_count (2^32)
    Pids,       \* process ids
    NULL,       \* the null pointer: a status_no that was not configured
    MaxTerms    \* bound: how many SIGINT and SIGTERM are sent

Digits == 0 .. 9

\* func: a function that answers by itself, run_exec, or the null pointer of
\* an entry without "function".  overlong: its text may exceed maximum_length.
Module == [func     : {"builtin", "run_exec", "null"},
           every    : Nat,
           no       : Seq(Digits) \cup {NULL},
           overlong : BOOLEAN]

ASSUME ModulesAssumption == modules \in Seq(Module)
ASSUME LimitAssumption == LoopLimit \in Nat \ {0}
ASSUME PidsAssumption == IsFiniteSet(Pids)
ASSUME NULLAssumption == NULL \notin Seq(Digits)
ASSUME MaxTermsAssumption == MaxTerms \in Nat

Indices == 1 .. Len(modules)

VARIABLES
    pc,         \* where the loop is
    i,          \* the module of this round it is at
    loop_count, \* rounds so far, an unsigned int
    done,       \* set by the handler of SIGINT and SIGTERM
    status_no,  \* the buffer that duskc gets as an argument
    kids,       \* child processes not yet waited for
    cmd,        \* the child that run_exec is serving
    writers,    \* who has the pipe open that run_exec reads: it, or who it left behind
    terms,      \* how many SIGINT and SIGTERM were delivered
    bar,        \* per status of dusk: the module whose text it shows, 0 if none
    latest      \* per status of dusk: what became of the last text sent to it

vars == <<pc, i, loop_count, done, status_no, kids, cmd, writers, terms, bar, latest>>
loop == <<pc, i, loop_count, status_no, cmd>>    \* the loop's own variables

-----------------------------------------------------------------------------
\* char status_no[3]: esnprintf keeps two characters of a longer number, and
\* the loop ignores that it says so.
Truncate(no) == IF Len(no) > 2 THEN SubSeq(no, 1, 2) ELSE no

Slots == {<<>>} \cup {Truncate(modules[m].no) : m \in {k \in Indices : modules[k].no # NULL}}

Blocking == {"reading", "reaping", "wait"}    \* waiting for a child
Stopped  == {"exited", "died", "crashed"}

\* An entry of the process table: mod and slot are those of a duskc, late says
\* that a newer duskc has been started for the same status.
Child == [st : {"free", "running", "zombie"}, kind : {"none", "command", "duskc"},
          mod : Indices \cup {0}, slot : Slots, late : BOOLEAN]

Process(kind, m, s) ==
    [st |-> "running", kind |-> kind, mod |-> m, slot |-> s, late |-> FALSE]
Free == [st |-> "free", kind |-> "none", mod |-> 0, slot |-> <<>>, late |-> FALSE]

Unused  == {p \in Pids : kids[p].st = "free"}
Zombies == {p \in Pids : kids[p].st = "zombie"}
Running == {p \in Pids : kids[p].st = "running"}

\* A running duskc for slot s, which a newer one has just been started for.
Supersede(s) ==
    [p \in Pids |-> IF kids[p].st = "running" /\ kids[p].kind = "duskc" /\ kids[p].slot = s
                    THEN [kids[p] EXCEPT !.late = TRUE] ELSE kids[p]]

Init ==
    /\ pc = "round" /\ i = 1 /\ loop_count = 0 /\ done = FALSE
    /\ status_no = <<>>
    /\ kids = [p \in Pids |-> Free]
    /\ cmd = NULL /\ writers = {}
    /\ terms = 0
    /\ bar = [s \in Slots |-> 0]
    /\ latest = [s \in Slots |-> "none"]

-----------------------------------------------------------------------------
(* One round.  Each action starts where pc says and reads the module at i.   *)

Goto(from, to) == pc = from /\ pc' = to

Due(m) == modules[m].every # 0 /\ loop_count % modules[m].every = 0

\* do { clock_gettime(&start); for (i = 0; ...
BeginRound ==
    /\ Goto("round", "module")
    /\ i' = 1
    /\ UNCHANGED <<loop_count, done, status_no, kids, cmd, terms, bar, latest, writers>>

\* The modulo of an update_interval of 0, and the call of a null func.
Crash ==
    /\ Goto("module", "crashed")
    /\ i \in Indices
    /\ modules[i].every = 0 \/ (Due(i) /\ modules[i].func = "null")
    /\ UNCHANGED <<i, loop_count, done, status_no, kids, cmd, terms, bar, latest, writers>>

\* Mutant of SkipModule: break in place of continue.
SkipModuleBreaks ==
    /\ Goto("module", "count")
    /\ i \in Indices
    /\ modules[i].every # 0 /\ ~Due(i)
    /\ UNCHANGED <<i, loop_count, done, status_no, kids, cmd, terms, bar, latest, writers>>

\* if (loop_count % modules[i].update_interval) continue;
SkipModule ==
    /\ Goto("module", "module")
    /\ i \in Indices
    /\ modules[i].every # 0 /\ ~Due(i)
    /\ i' = i + 1
    /\ UNCHANGED <<loop_count, done, status_no, kids, cmd, terms, bar, latest, writers>>

\* res = modules[i].func(modules[i].args)
CallBuiltin ==
    /\ Goto("module", "calling")
    /\ i \in Indices
    /\ Due(i) /\ modules[i].func = "builtin"
    /\ UNCHANGED <<i, loop_count, done, status_no, kids, cmd, terms, bar, latest, writers>>

\* The function returns a text, or NULL, for which there is unknown_string.  It
\* may also wait for ever, or not get out of a loop (run wifi_hang).
BuiltinReturns ==
    /\ Goto("calling", "format")
    /\ UNCHANGED <<i, loop_count, done, status_no, kids, cmd, terms, bar, latest, writers>>

\* run_exec starts its command with its standard output on a pipe.
CallRunExec ==
    /\ Goto("module", "reading")
    /\ i \in Indices
    /\ Due(i) /\ modules[i].func = "run_exec"
    /\ \E p \in Unused :
          /\ cmd' = p
          /\ kids' = [kids EXCEPT ![p] = Process("command", 0, <<>>)]
    /\ writers' = {"command"}
    /\ UNCHANGED <<i, loop_count, done, status_no, terms, bar, latest>>

\* run_exec: posix_spawnp fails, for want of the command or of resources, and
\* die() ends the program.
SpawnFails ==
    /\ Goto("module", "died")
    /\ i \in Indices
    /\ Due(i) /\ modules[i].func = "run_exec"
    /\ UNCHANGED <<i, loop_count, done, status_no, kids, cmd, terms, bar, latest, writers>>

\* run_exec: the read loop ends when nobody has the pipe open any more.
ReadToEnd ==
    /\ Goto("reading", "reaping")
    /\ writers = {}
    /\ UNCHANGED <<i, loop_count, done, status_no, kids, cmd, terms, bar, latest, writers>>

\* run_exec: waitpid(pid) returns with the command's exit.
ReapCommand ==
    /\ Goto("reaping", "format")
    /\ kids[cmd].st = "zombie"
    /\ kids' = [kids EXCEPT ![cmd] = Free]
    /\ cmd' = NULL
    /\ UNCHANGED <<i, loop_count, done, status_no, terms, bar, latest, writers>>

\* if (esnprintf(status, ...) < 0) break;
Overlong ==
    /\ Goto("format", "count")
    /\ modules[i].overlong
    /\ UNCHANGED <<i, loop_count, done, status_no, kids, cmd, terms, bar, latest, writers>>

\* Mutant of FormatStatusNo: status_no is written after the fork.
FormatStatusNoLate == status_no' = status_no

\* esnprintf(status_no, ..., NULL) is undefined: the C library may refuse and
\* leave the buffer or empty it, or the program crashes.
FormatStatusNo ==
    \/ modules[i].no # NULL /\ status_no' = Truncate(modules[i].no)
    \/ modules[i].no = NULL /\ status_no' \in {status_no, <<>>}

NullFormat ==
    /\ Goto("format", "crashed")
    /\ modules[i].no = NULL
    /\ UNCHANGED <<i, loop_count, done, status_no, kids, cmd, terms, bar, latest, writers>>

\* status and status_no are written, fork() starts a duskc with them.
Fork ==
    /\ Goto("format", "wait")
    /\ FormatStatusNo
    /\ \E p \in Unused :
          kids' = [Supersede(status_no') EXCEPT ![p] = Process("duskc", i, status_no')]
    /\ latest' = [latest EXCEPT ![status_no'] = "sent"]
    /\ UNCHANGED <<i, loop_count, done, cmd, terms, bar, writers>>

\* fork() returns -1, which the loop does not notice: it waits all the same.
ForkFails ==
    /\ Goto("format", "wait")
    /\ FormatStatusNo
    /\ UNCHANGED <<i, loop_count, done, kids, cmd, terms, bar, latest, writers>>

\* wait() takes any child that has exited; the for loop goes on.
Wait ==
    /\ Goto("wait", "module")
    /\ \E p \in Zombies : kids' = [kids EXCEPT ![p] = Free]
    /\ i' = i + 1
    /\ UNCHANGED <<loop_count, done, status_no, cmd, terms, bar, latest, writers>>

\* Mutants of NoChild: wait is called again until it returns a child, and it
\* polls (WNOHANG).
NoChildRetries ==
    /\ Goto("wait", "wait")
    /\ Unused = Pids
    /\ UNCHANGED <<i, loop_count, done, status_no, kids, cmd, terms, bar, latest, writers>>
NoChildPolls ==
    /\ Goto("wait", "module")
    /\ i' = i + 1
    /\ UNCHANGED <<loop_count, done, status_no, kids, cmd, terms, bar, latest, writers>>

\* wait() fails with ECHILD.
NoChild ==
    /\ Goto("wait", "module")
    /\ Unused = Pids
    /\ i' = i + 1
    /\ UNCHANGED <<loop_count, done, status_no, kids, cmd, terms, bar, latest, writers>>

\* The end of the for loop.
EndScan ==
    /\ Goto("module", "count")
    /\ i \notin Indices
    /\ UNCHANGED <<i, loop_count, done, status_no, kids, cmd, terms, bar, latest, writers>>

\* Mutants of CountRound: a counter that is wider than its type, and one that
\* stops at its largest value.
CountRoundWider ==
    /\ pc = "count"
    /\ loop_count' = loop_count + 1
    /\ pc' = IF done THEN "check" ELSE "snooze"
    /\ UNCHANGED <<i, done, status_no, kids, cmd, terms, bar, latest, writers>>
CountRoundSaturates ==
    /\ pc = "count"
    /\ loop_count' = IF loop_count = LoopLimit - 1 THEN loop_count ELSE loop_count + 1
    /\ pc' = IF done THEN "check" ELSE "snooze"
    /\ UNCHANGED <<i, done, status_no, kids, cmd, terms, bar, latest, writers>>

\* ++loop_count; if (!done)
CountRound ==
    /\ pc = "count"
    /\ loop_count' = (loop_count + 1) % LoopLimit
    /\ pc' = IF done THEN "check" ELSE "snooze"
    /\ UNCHANGED <<i, done, status_no, kids, cmd, terms, bar, latest, writers>>

\* The rest of the interval is slept, or there is no rest (Pacing).
Snooze ==
    /\ Goto("snooze", "sleeping") \/ Goto("snooze", "check")
    /\ UNCHANGED <<i, loop_count, done, status_no, kids, cmd, terms, bar, latest, writers>>

\* nanosleep has slept its time.
Wake ==
    /\ Goto("sleeping", "check")
    /\ UNCHANGED <<i, loop_count, done, status_no, kids, cmd, terms, bar, latest, writers>>

\* while (!done);
Check ==
    /\ pc = "check"
    /\ pc' = IF done THEN "exited" ELSE "round"
    /\ UNCHANGED <<i, loop_count, done, status_no, kids, cmd, terms, bar, latest, writers>>
-----------------------------------------------------------------------------
(* The environment: child processes and signals.                             *)

\* duskc hands its text to dusk and exits.  A text that another for the same
\* status has overtaken overwrites the newer one.
Deliver(p) ==
    /\ p \in Running /\ kids[p].kind = "duskc"
    /\ kids' = [kids EXCEPT ![p].st = "zombie"]
    /\ bar' = [bar EXCEPT ![kids[p].slot] = kids[p].mod]
    /\ latest' = [latest EXCEPT ![kids[p].slot] =
                     CASE ~kids[p].late                 -> "shown"
                       [] kids[p].late /\ @ = "shown"   -> "overwritten"
                       [] OTHER                         -> @]
    /\ UNCHANGED <<loop, done, terms, writers>>

\* duskc exits without an effect (no dusk is running, or no duskc to execvp),
\* and a command exits.
ChildExit(p) ==
    /\ p \in Running
    /\ kids' = [kids EXCEPT ![p].st = "zombie"]
    /\ latest' = IF kids[p].kind = "duskc" /\ ~kids[p].late
                 THEN [latest EXCEPT ![kids[p].slot] = "lost"] ELSE latest
    /\ writers' = IF p = cmd THEN writers \ {"command"} ELSE writers
    /\ UNCHANGED <<loop, done, terms, bar>>

\* The command that is being read leaves a process in the background that has
\* the pipe open, closes its own standard output, and that process ends, some
\* time or never.
PipeUse ==
    /\ \/ "command" \in writers /\ writers' \in {writers \cup {"background"}, writers \ {"command"}}
       \/ writers' = writers \ {"background"}
    /\ UNCHANGED <<loop, done, kids, terms, bar, latest>>

\* The handler of SIGINT and SIGTERM.  A blocking call the loop is in ends
\* with EINTR: read (which ends the read loop of run_exec), its waitpid, the
\* loop's wait, nanosleep.  The signal may also come just before the call.
Interrupt ==
    \/ Goto("reading", "reaping") /\ writers' = {} /\ UNCHANGED <<i, cmd>>
    \/ Goto("reaping", "format") /\ cmd' = NULL /\ UNCHANGED <<i, writers>>
    \/ Goto("wait", "module") /\ i' = i + 1 /\ UNCHANGED <<cmd, writers>>
    \/ Goto("sleeping", "check") /\ UNCHANGED <<i, cmd, writers>>

SignalTerm ==
    /\ pc \notin Stopped
    /\ terms < MaxTerms
    /\ terms' = terms + 1
    /\ done' = TRUE
    /\ Interrupt \/ UNCHANGED <<pc, i, cmd, writers>>
    /\ UNCHANGED <<loop_count, status_no, kids, bar, latest>>

\* SIGUSR1 restarts every call but nanosleep, which it ends.
SignalUsr1 ==
    /\ Goto("sleeping", "check")
    /\ UNCHANGED <<i, loop_count, done, status_no, kids, cmd, terms, bar, latest, writers>>

-----------------------------------------------------------------------------
Step ==
    \/ BeginRound \/ Crash \/ SkipModule \/ CallBuiltin
    \/ CallRunExec \/ SpawnFails \/ ReadToEnd \/ ReapCommand
    \/ Overlong \/ NullFormat \/ Fork \/ ForkFails \/ Wait \/ NoChild
    \/ EndScan \/ CountRound \/ Snooze \/ Wake \/ Check

Children == \E p \in Pids : Deliver(p) \/ ChildExit(p)

Next == Step \/ BuiltinReturns \/ Children \/ PipeUse \/ SignalTerm \/ SignalUsr1

Spec == Init /\ [][Next]_vars

\* The kernel runs the program whenever it can go on, a sleep ends, and every
\* child exits in the end: duskc talks to dusk and returns, a command is
\* assumed to finish.  Nothing is assumed of a function that is called, nor of
\* a process that a command left behind.
FairSpec == Spec /\ WF_vars(Step) /\ WF_vars(Children)
-----------------------------------------------------------------------------
(* Properties *)

WritersOK == writers \subseteq {"command", "background"}

\* Types, and that run_exec has a child to serve exactly in its blocking calls.
TypeOK ==
    /\ pc \in {"round", "module", "calling", "format", "count", "snooze", "sleeping", "check"}
              \cup Blocking \cup Stopped
    /\ i \in 1 .. Len(modules) + 1
    /\ pc \in {"calling", "format"} \cup Blocking => i \in Indices
    /\ loop_count \in 0 .. LoopLimit - 1
    /\ done \in BOOLEAN
    /\ status_no \in Slots
    /\ kids \in [Pids -> Child]
    /\ \A p \in Running : kids[p].kind = "duskc" => kids[p].mod \in Indices
    /\ cmd \in Pids \cup {NULL}
    /\ pc \in {"reading", "reaping"} => cmd \in Pids /\ kids[cmd].st # "free"
    /\ WritersOK
    /\ terms \in 0 .. MaxTerms
    /\ bar \in [Slots -> Indices \cup {0}]
    /\ latest \in [Slots -> {"none", "sent", "shown", "lost", "overwritten"}]

\* The children never pile up: beyond the one the loop is waiting for, there
\* is at most one for each SIGINT or SIGTERM that ended a wait early (lines
\* 138-145, run_exec.c:53-64), whichever child each wait() happens to take.
ChildBound ==
    Cardinality(Pids \ Unused) <= terms + (IF pc \in Blocking THEN 1 ELSE 0)

\* Two modules of the configuration write to the status s; one without a
\* status_no may write to any.
Writes(m, s) == modules[m].no = NULL \/ Truncate(modules[m].no) = s
Shared(s) == \E m, n \in Indices : m # n /\ Writes(m, s) /\ Writes(n, s)

\* Waiting for each duskc (line 145) keeps the texts of a status in order: an
\* older text overwrites a newer one only during shutdown, and only where
\* two modules share a status.
FreshStatus == \A s \in Slots : latest[s] = "overwritten" => done /\ Shared(s)

\* A status of dusk shows the text of a module that was configured for it
\* (lines 136-141, slstatus.cfg:60), unless it has no status_no or one of more
\* than two digits.
RightSlot ==
    \A s \in Slots : bar[s] # 0 =>
        LET no == modules[bar[s]].no IN no = NULL \/ Len(no) > 2 \/ no = s

\* What the loop waits for without a limit comes: each function that is called
\* returns, and no process in the background holds a pipe for ever.
CallsEnd == []<>(pc # "calling") /\ []<>("background" \notin writers)

\* Entries that the loader accepts and the loop may crash at: lines 126, 130
\* and 136 do not ask.
Faulty(m) == modules[m].every = 0 \/ modules[m].func = "null" \/ modules[m].no = NULL

\* The program has ended: by itself, by die(), or by a crash at such an entry.
Ended == pc \in {"exited", "died"} \/ (pc = "crashed" /\ Faulty(i))

\* A SIGINT or SIGTERM ends the program, from wherever it is (lines 33-38,
\* 145, 150, 162), although done is not looked at inside a round, as long as
\* the calls it is in end; and it ends by a crash only at a faulty entry.
Terminates == CallsEnd => (terms > 0 ~> Ended)

\* The modules that no overlong text can keep from being published: the break
\* of line 134 skips those behind it as well.
Punctual == {m \in Indices : \A k \in 1 .. m : ~modules[k].overlong}

\* Until the program ends, they are called again and again (lines 121-148),
\* also across the wraparound of loop_count, as long as each call ends.
KeepsUpdating == CallsEnd => \A m \in Punctual : []<>((pc = "format" /\ i = m) \/ Ended)

\* The statuses that the texts of each module may go to, and what the running
\* duskcs carry.
Targets == [m \in Indices |-> {s \in Slots : Writes(m, s)}]
Carried == [p \in Pids |-> IF kids[p].st = "running" /\ kids[p].kind = "duskc"
                           THEN [mod |-> kids[p].mod, slot |-> kids[p].slot]
                           ELSE [mod |-> 0, slot |-> <<>>]]

Bar == INSTANCE StatusBar WITH
    Carriers <- Pids, shown <- bar, onWay <- Carried, stopping <- done, stopped <- pc \in Stopped

\* The loop is a status bar as StatusBar specifies it: it carries one text at a
\* time, each to a status of its module, although forks and waits fail, a wait
\* may take another child, and status_no is one buffer (lines 125-146).
Implements == Bar!Spec

\* Its calls of run_exec are those that RunExec implements.
RunExecCall == INSTANCE CommandCall WITH
    at <- IF pc \in {"reading", "reaping", "died"} THEN pc ELSE "out",
    child <- IF pc \in {"reading", "reaping"} THEN kids[cmd].st ELSE "none",
    signals <- terms

=============================================================================
