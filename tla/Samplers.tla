------------------------------ MODULE Samplers ------------------------------
(* The components that show how far a counter of the kernel has moved since  *)
(* they read it last: netspeed_rx and netspeed_tx (netspeeds.c) and cpu_perc *)
(* (cpu.c), and on Linux io_in, io_out and io_perc (iocheck.c).  What was    *)
(* read last is one static variable per function, whichever modules of the   *)
(* configuration call it, with whatever argument.  The main loop calls the   *)
(* modules round by round; the counters move, and go back, at any time.      *)
EXTENDS CInts, Sequences, FiniteSets, Functions

CONSTANTS
    Ifaces, Devices,    \* network interfaces, block devices
    Configurations,     \* sequences of entries
    Intervals,          \* values of interval
    MsPerSec, Kilo, W,  \* 1000, 1024, and the number of values of uintmax_t
    LoopLimit,          \* number of values of loop_count
    MaxCount,           \* bound on the counters
    NULL

Rates == {"netspeed_rx", "netspeed_tx"}
Bytes == {"io_in", "io_out"}
Entry == [func : Rates, arg : Ifaces, every : Nat \ {0}]
         \cup [func : Bytes \cup {"io_perc", "cpu_perc"}, arg : {NULL}, every : Nat \ {0}]

ASSUME ConfigurationsAssumption == Configurations \subseteq Seq(Entry)
ASSUME IntervalsAssumption == Intervals \subseteq Nat
ASSUME WidthAssumption == {MsPerSec, Kilo, W, LoopLimit} \subseteq Nat \ {0} /\ MaxCount \in Nat
ASSUME DevicesAssumption == IsFiniteSet(Devices)
\* No product leaves uintmax_t: below 2^64, so many bytes are not transferred.
ASSUME ProductAssumption ==
    /\ MaxCount * MsPerSec < W /\ MaxCount * Kilo < W
    /\ 100 * (MaxCount * Cardinality(Devices)) < W /\ 300 * MaxCount < W

VARIABLES
    os,                 \* what slstatus is compiled for
    modules, interval,  \* the configuration
    loop_count, i,      \* the round, and the module in it
    counter,            \* the kernel's counters
    static,             \* what each function keeps: rxbytes, txbytes, newin, newout, newwait
    a,                  \* what cpu_perc keeps
    result, who,        \* the last answer, and the module that gave it
    mine,               \* ghost: what each module itself read last, NULL if one of
                        \* its counters went back since or its last call failed
    truth               \* ghost: how far the counters of who moved between its last
                        \* two calls, NULL if that is not known

ghosts == <<mine, truth>>
vars == <<os, modules, interval, loop_count, i, counter, static, a, result, who, ghosts>>

-----------------------------------------------------------------------------
\* A counter is that of an interface, of a device, or of the whole system.
Counters == ({"rx_bytes", "tx_bytes"} \X Ifaces) \cup ({"io_ticks"} \X Devices)
            \cup {<<"pgpgin", NULL>>, <<"pgpgout", NULL>>}
            \cup ({"user", "system", "idle"} \X {NULL})

Reads(e) ==
    CASE e.func = "netspeed_rx" -> {<<"rx_bytes", e.arg>>}
      [] e.func = "netspeed_tx" -> {<<"tx_bytes", e.arg>>}
      [] e.func = "io_in"       -> {<<"pgpgin", NULL>>}
      [] e.func = "io_out"      -> {<<"pgpgout", NULL>>}
      [] e.func = "io_perc"     -> {"io_ticks"} \X Devices
      [] e.func = "cpu_perc"    -> {"user", "system", "idle"} \X {NULL}

Indices == 1 .. Len(modules)
Source(e) == CHOOSE c \in Reads(e) : TRUE    \* of a function that reads one counter
Minus(new, old) == (new - old) % W           \* of uintmax_t

Idle == <<"idle", NULL>>

Init ==
    /\ os \in {"linux", "openbsd", "freebsd"}
    /\ modules \in Configurations /\ interval \in Intervals
    /\ os # "linux" => \A m \in Indices : modules[m].func \in Rates \cup {"cpu_perc"}
    /\ loop_count = 0 /\ i = 1
    /\ counter = [c \in Counters |-> 0]
    /\ static = [f \in Rates \cup Bytes \cup {"io_perc"} |-> 0]
    /\ a = [c \in Counters |-> 0]
    /\ result = NULL /\ who = 0
    /\ mine = [m \in Indices |-> NULL] /\ truth = NULL

-----------------------------------------------------------------------------
(* A round of the main loop                                                  *)

Calls(f) ==
    /\ i \in Indices /\ modules[i].func = f
    /\ loop_count % modules[i].every = 0

\* The module at i answers, and the loop goes on to the next.
Answer(val) ==
    /\ result' = val /\ who' = i /\ i' = i + 1
    /\ UNCHANGED <<os, modules, interval, loop_count, counter>>

\* The ghosts of a call that has read the counters of its module.
Noted ==
    LET now == [c \in Reads(modules[i]) |-> counter[c]]
    IN  /\ mine' = [mine EXCEPT ![i] = now]
        /\ truth' = IF mine[i] = NULL THEN NULL ELSE [c \in DOMAIN now |-> now[c] - mine[i][c]]
NotNoted == mine' = [mine EXCEPT ![i] = NULL] /\ truth' = NULL

\* pscanf, fopen, opendir, getifaddrs or sysctl fails: no value, and what was
\* kept stays.  After an error of getline get_io does not close its file, and
\* keeps the descriptor for good (iocheck.c:52-55): files are not modelled.
ReadFails ==
    /\ \E f \in Rates \cup Bytes \cup {"io_perc", "cpu_perc"} : Calls(f)
    /\ Answer(NULL)
    /\ NotNoted
    /\ UNCHANGED <<static, a>>

\* (rxbytes - oldrxbytes) * 1000 / interval
Rate(new, old) == (Minus(new, old) * MsPerSec % W) \div interval

\* Mutant of netspeed: both directions keep their reading in rxbytes.
netspeedOneVariable(f) ==
    LET old == static["netspeed_rx"]
    IN  /\ Calls(f)
        /\ old = 0 \/ interval # 0
        /\ static' = [static EXCEPT !["netspeed_rx"] = counter[Source(modules[i])]]
        /\ Answer(IF old = 0 THEN NULL ELSE Rate(static'["netspeed_rx"], old))
        /\ Noted
        /\ UNCHANGED a

netspeed(f) ==
    /\ os = "linux" /\ Calls(f)
    /\ static[f] = 0 \/ interval # 0
    /\ static' = [static EXCEPT ![f] = counter[Source(modules[i])]]
    /\ Answer(IF static[f] = 0 THEN NULL ELSE Rate(static'[f], static[f]))
    /\ Noted
    /\ UNCHANGED a

\* The counters of all entries of the interface are added up from 0, which
\* stays if there is none.
netspeed_bsd(f) ==
    /\ os # "linux" /\ Calls(f)
    /\ \E if_ok \in BOOLEAN :
          /\ if_ok /\ static[f] # 0 => interval # 0
          /\ static' = [static EXCEPT ![f] = IF if_ok THEN counter[Source(modules[i])] ELSE 0]
          /\ Answer(IF ~if_ok \/ static[f] = 0 THEN NULL ELSE Rate(static'[f], static[f]))
          /\ IF if_ok THEN Noted ELSE NotNoted
    /\ UNCHANGED a

\* Mutant of Crash: every division ends the program.
CrashAlways ==
    /\ \E f \in Rates : Calls(f) /\ static[f] # 0
    /\ i' = 0
    /\ UNCHANGED <<os, modules, interval, loop_count, counter, static, a, result, who, ghosts>>

\* An interval of 0, which conf.c:69 accepts, divides.
Crash ==
    /\ \E f \in Rates : Calls(f) /\ static[f] # 0
    /\ interval = 0 /\ i' = 0
    /\ UNCHANGED <<os, modules, interval, loop_count, counter, static, a, result, who, ghosts>>

\* (newin - oldin) * 1024: of kilobytes, and not per second.
io(f) ==
    /\ Calls(f)
    /\ static' = [static EXCEPT ![f] = counter[Source(modules[i])]]
    /\ Answer(IF static[f] = 0 THEN NULL ELSE Minus(static'[f], static[f]) * Kilo % W)
    /\ Noted
    /\ UNCHANGED a

\* Mutant of Percent: a sum that has gone down is not noticed.
PercentWraps(new, old) == IF old = 0 THEN NULL ELSE 100 * (new - old) % W

\* 100 * (newwait - oldwait), which is then divided by interval as a float.
Percent(new, old) == IF old = 0 \/ new < old THEN NULL ELSE 100 * (new - old) % W

\* The devices that are there and can be read are added up.
io_perc ==
    /\ Calls("io_perc")
    /\ \E found \in SUBSET Reads(modules[i]) :
          LET newwait == SumFunctionOnSet(counter, found)
          IN  /\ static' = [static EXCEPT !["io_perc"] = newwait]
              /\ Answer(Percent(newwait, static["io_perc"]))
              /\ IF found = Reads(modules[i]) THEN Noted ELSE NotNoted
    /\ UNCHANGED a

\* What counts as work: all but idle, and iowait on Linux.
Busy(fields) == fields[<<"user", NULL>>] + fields[<<"system", NULL>>]

\* Mutant of Whole: one is missing in the sum.
WholeTwo(fields) == fields[<<"user", NULL>>] + fields[Idle]

Whole(fields) == Busy(fields) + fields[Idle]

\* Both sums are taken of what is kept, which the new reading then replaces.
Sample(Share(_, _)) ==
    /\ Calls("cpu_perc")
    /\ a' = [c \in Counters |-> IF c \in Reads(modules[i]) THEN counter[c] ELSE 0]
    /\ LET moved == [c \in Reads(modules[i]) |-> a'[c] - a[c]]
       IN  Answer(IF a[<<"user", NULL>>] = 0 \/ Whole(moved) = 0 THEN NULL
                  ELSE Share(Busy(moved), Whole(moved)))
    /\ Noted
    /\ UNCHANGED static

\* Of long doubles, cut to an int; of uintmax_t; and of long.
cpu_perc == os = "linux" /\ Sample(LAMBDA busy, sum : Quotient(100 * busy, sum))
cpu_perc_openbsd ==
    os = "openbsd" /\ Sample(LAMBDA busy, sum : Unsigned(100 * Unsigned(busy, W), W) \div Unsigned(sum, W))
cpu_perc_freebsd == os = "freebsd" /\ Sample(LAMBDA busy, sum : Quotient(100 * busy, sum))

SkipModule ==
    /\ i \in Indices /\ loop_count % modules[i].every # 0
    /\ i' = i + 1
    /\ UNCHANGED <<os, modules, interval, loop_count, counter, static, a, result, who, ghosts>>

EndRound ==
    /\ i = Len(modules) + 1
    /\ i' = 1 /\ loop_count' = (loop_count + 1) % LoopLimit
    /\ UNCHANGED <<os, modules, interval, counter, static, a, result, who, ghosts>>

-----------------------------------------------------------------------------
(* The kernel                                                                *)

\* The counters that the configuration reads; the others do not matter.
Watched == UNION {Reads(modules[m]) : m \in Indices}

Grow(c) ==
    /\ counter[c] < MaxCount
    /\ counter' = [counter EXCEPT ![c] = @ + 1]
    /\ UNCHANGED <<os, modules, interval, loop_count, i, static, a, result, who, ghosts>>

\* An interface or a device is replaced by another, and Linux's iowait may sink.
GoBack(c) ==
    /\ c[1] \in {"rx_bytes", "tx_bytes", "io_ticks", "idle"} /\ counter[c] > 0
    /\ c = Idle => os = "linux"
    /\ counter' = [counter EXCEPT ![c] = IF c = Idle THEN @ - 1 ELSE 0]
    /\ mine' = [m \in Indices |-> IF c \in Reads(modules[m]) THEN NULL ELSE mine[m]]
    /\ truth' = NULL
    /\ UNCHANGED <<os, modules, interval, loop_count, i, static, a, result, who>>

Next ==
    \/ ReadFails \/ Crash \/ io_perc \/ SkipModule \/ EndRound
    \/ cpu_perc \/ cpu_perc_openbsd \/ cpu_perc_freebsd
    \/ \E f \in Rates : netspeed(f) \/ netspeed_bsd(f)
    \/ \E f \in Bytes : io(f)
    \/ \E c \in Watched : Grow(c) \/ GoBack(c)

Spec == Init /\ [][Next]_vars
-----------------------------------------------------------------------------
(* Properties *)

\* Types; what a function keeps and answers is within uintmax_t.
TypeOK ==
    /\ i \in 0 .. Len(modules) + 1 /\ who \in {0} \cup Indices
    /\ loop_count \in 0 .. LoopLimit - 1
    /\ counter \in [Counters -> 0 .. MaxCount]
    /\ \A f \in DOMAIN static : static[f] \in 0 .. W - 1
    /\ (who # 0 /\ modules[who].func # "cpu_perc") => result \in 0 .. W - 1 \cup {NULL}
    /\ i = 0 => interval = 0

\* No other module keeps its readings in the same static variable.
Alone(m) == \A n \in Indices \ {m} : modules[n].func # modules[m].func

Known(funcs) == who # 0 /\ truth # NULL /\ modules[who].func \in funcs

\* How far its counters moved, added up; if the old value was 0, it is taken
\* for no value.
Moved == IF modules[who].func = "io_perc" THEN SumFunction(truth) ELSE truth[Source(modules[who])]
First == static[modules[who].func] = Moved

\* A module that is the only one of its function shows how far its own counter
\* has moved between its last two calls (netspeeds.c:18-33, 66-94; iocheck.c:
\* 67-76, 85-94), one call after a failure or a counter that went back at the
\* latest.  The speed is right if the module is called in every round.  Nothing
\* is said of modules that share a variable, which show each other's counters.
OwnTraffic ==
    (Known(Rates \cup Bytes) /\ Alone(who)
        /\ (modules[who].func \in Rates => modules[who].every = 1)) =>
    result = CASE First -> NULL
               [] ~First /\ modules[who].func \in Rates -> (Moved * MsPerSec) \div interval
               [] ~First /\ modules[who].func \in Bytes -> Moved * Kilo

\* No more than the time that was added up in this call, whatever was before.
NoWrap ==
    who # 0 /\ modules[who].func = "io_perc" /\ result # NULL => result <= 100 * static["io_perc"]

\* The same for the time that all devices were busy, if all of them were found
\* by two calls (iocheck.c:106-149).  And where a device is missing and comes
\* back, whose whole time is then taken for new, or the variable is shared, the
\* difference never wraps (line 144).
BusyTime ==
    /\ Known({"io_perc"}) /\ Alone(who) => result = IF First THEN NULL ELSE 100 * Moved
    /\ NoWrap

\* cpu_perc shows a percentage, however many modules share a[7] and whenever
\* they are called, unless iowait has gone back (cpu.c:30-48, 88-106, 137-155).
PercRange == Known({"cpu_perc"}) => result \in 0 .. 100 \cup {NULL}
=============================================================================
