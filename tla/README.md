# A verification of slstatus-for-dusk

slstatus collects texts (time, network speed, the song that plays, the output
of a command ...) and hands each of them to a numbered status of the window
manager dusk, by running
`duskc --ignore-reply run_command setstatus <no> <text>`.  This
directory holds TLA+ modules for the parts of it that have state, TLC
configurations that check them on small instances, and proofs, checked by TLAPS,
that hold for every value of the constants.

File and line numbers are those of `src/`.

## 1. The system

One process, one thread.  `main` (slstatus.c) loads a configuration (conf.c, over
libconfig), takes a lock file, reads its arguments, and then runs rounds: each
round calls the module functions that are due, one after another, formats what
they return and starts a `duskc` with it, waits for that, and sleeps for what is
left of `interval`.  SIGINT and SIGTERM set `done`; SIGUSR1 has an empty handler.

| part | state it keeps | operations |
|---|---|---|
| main loop, slstatus.c:49-175 | `loop_count`, `done`, the buffers `status` and `status_no`, its child processes | a round: skip or call each module, format, `fork`/`execvp` duskc, `wait`; signals; cleanup |
| pacing, slstatus.c:40-45, 121-162 | `start`, `current`, `snooze` | `clock_gettime`, `difftimespec`, `nanosleep` |
| instance lock, slstatus.c:77-112, 164-172 | the file `/tmp/.<user>.slstatus.<display>.lock`, its `fcntl` lock | open, lock, refuse, parse arguments, unlock, close, unlink |
| configuration, conf.c | `modules`, `num_modules`, `interval`, `unknown_string`, the mpd settings | load, fall back to config.def.h, clean up |
| run_exec, run_command | the global `buf[1024]`; a pipe and a child during a call | start a command, read its output, wait for it |
| mpdonair, mpd.c | static: connection, `scroll_idx`, `artist_idx`, `title_idx`, `prev_title`, `prev_artist` | connect, ask, format, scroll |
| wifi, wifi.c (Linux) | static: the netlink socket `nlsock`, `id` of nl80211, `seq`, `resp` | ask for the family, the ESSID, the stations |
| netspeeds.c, iocheck.c, cpu.c | static: the counters as last read | read, subtract, format |
| volume.c (sndio) | static: the sound server connection and its list of controls | open, poll, callbacks, close |
| ram.c, swap.c, battery.c, backlight.c, temperature.c, keymap.c, keyboard_indicators.c, disk.c, num_files.c, ip.c, wifi.c on the BSDs, volume.c with ALSA or OSS | none | one or several system calls per call, and what is computed from them |
| names, time, load, cat | none | one reading per call, shown as it is |
| util.c | none (writes `buf`) | `bprintf`, `esnprintf`, `fmt_human`, `pscanf`, `lscanf`, `strlcpy`, `strlcat` |

How they interact:

- The main loop calls the functions one at a time.  All of them return pointers
  into the one `buf` (or into static buffers), so a text lives until the next call;
  the loop copies it into `status` at once.
- Static variables of a function outlive its call and are shared by all modules of
  the configuration that name the function.
- `run_exec` and the loop both have child processes: `waitpid` of the former
  names its child, `wait` of the latter takes any.
- A signal can end a blocking call (`read`, `waitpid`, `wait`, `recv`,
  `nanosleep`) at any point; a handler without SA_RESTART (SIGINT, SIGTERM) ends all of
  them, SIGUSR1 with SA_RESTART only `nanosleep`.
- Several slstatus processes meet in the lock file.
- Outside: duskc and dusk, the music player, nl80211 in the kernel, the commands of
  the configuration.  They come and go on their own.

### What is hard here

There is no locking to get wrong within the process; what is hard is the
interleaving with children, signals and other processes (which child does
`wait` take? does a signal before `nanosleep` get lost? who has the lock file
open when it is unlinked?), state that survives from call to call and is
read as if it belonged to this call (`buf`, indexes, counters, the family number, the netlink
socket), numbers at their limits (`loop_count`, the timespec borrow, a negative
index, unsigned differences, `%` by 0), and calls that may not return
(`recv`, `read`, `waitpid`).  A function that keeps nothing has its hazards too:
what it puts together of several system calls may never have been true at once, the
product may not fit its type, and an error may go unnoticed.  `PROJECT.json` lists each hazard at its line, with
the properties that would notice it.  For those that no property covers, mostly because the code does go
wrong there and the properties exempt the case by name, it says so.

### What makes each part correct

- Main loop: children do not pile up; the texts for a status arrive in the order they were
  made; each text goes to the status its module names; a module is called
  every `update_interval` rounds, also where `loop_count` wraps; a signal ends
  the program from anywhere.
- Pacing: `nanosleep` gets a valid time, the rest of the interval exactly;
  rounds do not run in quick succession after an overrun.
- Lock: one instance; no stale lock after a crash; every start that gets to the lock runs or says why not.
- run_exec: the call returns; its child is waited for; the text is that of
  this command; nothing behind `buf` is written.
- mpd: the window shown is the right part of the text; a song scrolls smoothly and starts
  at its beginning; a restarted player is found again.
- wifi: an answer belongs to its request; each call returns.
- Counters: a module shows how far its own counter moved.
- Volume: the list of controls is what the server has, and comes back with the server.
- The functions that keep nothing: what is shown was true at some moment of the call.
- Configuration: there is something to show, whatever is in the file.

## 2. The modules

| module | models | checked by | proved in |
|---|---|---|---|
| `Timespec` | `difftimespec`, the interval as a timespec | run pacing | `MainProofs` |
| `Pacing` | clock, `nanosleep`, interruption | run pacing | `MainProofs` |
| `Slstatus` | the main loop, its children, signals | run loop | `SlstatusProofs` |
| `SlstatusHistory` | `Slstatus` with what an observer remembers | run loop | `SlstatusProofs` |
| `StatusBar` | abstract: what the loop is for | run loop (`Implements`) | `SlstatusProofs` |
| `InstanceLock` | lock file, arguments, several processes, kills | runs lock, lock_unlink | `MainProofs` |
| `RunExec` | one call of `run_exec` after another, pipe, command, what it leaves behind | run exec | `RunExecProofs` |
| `CommandCall` | abstract: what the loop takes a call of `run_exec` for | run exec (`ImplementsCall`) | `RunExecProofs`, `SlstatusProofs` |
| `ScrollText` | `scroll_text` of mpd.c, step by step | run mpd | `MpdProofs` |
| `Mpd` | `mpdonair`; extends `ScrollText`, whose steps it interleaves | runs mpd, mpd_reset | `MpdProofs` |
| `Wifi` | `wifi_essid`, `wifi_perc`, `nl80211fam` of Linux, the kernel | runs wifi, wifi_hang | `WifiProofs` |
| `Samplers` | `netspeed_*`, `cpu_perc` on all systems, `io_*` | run samplers | `SamplersProofs` |
| `Volume` | `vol_perc` with sndio, the sound server | run volume | `VolumeProofs` |
| `Meters` | a call of a function that keeps nothing, system call by system call | run meters | `MetersProofs` |
| `Memory`, `Power`, `Desktop`, `Network` | what those functions ask for and compute; no state | run meters | `MetersProofs` |
| `CInts` | C's integers: widths, division, overflow | runs samplers, meters | - |
| `Config` | the configuration loader, as operators | run loop, whose modules it loads | `MainProofs` |

The `MC...` modules only give constants their values.  `MCSlstatus` gets its modules by
loading a small settings file with `Config`: what stands in `modules` of the loop is what
`load_config` leaves there.

**Timespec, Pacing.**  A time is a record `[sec, nsec]` as in C.  `at` follows lines
121-162: `begin` (line 121), `round` (the modules run), `nanosleep`, `asleep`.  The
clock `now` may advance before every step, so also between the second reading and the call
of `nanosleep`.  The specification is `PSpec`, its types `PTypeOK`: it is proved about beside `InstanceLock`, which has
the plain names.  `Measure` computes both differences with
`difftimespec` and decides whether there is anything to sleep; `Nanosleep` refuses what the
kernel refuses, which would end the program through `die`.

**Slstatus.**  `pc` names the place in the loop; every action is one stretch of it
up to the next point where a signal or a child can matter.  A module is reduced to
`func` (answers by itself, is `run_exec`, or is the null pointer of an entry without a
function), `every` (update_interval), `no` (status_no, a sequence of digits or NULL)
and `overlong`.  `kids` is the process table: commands of `run_exec` and duskcs, which run,
become zombies and are taken by `Wait` or `ReapCommand`.  `bar` is what dusk shows, `latest`
what became of the last text for each status.  A function that answers by itself is called
(`CallBuiltin`) and may return (`BuiltinReturns`), some time or never; run_exec reads (`ReadToEnd`) until `writers` is empty, in which
the command is, and what it leaves in the background as long as that runs (`PipeUse`).  `Truncate` is what `esnprintf` into
`status_no[3]` does.  Undefined behaviour is a choice: `status_no` formatted
from a null pointer keeps its old value, becomes empty, or crashes the program.  SIGINT and SIGTERM
(`SignalTerm`) set `done` and end the blocking call the loop is in, or come just
before it and do not.

**SlstatusHistory** adds, per module of `Observed`, `since` (rounds since a duskc was started for it), `turn` (rounds since its last
turn) and `missed` (whether that turn came to nothing: a failed fork, or an overlong text in front of it), and changes nothing else.

**StatusBar** says what the loop is for: each status shows a text of a module that was configured for it, and
one text at a time is on its way until the program is told to stop.  `Implements` in `Slstatus` is its
specification under a refinement mapping: `bar` is what is shown, a running duskc is a
carrier, `done` is the request to stop.  Forks that fail, waits that take the wrong child, cut numbers and
the shared `status_no` must all come down to these five actions.

**CommandCall** stands between the loop and `RunExec`: a child is started, read, waited for, and left
behind only if a signal ends `waitpid`.  `RunExec` implements it (`ImplementsCall`), and the loop's
actions `CallRunExec`, `ReadToEnd`, `ReapCommand` are calls of it (`CallsRunExec`, proved).  That composes
the two: what the loop relies on is what `run_exec` does.

**InstanceLock.**  A process slot goes through `start`, `prepared` (`load_config` and the `run_command` of line 70, which may hang),
`opened`, `args`, `running`, `unlocked`, `closed`, and ends in one of six ways.  `path` is the file the name
refers to, which is another one after an unlink and an open; the
lock belongs to the file, not to the name, as fcntl locks do.  `Kill` strikes anywhere.

**RunExec.**  The parent follows run_exec.c:27-79, the command writes pieces of its
output, closes its standard output and exits.  Every `read` fills `buf` from its first byte
and ends no string: what was in `buf` stays behind what is read.  If reads have left no zero in it, `strrchr` and who shows the text go on in what stands
`Behind` it, up to the first zero, and the cut may hit a line break there (`Return`; the ghosts `filled` and `overrun` remember
that a read filled `buf`, and that something behind it was written).  The command inherits the write end twice, and
may leave a process in the background that has it open (`held`), for some time or for ever.  `run_command` is
there as the operator that says what `popen` and `fgets` would have returned.

**ScrollText.**  A text is a sequence of characters.  `Call` is lines 67-101 of mpd.c (which separator,
the index reduced with C's `%`), `Copy`, `Swap` and `Finish` the loop of lines 102-121.
`Window` is the reference: the window on the endless repetition of text and separator,
stated with the modulo of mathematics.

**Mpd.**  `Connect`, `NoAnswer`, `Stopped`, `Receive` are the beginning of `mpdonair`;
`Plain`, `ScrollTag`, `TagScrolled` one character of the format; `ScrollAll` and
`Return` its end.  The server goes down and comes up while a call has not asked it yet.
The indexes are ints that wrap at `IntMax`.  `Changed` is `strncmp`/`strncpy` with a tag
that fills `prev_title`.

**Wifi.**  `nlsock` is the sequence of datagrams the kernel has queued: it answers within `send`.
The kernel loads and unloads nl80211, each time with another number, and the interface roams.
A `socket()` that fails leaves `nlsock` at -1, so that the request after it fails as well; a `send()` that fails keeps the socket
(`SocketFails`, `SendFails`, `opened`).
`FamilyReceived` has the endless loop of `findattr` on an error message as the state `spin`.

**Samplers.**  `os` is the system slstatus is compiled for.  `static` is what each function keeps between calls (`rxbytes`, `txbytes`,
`newin`, `newout`, `newwait`) and `a` what `cpu_perc` keeps.  A configuration is chosen at the start; the
loop goes over it round by round.  Counters grow between any two calls,
interfaces and devices are replaced (back to 0), iowait sinks, readings fail.  Arithmetic is modulo
`W`, the number of values of `uintmax_t`.

**Meters, Memory, Power, Desktop, Network.**  A call is a sequence of system calls (`Reads`), each of which tells
some values by name; between them the `world` may change by one fact (`Move`), and each may fail.  What the call
returns is made of `got`.  The four modules without state say for each function and system which values it
asks for (`*_reads`), what it makes of them (`ram_linux`, `battery_freebsd` ...), and, as
references, what is to be shown in a world (`*_truth`) and in which worlds the function is
known not to show it (`*_gap`, see section 5).  Values are numbers as `fmt_human` or `%d` gets them.  An error that the function
does not look at is `ReadFailsUnheard`: the call goes on with nothing in the place of the answer, to its end.  What `up` reads of
the list after it has freed it is any answer.

**CInts.**  Unsigned and signed integers of a width, C's division, and the overflow of an int, which is undefined and
so a choice of what the build can produce.

**Volume.**  `server` is what sndio has at each address; it tells a connected client of every change through
`queue`, which `sioctl_revents` reads to its end.  `ondesc` and `onval` are the
call-backs, one message each; `Open` to `Initialize` is `init`, whose failures end in `Cleanup`.
`scarce` says that `malloc` and `calloc` may fail; `lost` remembers the controls that then are not in
the list.

**Config.**  `get_config_path` finds the file; a settings file is a record of typed settings.  The lookups are those of conf.c with what libconfig does
with a value of another type: an int that is no int reads as 0, a string that is no
string is not found.  `load_config` goes from a file to the configuration, with
config.def.h in the gaps, or to a crash where the warning of conf.c:230 prints a pointer that was never set (`prints_unset`); it is
the set of these outcomes.  There is no state to it, and so no run of its own.

## 3. The runs

Runs that must pass:

| run | question | bounds | why they are enough |
|---|---|---|---|
| pacing | Is the sleep always valid and right, and the period kept? | seconds of 4 units, interval of 3, clock to 3 s | every combination of borrows, rounds shorter, equal and longer than the interval; the theorems need no bound |
| loop | Children, order of texts, right status, no module late, termination, and that it is a `StatusBar` | 6 entries of all kinds, two on one status; `loop_count` of 4 values, 3 process ids, 2 signals; the history of 3 entries: the one with a period of 3, the one that may be overlong, and the one behind it | the wraparound at 4 is not a multiple of 3, so a period of 3 is broken by it as 2^32 breaks it; two signals can end two waits, and the third id keeps `fork` possible then |
| lock | No stale lock, exclusion but for the race, every start answered | 2 processes, 3 files | two processes meet in every order; a slot is reused, so any number of processes take part one after another; three files since a new one must differ from two open ones |
| exec | Does the call return, is it what the loop takes it for, is one line returned as it is? | `buf` of 3 bytes, pipe of 4, 6 outputs, 2 signals per call, one process left behind, none, a character or a line break behind `buf` | outputs shorter and longer than buffer and pipe, with and without line break; what a call leaves in `buf` meets the next, and a full one what stands behind |
| mpd | Window, smooth scrolling, start of a song, reconnection | int of -4..3, titles of up to 2 characters, window of 2, `prev_title` of 2 | texts that fit, do not fit, fill `prev_title`; every overflow of the index |
| wifi | Does an answer belong to its request, does each call return? | 2 networks, one below -100 dBm, 2 loads of nl80211 | the second load gives a number that differs from the one kept |
| samplers | Does a module show its own counter's movement? | three systems, counters to 3, `loop_count` of 2, intervals 0 and 3, 6 configurations | alone, with the other direction, with another interface, twice; failures and counters going back in every order |
| volume | Does the list follow the server, and does it come back? | 2 addresses, 6 controls, 3 events (changes, stop, restart, shortage of memory) | two levels, or a level and a mute switch, which is what the order of the list could matter to; a stop, a restart with other controls and a change take three events |
| meters | Was what is shown true at a moment of the call? | 2 changes during a call, an int of 10 bits, and per function a small world: 2 or 11 pages, 2 swap devices, 6 sets of battery files, 2 access points ... (`MCMeters`) | one change is enough to tear two readings apart, two to tear them apart and change back; every product fits its type in some worlds and not in others |

Runs that must find a violation, each of something the repository says of itself:

| run | what is said | what happens |
|---|---|---|
| lock_unlink | "prevents multiple instances" (slstatus.c:77) | the lock is released before the file is unlinked; who opened the file in between locks a file without a name, and the next one creates another |
| mpd_reset | "scroll index resets when a new song is played" (mpd.c:188) | `artist_idx` and `title_idx` are never reset, and a missing tag is not compared |
| wifi_hang | "text to show if no value can be retrieved" (slstatus.cfg:28) | without nl80211 the error message is searched for an attribute for ever |

Deadlock is not checked (`CHECK_DEADLOCK FALSE`) where the program ends or can die or hang:
loop, lock, exec, samplers, meters and pacing reach states in which it has stopped (in meters by a division by 0); wifi spins.
The mpd and volume runs do check it.

### Properties

- `ChildBound`: at most one child beyond the number of signals that ended a wait.  `wait`
  may take the wrong child after a signal; the bound says that this does not add up.
- `FreshStatus`: an older text overwrites a newer one only during shutdown and only
  where two modules share a status.
- `RightSlot`: no text appears in a status it was not configured for, although
  `status_no` is one buffer for all; but for a missing status_no and one of three
  digits or more, which is cut.
- `OnTime`: a module has its turn within every `update_interval` rounds, also behind an overlong text and where forks fail; and if no
  duskc was started for it for longer than that, then only because its last turn came to nothing in one of these two ways.
- `Terminates`, `KeepsUpdating`: a signal ends the program, and without one the modules are called for ever (those that no overlong
  text in front of them can skip, by the `break` of line 134).  Both have the premise `CallsEnd`: each function that is
  called returns, and no process in the background keeps a pipe open for ever.  A crash counts as an end only at
  an entry that the loader should have refused (`Faulty`: no function, no status_no, an `update_interval` of 0).
- `SleepsTheRest`, `KeepsPeriod`, `NeverDies`: in section 1.
- `NoStaleLock`, `ExclusiveUnlessRaced`, `Answered`: in section 1; `Answered` is of a process that is `prepared`, since the command before the
  lock may hang; `raced` is the only gap, and `MutualExclusion` without it is false (lock_unlink).
- `SingleLine`: what `run_exec` returns is what `run_command` would return, for an output of
  one line in one read, as long as no line break is left in `buf` behind it, and a zero is that ends the string.  Outputs without
  a line break or in several reads do not come out right: nothing ends the
  string, and every read starts at the beginning of `buf`.
- `StaysInside`: no call writes behind `buf`, as long as no output has filled it to its last byte, in this call or an earlier one.  After
  that one may (section 5).
- `ImplementsCall`, `Returns`: a call is what `CommandCall` says, and it returns also if a signal ends the read of
  a command that still writes, unless a process in the background keeps the pipe open for ever.
- `Implements`: the loop is a `StatusBar`.
- `WindowShown`, `Smooth`, `FromStart`, `Reconnects`: in section 1, with their exceptions
  (int overflow; a tag that fills `prev_title`; formats `A` and `T`; missing tags).
- `Fresh`: no sequence number is ever compared, and yet what is returned is a network the
  interface had during this call: every answer is taken out of the socket, also by a dump.
- `Answers`: each call returns while nl80211 stays loaded, its number is not out of date, and a request is not sent without one.
  `AlwaysAnswers` is the same of a kernel without nl80211 (wifi_hang).
- `OwnTraffic`, `BusyTime`: the shown difference is that of the module's own two last readings, if it has its function for itself and
  nothing was reset or missing; and that of `io_perc` never wraps, whatever was missing (`NoWrap`, iocheck.c:144).
- `Mirrors`, `VolumeShown`, `CatchesUp`: once all messages are read the list holds each control once and as it is;
  the shown volume is that of the list in any order; and after the server was away it is right again.
- `OneMoment`: what a function returns is right for the world at some moment of the call.  A function that asks once for
  all it needs must always hold to that; one that puts several answers together only if no more than one of
  them changes meanwhile (`Steady`), which is as much as it can promise.  A call with an error that the function does not look at, and worlds in a gap, are
  exempt.  `swap_perc` on Linux is the interesting one:
  it takes three values from one pass over /proc/meminfo, where `ram_perc` rewinds it for each key.
- `RamWithin`: how wrong `ram_used` and `ram_perc` can be while memory moves during the six readings: by no more pages
  than have moved, unless that is more than are in use, and the unsigned difference wraps.
- `PercRange`: a percentage stays one, although several modules share `a[7]`.

### Fairness

Weak fairness of the program's own steps, and nothing else of the program: the kernel
runs a process that can run.  A step that waits for something (a child, the end of a pipe, a datagram) is not enabled until
that has happened, so fairness does not promise it; neither does it promise that a function the loop calls returns
(`BuiltinReturns`), nor the command before the lock (`Prepare`).  What is assumed of the environment:

- `Slstatus`: `WF(Children)`: duskc returns and a command finishes.  A duskc that hangs hangs
  the loop, in the code as well.  What a command left in the background ends some time or never (`PipeUse`).
- `RunExec`: `WF(Command)`: the command prints what it has to print and exits.  Nothing is assumed of a process that it
  leaves in the background; `Returns` has it as its premise that none holds the pipe open for ever.
- `InstanceLock`: `WF` of what a process does by itself once it is prepared; when it is told to stop, killed or
  started is open.
- `Mpd`, `Wifi`, `Volume`: the loop calls the functions again and again.  The server and the kernel promise nothing:
  `Reconnects` and `CatchesUp` assume a server that stays up, the latter also that memory is not short and none of the controls lost by it.
- `Meters`, `Samplers` and `Pacing` have safety properties only.
- Signals are never fair: none need arrive, and their number is bounded by a constant.

## 4. What is proved

TLAPS checks the following for every value of the constants that satisfies the named
assumptions of the modules.

The seven modules of proofs that belong to one component are named after it; `MainProofs` is about what `main`
does around its rounds.

- `MainProofs`, the lock.  `LockTypes`, `CrashSafe` (`NoStaleLock`) and `Exclusion`
  (`ExclusiveUnlessRaced`) for any number of processes and files.  The invariant adds `OneFile`: until a race,
  all that is open is the file of that name.
- `MainProofs`, the configuration.  `SomethingToShow`: in every environment, for every file, of whatever settings of
  whatever types, and if it cannot be read, the loop gets a non-empty list of modules, each with a format and
  a natural number as its period; or loading crashes, in which case an entry has no status_no, and neither it nor one before it has a function
  (conf.c:230).  Only `func`, `args` and `status_no` may be missing,
  which the loop run includes; the period may be 0, which is `Crash` there.
- `MainProofs`, the pacing.  `DiffNormalized` and `DiffTotal`: the borrow of `difftimespec` yields a
  valid timespec and loses no time.  `PacingSafe`: `SleepsTheRest`, with `PacingTypes` (`PTypeOK`), `SleepValid`
  (`NeverDies`) and `PeriodKept` (`KeepsPeriod`).  The inductive invariant adds `Ordered`: the readings were
  taken in this order, and a sleep began after the round ended.  Without it nothing relates
  `now` to `start` when a sleep is over.
- `SlstatusProofs`, the loop.  `TypeCorrect`; `Bounded` (`ChildBound`); `Fresh` (`FreshStatus`);
  `Right` (`RightSlot`).  For any configuration, any number of process ids and signals.
  `Bounded` counts children at every step and needs that `run_exec`'s child is among them;
  `Fresh` needs `OrderInv` (before the first signal no duskc runs while the loop is
  not waiting for it, so at most one runs) and `ShownInv` (what is overwritten was overwritten in a
  status that two modules share).
- `SlstatusProofs`, the refinements.  `Refines`: `Spec => Implements`, the loop is a `StatusBar` for every
  configuration.  Initial states map
  to initial states, and every action maps to one of the bar or to a stutter; that a text is only
  sent when no other is on its way needs `OrderInv`, and that it goes to a status of its module `TypeOK`.
  `CallsRunExec`: the loop's calls of `run_exec` are those of `CommandCall`.
- `SlstatusProofs`, the history.  `Timely` (`OnTime`): `since` is `turn` unless the last turn was missed, and the age of a turn is bounded by what `loop_count` is: at most
  `loop_count % every` behind its module, at most one more than the rounds since it was last due before it (`Age`).  In round 0,
  after the wraparound, the last due round may be any number below `every` ago (`GapAt`), which is why no width of
  `loop_count` has to be a multiple of anything.
- `RunExecProofs`.  `RunExecTypes`, for buffers and pipes of any size.  `CutsInside` (`StaysInside`): until a read has filled `buf` its last byte is
  the zero it was at the start, whatever outputs, signals and cuts there were, so that a string in it ends in it.
  `LineShown` (`SingleLine`): `Flow` keeps what the command wrote, what is in the pipe and what was read in one order;
  `FirstAt` and `LastAt` are the least and the greatest place of a byte.  `ServesTheLoop` (`ImplementsCall`): each step is
  one of `CommandCall` or a stutter; with `CallsRunExec` both sides of that interface are proved.
- `MpdProofs`, scroll_text.  `NormaliseIsMod`: C's `%` with the correction of a negative result
  is the modulo of mathematics.  `WindowCorrect`: for all texts, loop texts,
  widths and indexes the copying loop yields the window.  The invariant says
  where the iterator is (`Placed`: what is left of the text being copied is what comes next in the endless text) and what
  has been copied (`Copied`).
- `MpdProofs`, mpdonair.  `MpdScrolls`: `Spec => ScrollSpec`, so that the window (`MpdWindow`, `WindowShown`) is right where it is
  called, too; `MpdTypesHold` (`TypeOK`); `NewSongFromStart` (`FromStart`); `SmoothScroll` (`Smooth`).  The invariant relates
  what the reader has seen last to the index as it is now (`Shown`), the remembered tags to that song (`Kept`), and what is
  written so far to the format: it is what a sequence of texts, one for each character of the format, ends in (`BuiltTo`).
- `WifiProofs`.  `WifiTypes`, `NothingLeftOver` and `AnswersFresh` (`Fresh`): `Waiting` lists what may be in the socket at each place.  It is empty
  between two requests, whoever made them and however they ended (`NothingLeftOver`), which is why nothing has to be matched.
- `SamplersProofs`.  `SamplersTypes`, `TrafficIsItsOwn` (`OwnTraffic`), `BusyTimeIsItsOwn` (`BusyTime`, with `NoWrap`), `PercentageInRange`
  (`PercRange`), for any widths.  `Kept` says of each module what it read last: that this is what its static variable holds if
  it has its function for itself, and that it is not above the counters unless one went back.  The sum over the disks
  is a fold over a set, whose equation and monotonicity are lemmas (`PartialEquation` and those behind it).
- `VolumeProofs`.  `VolumeTypes`, `ListMirrors` (`Mirrors`), `VolumeIsShown` (`VolumeShown`).  The invariant `Hearing` is about
  the messages that are not read yet: there is a sequence of sound servers that leads, message by message, from what the
  list holds to what the server has.  `IsLoudness` says what the loop over the list yields without its order.
- `MetersProofs`.  `MetersTypes` (`TypeOK`): on each system and for each function the answers so far decide what is asked for next, never what was asked for
  (`ReadsGrow`).  `MemoryWithin` (`RamWithin`): `Sums` follows what the six readings add up to;
  a page that moves changes that by one at most, whatever it moves from and to and whichever of the keys are read (`OffMoves`); and
  a hundred times a page divided by all of them is no more than `100 \div pages + 1` (`DivNear`).
- `MetersProofs`, `OneMoment`.  `AnswersOfOneMoment`: of any function, if no more than one of the answers it got can change during the
  call, and none was replaced by an error that is not looked at (`Heard`), all of them were right at one moment (`AtOnce`), whatever it asks
  for next because of what it was told.  `RightAtOneMoment`: all but the `Folding` functions keep `OneMoment`, with its exceptions.  Those that are not `Composed` are `Steady` of themselves: they ask once (`AsksOnce`), or
  first for what does not change, as the mixers (`MixerSettled`).  Then there is one lemma for each source file, on all its systems: what
  a function makes of the answers of one world, outside the gaps, is what is to be shown of it (`RamRight`, `SwapRight`,
  `DevicesRight`, `BatteryRight`, `BacklightRight`, `TempRight`, `DiskRight`, `NumFilesRight`, `AlsaRight`, `OssRight`,
  `WifiRight`, `IpRight`), for memories, batteries, file systems, volume ranges, signals, swap devices and lists of addresses of
  any size and number.  OpenBSD's swap adds up blocks device by device: that this is a multiple of the pages is `FoldScales`.

The proof of an invariant always has the same shape: the invariant holds initially, each action keeps
it (one step per action), it implies the property, and a last temporal step puts these together.

### Induction over data

The library's induction theorems take an operator, which the provers here cannot instantiate.  Where a sum over a set, a loop
over a list or a format is needed, the proofs do without: a non-empty set of natural numbers (or of subsets of a finite
set) has a least member, so the counterexamples to a claim have one, and that it is none is the step of the induction
(`LeastNumber`, `SmallestSubset`).  That the recursive equation of a fold has a solution at all is proved that way first
(`PartialEquation`, in `VolumeProofs` for `Perc`, `SumExists` for the `FoldLeft` of the swap devices).

### What is only model-checked

- All liveness (`Terminates`, `KeepsUpdating`, `Answered`, `Returns`,
  `Reconnects`, `Answers`, `CatchesUp`) and ENABLED, which the prover does not handle.
- `OneMoment` of the two `Folding` functions: `keymap` and `keyboard_indicators`, which flatten a sequence of symbols or of format items
  and select from it (the prover does not expand `SelectSeq`).  For them `AnswersOfOneMoment` holds as for all others.

### What the proofs found

Each of these had passed TLC, whose instance was too small or too regular for it:

- `OnTime` was false of a module with an `update_interval` of 0, at which the first round crashes.  It excludes these now.
- `FromStart` was false where neither the new song nor the one before has tags that fit `prev_title`: one that just fills it may then
  pass for a longer one that begins alike.
- `RunExec` took a NUL in a command's output into account in one place and not in another (`run_command`, whose
  `fgets` fills a string that ends there).
- In `Wifi`, `RunExec` and `Mpd` the cases of some CASE overlapped, or a state compared NULL with what NULL might have been.
- OpenBSD's `ram_perc`, FreeBSD's `ram_perc` and `backlight_perc` multiply by 100 in an int, and OpenBSD's pagetok shifts one:
  `Memory` and `Power` took these products as exact, and no world of the run was large enough to tell.  They are `Overflow`s now, the
  worlds where they bite are gaps, and the run has both (`ram_gap`, `backlight_gap`).
- What was assumed of the constants was not enough: that there is a load of nl80211 at all (`LoadsAssumption`), that the products of
  the samplers fit (`ProductAssumption`), that the addresses of sndio are finitely many (`AddrsAssumption`), and how far below the
  largest int a percentage has to stay (`WidthAssumption` of `Meters`, which was off by one).  What a world is at all was not said
  (`WorldsAssumption`): that NULL is no number, that an ALSA volume lies in its range, that what swap is in use is part of it ...

## 5. What else the code does differently than said

Met while modelling, visible in the actions, and not the subject of a run:

- slstatus.1:26 and 30 describe `-v` and `-1`; the arguments are parsed after the
  lock, so `-v` is refused while an instance runs, and `-1` ends in the usage message
  (`ParseArgs`).
- A status_no of three digits or more is cut to two (`Truncate`, line 136).
- An overlong text ends the round for all modules behind it (`Overlong`, line 134).
- A command that does not exist ends slstatus (`SpawnFails`, run_exec.c:54).
- `read` may fill `buf` to its last byte (run_exec.c:59), and nothing ends the string then: `strrchr` (line 69) searches the memory behind `buf`, the
  line break that line 70 overwrites may be there, and the text that is returned goes on there (`Return`).
- The warning of an entry without status_no prints `func` (conf.c:230), which is not set if no entry so far has a function (conf.c:204): loading may
  crash (`prints_unset`).
- `up` reads the flags of an entry after `freeifaddrs` (ip.c:81-82): what it shows of an interface that is there is undefined (`up`, `ip_gap`).
- A function that does not return (run wifi_hang), a `recv` that is never answered, or a process in the background that keeps the
  pipe of its command open (run_exec.c:59) holds up all modules and the end of the program (`CallsEnd`).
- `update_interval = 0` and an `interval` of 0 with netspeed divide by zero (`Crash`).
- A tag of 255 bytes or more never scrolls, as every call finds it changed (`Changed`, mpd.c:192).
- Empty text and empty loop text with FORCE_SCROLL divide by zero (`Call`, mpd.c:86).
- `mpdonair` frees neither status nor song when there is no current song (mpd.c:252).
- `io_in` and `io_out` are not divided by the interval, unlike the network speeds.
- Two netspeed modules of the same direction and of different interfaces share `rxbytes` (or `txbytes`)
  and subtract each other's counters, although each takes its interface as argument
  (config.def.h:52); the last answer is then a wrapped difference (`netspeed`).
- A netspeed module with an update_interval of n shows n times the speed.
- SIGUSR1 "Triggers an instant redraw" (slstatus.1:42): it ends the sleep, but only the modules that are due in the
  round are redrawn, and outside of `nanosleep` it does nothing (`SignalUsr1`, `SkipModule`).
- `getline` that fails leaves /proc/meminfo (swap.c:50-53) and the file of a device (`get_io`, iocheck.c:52-55) open, and OpenBSD's
  `backlight_perc` never closes /dev/ttyC0 (backlight.c:49-57); OpenBSD's `getstats` does not free its list if the second `swapctl` fails (swap.c:124).
- FreeBSD's `ram_total` and `ram_used` are products of unsigned ints, and OpenBSD's swap of ints: 4 and 2 GiB do not
  fit (`ram_gap`, `swap_gap`).  On OpenBSD the kilobytes of memory and a hundred times the active pages are ints (ram.c:98, 137),
  on FreeBSD the latter is an unsigned int (ram.c:212), and a hundred times the brightness is an int (backlight.c:33, 57).  FreeBSD's `swap_perc` divides by 0 without swap, OpenBSD's `backlight_perc` if
  the range is 0.
- battery.c on Linux looks for charge or energy and for current or power separately: a battery with `charge_now` and
  `power_now` has µAh divided by µW; a negative current is read as a huge number.  OpenBSD's unknown
  `minutes_left` of -1 is shown as a number, and FreeBSD's state "critical" as `?` (`battery_gap`).
- Below 0 °C Linux shows a huge number, and FreeBSD drops the sign between -1 and 0 (`temp_gap`).
- `keyboard_indicators` looks at four characters of its format: a `?` or a letter behind them is cut off
  (`indicators_gap`).  `disk_perc` of a file system without blocks is NaN made an int.
- ALSA: a volume of -1 counts as none, and an empty range yields NaN (`alsa_gap`).
- OpenBSD's wifi.c:285 looks at an error only if `nr_rssi`, which was just set to 0, is not 0: if the access point was
  left and forgotten between the two requests, or the request fails for any other reason, 100 percent and an empty name are shown instead of
  `unknown_string`.  An error of `readdir` (num_files.c:22) passes for the end of the directory (`ReadFailsUnheard`).
- `RSSI_TO_PERC` of a char (wifi.c:242) is right where char is signed; where it is not, as on ARM, every signal is 100 percent.  `Wifi` is of
  the former (`Percent`).

## 6. What is not modelled

- Formatting, wording, icons and units (`fmt_human`, `bprintf`), except for truncation where a property depends on it, and in `Power`, `Desktop` and
  `Network` for the signs of a battery's state, the letters of the indicators and the scales of a signal, which `OneMoment` compares with
  what is to be shown.
- Open files: which path of a function closes what is straight-line code, with nothing to interleave.  Section 5 lists the paths that
  do not.
- Functions that make one system call and show what it says: host and user names, kernel release, cat, time, load, uptime,
  entropy, `cpu_freq`.  There is nothing in them to interleave, to keep or to compute.
- The stack and the heap: the variable length array of `maximum_length`, memory that is not freed (mpd.c:252,
  swap.c:124, `cleanup_config`).
- Splitting a command into arguments (run_exec.c:37-51).
- The bytes of netlink messages: a message is its type and the one value that is looked for in it.
- `getnameinfo`, which is the identity on numeric addresses here; the rounding of floating point, except where a
  whole number may come out just below itself (`share`) and where `%.0f` rounds.
- Include directives of libconfig: a settings file is what is left after them.

## 7. Plan

In this order, the most important first:

1. `OneMoment` of the `Folding` functions: that the loop of `keyboard_indicators` over characters yields what its format's items
   ask for, by the least item where it does not (section 4, induction over data); then `keymap`.
2. The parts of `Config` that keep a setting of a wrong type from its module, as theorems about `load_config`.

## 8. Running

    tlc -config MCSlstatusHistory_loop.cfg MCSlstatusHistory
    tlapm SlstatusProofs.tla

`PROJECT.json` lists every run with its module, configuration and
properties; for each property a mutant (an operator such as `NoChildPolls`, next to the
definition it would replace) under which the property fails; and, for each definition, the
lines of the source it models.
