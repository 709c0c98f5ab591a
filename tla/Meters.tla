-------------------------------- MODULE Meters --------------------------------
(* The components that keep nothing between two calls: memory, swap, battery,*)
(* backlight, temperature, keyboard, disk, files, volume and network.  A call*)
(* asks for one or several values, one system call after another, while what *)
(* they are about changes; what it returns is made of all of them.           *)
EXTENDS Integers, Sequences, FiniteSets

CONSTANTS
    Kilo, PageKb, Volts, Noise, W, W32, Interface,
    NULL, CRASH, UNDEFINED,
    Worlds(_),      \* what the world may be like for a function
    MaxMoves        \* bound: how often it changes during a call

ASSUME BoundsAssumption == MaxMoves \in Nat

INSTANCE Memory
INSTANCE Power
INSTANCE Desktop
INSTANCE Network

\* A percentage fits an int, also if all that can move during a call is missed.
ASSUME WidthAssumption ==
    /\ Kilo \in Nat \ {0} /\ PageKb \in Nat \ {0} /\ W \in Nat /\ W32 \in Nat
    /\ 100 * (MaxMoves + 1) < W32 \div 2

\* A machine has memory, a hundred times of which can be counted in bytes.
ASSUME RamAssumption ==
    \A f \in RamFunctions : \A w \in Worlds(f) :
        /\ w \in [free : Nat, buffers : Nat, file : Nat, shmem : Nat, slab : Nat, rest : Nat]
        /\ pages(w) > 0
        /\ 100 * (pages(w) + MaxMoves) * Page < W

Volumes == {"vol_perc (ALSA)", "vol_perc (OSS)"}

\* What the other worlds are made of: a battery's current and a temperature fit
\* the numbers they are read into, a volume lies in its range, and a driver of
\* OpenBSD counts in dBm or in percent of the 50 dBm above -100.
ASSUME WorldsAssumption ==
    /\ NULL \notin Int \cup {"link", "inet", "inet6", ".", ".."} /\ Volts \in Nat \ {0} /\ Noise \in Int
    /\ \A f \in SwapFunctions : \A w \in Worlds(f) :
          /\ w.devices \in Seq([size : Nat, used : Nat])
          /\ size(w) \in Nat /\ used(w) \in 0 .. size(w) /\ w.cached \in 0 .. used(w)
          /\ size(w) * Page < W
    /\ \A f \in BatteryFunctions : \A w \in Worlds(f) :
          /\ w.status \in {"Charging", "Discharging", "Full", "Not charging", "Unknown"}
          /\ w.charge \in Nat /\ w.flow \in Nat /\ w.flow * Volts < W
    /\ \A w \in Worlds("backlight_perc") : w.max \in Nat /\ w.cur \in Nat
    /\ \A w \in Worlds("temp") : w.tenths \in Int /\ 100 * w.tenths < W
    /\ \A f \in DiskFunctions : \A w \in Worlds(f) :
          w.blocks \in Nat /\ w.taken \in 0 .. w.blocks /\ w.reserved \in Nat
    /\ \A w \in Worlds("num_files") :
          /\ DOMAIN w = {"first", "second", "third", "fourth", "fifth"} /\ w.first = "." /\ w.second = ".."
          /\ \A place \in {"third", "fourth", "fifth"} : w[place] \notin {".", ".."}
    /\ \A f \in Volumes : \A w \in Worlds(f) :
          /\ w \in [vol : BOOLEAN, lowest : Int, highest : Int, left : Int, right : Int]
          /\ IF f = "vol_perc (ALSA)" THEN w.left \in w.lowest .. w.highest
             ELSE w.left \in 0 .. 100 /\ w.right \in 0 .. 100
    /\ \A f \in WifiFunctions : \A w \in Worlds(f) :
          /\ NULL \notin w.known /\ (w.ap # NULL => w.ap \in w.known)
          /\ \A ap \in w.known : w.dbm[ap] \in Int
          /\ w.max_rssi \in {0, 50}
    /\ \A f \in IpFunctions : \A w \in Worlds(f) :
          \A k \in DOMAIN w.list : k \in Nat /\ w.list[k].family \in {"link", "inet", "inet6", NULL}

VARIABLES
    os, func,   \* the system slstatus is compiled for, and the function called
    world,      \* what there is to show
    pc,         \* "idle", in a call, or how the last one ended
    got,        \* what this call has been told, by name
    step,       \* how many system calls that took
    result,     \* what the last call returned, or CRASH
    unheard,    \* whether a system call of this one failed, and nobody looked
    moments     \* ghost: the world at each moment of the call

vars == <<os, func, world, pc, got, step, result, unheard, moments>>

-----------------------------------------------------------------------------
Everywhere == {"temp"} \cup BatteryFunctions \cup RamFunctions \cup SwapFunctions
SameEverywhere == {"keymap", "keyboard_indicators", "num_files"} \cup DiskFunctions \cup IpFunctions
Functions(system) ==
    Everywhere
    \cup (IF system = "freebsd" THEN {} ELSE {"backlight_perc"})
    \cup (IF system = "linux" THEN SameEverywhere \cup Volumes ELSE WifiFunctions)

\* What is told by f, and what g says of the rest.
Extend(f, g) == [name \in DOMAIN f \cup DOMAIN g |-> IF name \in DOMAIN f THEN f[name] ELSE g[name]]

\* What the kernel, or the X server, answers in a world.
Answers(w) ==
    CASE func \in RamFunctions                  -> Extend(meminfo(w), vmstat(w))
      [] func \in SwapFunctions                 -> swapinfo(w)
      [] func \in BatteryFunctions              -> Extend(power_supply(w), apm_acpi(w))
      [] func = "backlight_perc"                -> brightness(w)
      [] func = "temp"                          -> thermal(w)
      [] func = "keymap"                        -> xkb(w)
      [] func = "keyboard_indicators"           -> [led_mask |-> w.leds]
      [] func \in DiskFunctions                 -> statvfs(w)
      [] func = "num_files"                     -> readdir(w)
      [] func \in Volumes                       -> mixer(w)
      [] func \in WifiFunctions                 -> net80211(w)
      [] func \in IpFunctions                   -> ifaddrs(w)

\* The system calls: what each of them tells.
Reads ==
    CASE func \in RamFunctions                  -> ram_reads(os, func)
      [] func \in SwapFunctions                 -> swap_reads(os, func, got)
      [] func \in BatteryFunctions              -> battery_reads(os, func, got)
      [] func = "backlight_perc"                -> backlight_reads(os)
      [] func = "temp"                          -> temp_reads(os)
      [] func = "keymap"                        -> keymap_reads
      [] func = "keyboard_indicators"           -> <<{"led_mask"}>>
      [] func \in DiskFunctions                 -> <<{"blocks", "bfree", "bavail"}>>
      [] func = "num_files"                     -> num_files_reads
      [] func = "vol_perc (ALSA)"               -> alsa_reads
      [] func = "vol_perc (OSS)"                -> oss_reads(got)
      [] func \in WifiFunctions                 -> wifi_reads(os, func, got)
      [] func \in IpFunctions                   -> <<{"list"}>>

\* What the function may make of what it was told.
Results ==
    CASE func \in RamFunctions                  -> ram(os, func, got)
      [] func \in SwapFunctions                 -> swap(os, func, got)
      [] func \in BatteryFunctions              -> battery(os, func, got)
      [] func = "backlight_perc"                -> backlight_perc(os, got)
      [] func = "temp"                          -> temp(os, got)
      [] func = "keymap"                        -> keymap(got)
      [] func = "keyboard_indicators"           -> keyboard_indicators(Format(world.items), got.led_mask)
      [] func \in DiskFunctions                 -> disk(func, got)
      [] func = "num_files"                     -> num_files(got)
      [] func = "vol_perc (ALSA)"               -> vol_perc_alsa(got)
      [] func = "vol_perc (OSS)"                -> vol_perc_oss(got)
      [] func \in WifiFunctions                 -> wifi(os, func, got)
      [] func \in IpFunctions                   -> ip_or_up(func, got, Interface)

\* Whose errors are not looked at: those of readdir (num_files.c:22), and of
\* OpenBSD's request for a node (wifi.c:285); and what is there instead: no
\* further name, and no node.
Unchecked == func = "num_files" \/ (os = "openbsd" /\ func \in WifiFunctions /\ step = 1)
Nothing   == IF func = "num_files" THEN NULL ELSE <<>>

Init ==
    /\ os \in {"linux", "openbsd", "freebsd"}
    /\ func \in Functions(os)
    /\ world \in Worlds(func)
    /\ pc = "idle" /\ got = <<>> /\ step = 0 /\ result = NULL
    /\ unheard = FALSE /\ moments = <<>>

-----------------------------------------------------------------------------
(* A call                                                                    *)

\* Mutant of Begin: how far the last call came is not reset.
BeginResumes ==
    /\ pc # "reading" /\ result # CRASH
    /\ pc' = "reading" /\ got' = <<>> /\ result' = NULL
    /\ unheard' = FALSE /\ moments' = <<world>>
    /\ UNCHANGED <<os, func, world, step>>

Begin ==
    /\ pc # "reading" /\ result # CRASH
    /\ pc' = "reading" /\ got' = <<>> /\ step' = 0 /\ result' = NULL
    /\ unheard' = FALSE /\ moments' = <<world>>
    /\ UNCHANGED <<os, func, world>>

\* The file, the directory, the device or the display does not open.
OpenFails ==
    /\ pc # "reading" /\ result # CRASH
    /\ pc' = "failed" /\ result' = NULL /\ got' = <<>> /\ step' = 0
    /\ unheard' = FALSE /\ moments' = <<>>
    /\ UNCHANGED <<os, func, world>>

Read ==
    /\ pc = "reading" /\ step < Len(Reads) /\ ~unheard
    /\ got' = Extend(got, [name \in Reads[step + 1] |-> Answers(world)[name]])
    /\ step' = step + 1
    /\ UNCHANGED <<os, func, world, pc, result, unheard, moments>>

ReadFails ==
    /\ pc = "reading" /\ step < Len(Reads) /\ ~Unchecked
    /\ pc' = "failed" /\ result' = NULL
    /\ UNCHANGED <<os, func, world, got, step, unheard, moments>>

\* It fails, and the function goes on with nothing, to its end.
ReadFailsUnheard ==
    /\ pc = "reading" /\ step < Len(Reads) /\ Unchecked
    /\ got' = Extend(got, [name \in Reads[step + 1] |-> Nothing])
    /\ step' = step + 1 /\ unheard' = TRUE
    /\ UNCHANGED <<os, func, world, pc, result, moments>>

Return ==
    /\ pc = "reading" /\ step = Len(Reads)
    /\ pc' = "answered" /\ result' \in Results
    /\ UNCHANGED <<os, func, world, got, step, unheard, moments>>

-----------------------------------------------------------------------------
(* The world: one thing about it changes.                                    *)

Differs(w, v) == {k \in DOMAIN w : w[k] # v[k]}
\* The format, and what the drivers of battery, sound card and wifi are like.
Settled == {"items", "files", "negative", "vol", "lowest", "highest", "max_rssi"}

\* A page changes its use, or any one other fact changes.
Move ==
    /\ pc = "reading" /\ Len(moments) <= MaxMoves
    /\ \E w \in Worlds(func) :
          /\ IF func \in RamFunctions
             THEN /\ pages(w) = pages(world) /\ Cardinality(Differs(world, w)) = 2
                  /\ \A k \in Differs(world, w) : w[k] - world[k] \in {-1, 1}
             ELSE Cardinality(Differs(world, w)) = 1 /\ Differs(world, w) \cap Settled = {}
          /\ world' = w
    /\ moments' = Append(moments, world')
    /\ UNCHANGED <<os, func, pc, got, step, result, unheard>>

Next == Begin \/ OpenFails \/ Read \/ ReadFails \/ ReadFailsUnheard \/ Return \/ Move
Spec == Init /\ [][Next]_vars
-----------------------------------------------------------------------------
(* Properties *)

\* Types, and that a call knows what it has asked for.
TypeOK ==
    /\ func \in Functions(os)
    /\ pc \in {"idle", "reading", "answered", "failed"}
    /\ step \in 0 .. 6 /\ step <= Len(Reads)
    /\ DOMAIN got = UNION {Reads[k] : k \in 1 .. step}
    /\ unheard \in BOOLEAN
    /\ Len(moments) <= MaxMoves + 1

\* What is to be shown in a world.
Truth(w) ==
    CASE func \in RamFunctions                  -> {ram_truth(os, func, w)}
      [] func \in SwapFunctions                 -> {swap_truth(os, func, w)}
      [] func \in BatteryFunctions              -> {battery_truth(os, func, w)}
      [] func = "backlight_perc"                -> {backlight_truth(w)}
      [] func = "temp"                          -> {temp_truth(os, w)}
      [] func = "keymap"                        -> keymap_truth(w)
      [] func = "keyboard_indicators"           -> indicators_truth(w)
      [] func \in DiskFunctions                 -> disk_truth(func, w)
      [] func = "num_files"                     -> num_files_truth(w)
      [] func = "vol_perc (ALSA)"               -> alsa_truth(w)
      [] func = "vol_perc (OSS)"                -> oss_truth(w)
      [] func \in WifiFunctions                 -> {wifi_truth(os, func, w)}
      [] func \in IpFunctions                   -> ip_truth(func, w, Interface)

\* The worlds in which a function is known not to show it.
Gap(w) ==
    CASE func \in RamFunctions                  -> ram_gap(os, func, w)
      [] func \in SwapFunctions                 -> swap_gap(os, func, w)
      [] func \in BatteryFunctions              -> battery_gap(os, func, w)
      [] func = "backlight_perc"                -> backlight_gap(os, w)
      [] func = "temp"                          -> temp_gap(os, w)
      [] func = "keyboard_indicators"           -> indicators_gap(w)
      [] func \in DiskFunctions                 -> disk_gap(func, w)
      [] func = "vol_perc (ALSA)"               -> alsa_gap(w)
      [] func \in IpFunctions                   -> ip_gap(func, w, Interface)
      [] OTHER                                  -> FALSE

Moments == {moments[k] : k \in DOMAIN moments}

\* The functions that must put together what they were told at several moments.
Composed ==
    CASE os = "linux"   -> {"ram_perc", "ram_used", "battery_remaining", "backlight_perc", "keymap", "num_files"}
      [] os = "openbsd" -> SwapFunctions \cup WifiFunctions
      [] os = "freebsd" -> {"ram_perc", "wifi_perc"}

\* No more than one of the answers that the call gets changes during it.
Steady ==
    Cardinality({k \in 1 .. step : \E name \in Reads[k], v, w \in Moments : Answers(v)[name] # Answers(w)[name]}) <= 1

\* Although the kernel answers system call by system call (ram.c:38-43,
\* battery.c:88-99, backlight.c:20-25, keymap.c:66-70) what a call returns was
\* right at some moment of it: always, if the function asks once for all it
\* needs, and else if no more than one of the values changes meanwhile.  It says
\* nothing of a call with an error that the function does not look at, and of
\* worlds in the gaps: numbers that do not fit, memory that is freed before it
\* is read, and the oddities listed with each function.
OneMoment ==
    pc = "answered" /\ ~unheard /\ (func \in Composed => Steady) /\ (\A w \in Moments : ~Gap(w))
    => \E w \in Moments : result \in Truth(w)

\* Memory moves while ram_used and ram_perc read /proc/meminfo six times: what
\* they show is off by no more pages than have moved, unless those are more
\* than are in use, where the difference of unsigned numbers wraps (ram.c:52, 88).
RamWithin ==
    LET moved == Len(moments) - 1
        last  == moments[moved + 1]
        near(unit) == \E v \in Truth(last) : result - v \in -unit * moved .. unit * moved
    IN  pc = "answered" /\ os = "linux" /\ func \in {"ram_used", "ram_perc"}
        /\ last.rest + last.shmem >= moved
        => IF func = "ram_used" THEN near(Page) ELSE near(100 \div pages(last) + 1)
=============================================================================
