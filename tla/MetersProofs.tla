----------------------------- MODULE MetersProofs -----------------------------
(* Theorems about the functions that keep nothing between two calls.         *)
EXTENDS Meters, TLAPS, FiniteSetTheorems, WellFoundedInduction

USE BoundsAssumption

Systems == {"linux", "openbsd", "freebsd"}

\* What follows Reads through a call: the answers it has so far decide what it
\* asks for next, but never what it has asked for.
LEMMA FunctionKinds ==
    ASSUME os \in Systems, func \in Functions(os)
    PROVE  \/ func \in RamFunctions
           \/ func \in SwapFunctions
           \/ func \in BatteryFunctions
           \/ func \in DiskFunctions
           \/ func \in IpFunctions
           \/ func \in WifiFunctions /\ os # "linux"
           \/ func = "backlight_perc" /\ os # "freebsd"
           \/ func \in {"temp", "keymap", "keyboard_indicators", "num_files"}
           \/ func \in Volumes
  BY DEF Systems, Functions, Everywhere, SameEverywhere

\* Of which functions Reads is what.
LEMMA ReadsIs ==
    /\ func \in RamFunctions => Reads = ram_reads(os, func)
    /\ func \in SwapFunctions => Reads = swap_reads(os, func, got)
    /\ func \in BatteryFunctions => Reads = battery_reads(os, func, got)
    /\ func = "backlight_perc" => Reads = backlight_reads(os)
    /\ func = "temp" => Reads = temp_reads(os)
    /\ func = "keymap" => Reads = keymap_reads
    /\ func = "keyboard_indicators" => Reads = <<{"led_mask"}>>
    /\ func \in DiskFunctions => Reads = <<{"blocks", "bfree", "bavail"}>>
    /\ func = "num_files" => Reads = num_files_reads
    /\ func = "vol_perc (ALSA)" => Reads = alsa_reads
    /\ func = "vol_perc (OSS)" => Reads = oss_reads(got)
    /\ func \in WifiFunctions => Reads = wifi_reads(os, func, got)
    /\ func \in IpFunctions => Reads = <<{"list"}>>
  BY DEF Reads, RamFunctions, SwapFunctions, BatteryFunctions, DiskFunctions, WifiFunctions, IpFunctions

-----------------------------------------------------------------------------
(* What a call asks for                                                      *)

\* A sequence of system calls that ask for different things.
Plan(reads) ==
    /\ Len(reads) \in 1 .. 6
    /\ \A j, k \in 1 .. Len(reads) : j # k => reads[j] \cap reads[k] = {}

\* Each function has such a plan.
LEMMA RamPlan ==
    ASSUME os \in Systems, func \in RamFunctions
    PROVE  Plan(Reads)
<1>1. Reads = ram_reads(os, func)
  BY ReadsIs
<1>2. CASE func = "ram_total"
  BY <1>1, <1>2 DEF Plan, ram_reads
<1>3. CASE os = "linux" /\ func = "ram_free"
  BY <1>1, <1>3 DEF Plan, ram_reads
<1>4. CASE os = "linux" /\ func \in {"ram_perc", "ram_used"}
  BY <1>1, <1>4 DEF Plan, ram_reads
<1>5. CASE os = "openbsd" /\ func # "ram_total"
  BY <1>1, <1>5 DEF Plan, ram_reads
<1>6. CASE os = "freebsd" /\ func \in {"ram_free", "ram_perc", "ram_used"}
  BY <1>1, <1>6 DEF Plan, ram_reads
<1> QED  BY <1>2, <1>3, <1>4, <1>5, <1>6 DEF Systems, RamFunctions

LEMMA SwapPlan ==
    ASSUME os \in Systems, func \in SwapFunctions
    PROVE  Plan(Reads)
<1>1. Reads = swap_reads(os, func, got)
  BY ReadsIs
<1>2. CASE os = "linux"
  BY <1>1, <1>2 DEF Plan, swap_reads, get_swap_info
<1>3. CASE os = "openbsd"
  BY <1>1, <1>3 DEF Plan, swap_reads, getstats
<1>4. CASE os = "freebsd"
  BY <1>1, <1>4 DEF Plan, swap_reads
<1> QED  BY <1>2, <1>3, <1>4 DEF Systems

LEMMA BatteryPlan ==
    ASSUME os \in Systems, func \in BatteryFunctions
    PROVE  Plan(Reads)
<1>1. Reads = battery_reads(os, func, got)
  BY ReadsIs
<1>2. CASE os = "openbsd"
  BY <1>1, <1>2 DEF Plan, battery_reads
<1>3. CASE os = "freebsd"
  BY <1>1, <1>3 DEF Plan, battery_reads, BatteryFunctions
<1>4. CASE os = "linux" /\ func # "battery_remaining"
  BY <1>1, <1>4 DEF Plan, battery_reads, BatteryFunctions
<1>5. CASE os = "linux" /\ func = "battery_remaining"
  BY <1>1, <1>5 DEF Plan, battery_reads
<1> QED  BY <1>2, <1>3, <1>4, <1>5 DEF Systems

LEMMA WifiPlan ==
    ASSUME os \in Systems, func \in WifiFunctions, os # "linux"
    PROVE  Plan(Reads)
<1>1. Reads = wifi_reads(os, func, got)
  BY ReadsIs
<1>2. CASE os = "freebsd"
  BY <1>1, <1>2 DEF Plan, wifi_reads
<1>3. CASE os = "openbsd"
  BY <1>1, <1>3 DEF Plan, wifi_reads
<1> QED  BY <1>2, <1>3 DEF Systems

LEMMA ReadsPlan ==
    ASSUME os \in Systems, func \in Functions(os)
    PROVE  Plan(Reads)
<1>1. CASE func = "backlight_perc"
  <2>1. Reads = backlight_reads(os)
    BY <1>1, ReadsIs
  <2> QED  BY <2>1 DEF Plan, backlight_reads
<1>2. CASE func = "temp"
  <2>1. Reads = temp_reads(os)
    BY <1>2, ReadsIs
  <2> QED  BY <2>1 DEF Plan, temp_reads, Systems
<1>3. CASE func = "keymap"
  <2>1. Reads = keymap_reads
    BY <1>3, ReadsIs
  <2> QED  BY <2>1 DEF Plan, keymap_reads
<1>4. CASE func = "num_files"
  <2>1. Reads = num_files_reads
    BY <1>4, ReadsIs
  <2> QED  BY <2>1 DEF Plan, num_files_reads
<1>5. CASE func = "vol_perc (ALSA)"
  <2>1. Reads = alsa_reads
    BY <1>5, ReadsIs
  <2> QED  BY <2>1 DEF Plan, alsa_reads
<1>6. CASE func = "vol_perc (OSS)"
  <2>1. Reads = oss_reads(got)
    BY <1>6, ReadsIs
  <2> QED  BY <2>1 DEF Plan, oss_reads
<1>7. CASE func \in DiskFunctions
  <2>1. Reads = <<{"blocks", "bfree", "bavail"}>>
    BY <1>7, ReadsIs
  <2> QED  BY <2>1 DEF Plan
<1>8. CASE func \in IpFunctions
  <2>1. Reads = <<{"list"}>>
    BY <1>8, ReadsIs
  <2> QED  BY <2>1 DEF Plan
<1>9. CASE func = "keyboard_indicators"
  <2>1. Reads = <<{"led_mask"}>>
    BY <1>9, ReadsIs
  <2> QED  BY <2>1 DEF Plan
<1> QED
  BY <1>1, <1>2, <1>3, <1>4, <1>5, <1>6, <1>7, <1>8, <1>9, FunctionKinds, RamPlan, SwapPlan, BatteryPlan, WifiPlan
     DEF Volumes

\* What it was told stays.
LEMMA Extended ==
    ASSUME NEW g, NEW f
    PROVE  /\ DOMAIN Extend(g, f) = DOMAIN g \cup DOMAIN f
           /\ \A name \in DOMAIN g : Extend(g, f)[name] = g[name]
           /\ \A name \in DOMAIN f \ DOMAIN g : Extend(g, f)[name] = f[name]
  BY DEF Extend

\* An answer decides what is asked for next, not what has been asked for.
Grown(to) ==
    /\ Len(Reads)' >= to
    /\ \A k \in 1 .. to : Reads'[k] = Reads[k]

\* Of most functions nothing decides, and of the others:
LEMMA ReadsNext ==
    ASSUME UNCHANGED <<os, func>>
    PROVE  /\ func \in SwapFunctions => Reads' = swap_reads(os, func, got')
           /\ func \in BatteryFunctions => Reads' = battery_reads(os, func, got')
           /\ func = "vol_perc (OSS)" => Reads' = oss_reads(got')
           /\ func \in WifiFunctions => Reads' = wifi_reads(os, func, got')
<1>1. os' = os /\ func' = func
  OBVIOUS
<1>2. CASE func \in SwapFunctions
  BY <1>1, <1>2 DEF Reads, RamFunctions, SwapFunctions, BatteryFunctions, DiskFunctions, WifiFunctions, IpFunctions
<1>3. CASE func \in BatteryFunctions
  BY <1>1, <1>3 DEF Reads, RamFunctions, SwapFunctions, BatteryFunctions, DiskFunctions, WifiFunctions, IpFunctions
<1>4. CASE func = "vol_perc (OSS)"
  BY <1>1, <1>4 DEF Reads, RamFunctions, SwapFunctions, BatteryFunctions, DiskFunctions, WifiFunctions, IpFunctions
<1>5. CASE func \in WifiFunctions
  BY <1>1, <1>5 DEF Reads, RamFunctions, SwapFunctions, BatteryFunctions, DiskFunctions, WifiFunctions, IpFunctions
<1> QED  BY <1>2, <1>3, <1>4, <1>5

LEMMA ReadsStay ==
    ASSUME UNCHANGED <<os, func>>
    PROVE  \/ func \in RamFunctions \cup DiskFunctions \cup IpFunctions
           \/ func \in {"backlight_perc", "temp", "keymap", "keyboard_indicators", "num_files",
                        "vol_perc (ALSA)"}
           => Reads' = Reads
  BY DEF Reads, RamFunctions, SwapFunctions, BatteryFunctions, DiskFunctions, WifiFunctions, IpFunctions

\* A step of a call learns f.
Learns(f) ==
    /\ UNCHANGED <<os, func>>
    /\ step \in Nat /\ step < Len(Reads)
    /\ DOMAIN got = UNION {Reads[k] : k \in 1 .. step}
    /\ DOMAIN f = Reads[step + 1]
    /\ got' = Extend(got, f)

\* What was asked for at first is known at every later step, and stays so.
LEMMA First ==
    ASSUME NEW f, NEW k, NEW name
    PROVE  Learns(f) /\ k \in 1 .. step /\ name \in Reads[k]
           => name \in DOMAIN got /\ name \in DOMAIN got' /\ got'[name] = got[name]
<1>1. ASSUME Learns(f), k \in 1 .. step, name \in Reads[k] PROVE name \in DOMAIN got
  BY <1>1 DEF Learns
<1>2. name \in DOMAIN got => name \in DOMAIN Extend(got, f) /\ Extend(got, f)[name] = got[name]
  BY Extended
<1>3. Learns(f) => got' = Extend(got, f)
  BY DEF Learns
<1> QED  BY <1>1, <1>2, <1>3

LEMMA Began ==
    ASSUME NEW f
    PROVE  Learns(f) /\ step # 0 => 1 \in 1 .. step
  BY DEF Learns

\* If nothing is known yet the first step is the same; if its answer decides,
\* and stays, all are.
LEMMA Decided ==
    ASSUME NEW f, Learns(f), Len(Reads)' >= 1, Reads'[1] = Reads[1],
           step # 0 => Reads' = Reads
    PROVE  Grown(step + 1)
  BY DEF Grown, Learns

LEMMA SwapPlans ==
    ASSUME NEW g, NEW h
    PROVE  /\ getstats(g)[1] = {"nswap"} /\ Len(getstats(g)) >= 1
           /\ "nswap" \in DOMAIN g /\ "nswap" \in DOMAIN h /\ h.nswap = g.nswap
                => getstats(h) = getstats(g)
  BY DEF getstats

LEMMA SwapGrows ==
    ASSUME func \in SwapFunctions, os \in Systems, NEW f, Learns(f)
    PROVE  Grown(step + 1)
<1>1. Reads = swap_reads(os, func, got) /\ Reads' = swap_reads(os, func, got')
  BY ReadsIs, ReadsNext DEF Learns
<1>2. CASE os # "openbsd"
  <2>1. Reads' = Reads
    BY <1>1, <1>2 DEF swap_reads, Systems
  <2> QED  BY <2>1 DEF Grown, Learns
<1>3. CASE os = "openbsd"
  <2>1. Reads = getstats(got) /\ Reads' = getstats(got')
    BY <1>1, <1>3 DEF swap_reads
  <2>2. step # 0 => 1 \in 1 .. step
    BY Began
  <2>3. step # 0 => Reads' = Reads
    BY <2>1, <2>2, First, SwapPlans
  <2> QED  BY <2>1, <2>3, SwapPlans, Decided
<1> QED  BY <1>2, <1>3

LEMMA WifiPlans ==
    ASSUME NEW g, NEW h, NEW f \in WifiFunctions
    PROVE  /\ wifi_reads("openbsd", f, g)[1] = {"bssid"} /\ Len(wifi_reads("openbsd", f, g)) >= 1
           /\ "bssid" \in DOMAIN g /\ "bssid" \in DOMAIN h /\ h.bssid = g.bssid
                => wifi_reads("openbsd", f, h) = wifi_reads("openbsd", f, g)
           /\ wifi_reads("freebsd", f, h) = wifi_reads("freebsd", f, g)
  BY DEF wifi_reads

LEMMA WifiGrows ==
    ASSUME func \in WifiFunctions, os \in Systems, os # "linux", NEW f, Learns(f)
    PROVE  Grown(step + 1)
<1>1. Reads = wifi_reads(os, func, got) /\ Reads' = wifi_reads(os, func, got')
  BY ReadsIs, ReadsNext DEF Learns
<1>2. CASE os = "freebsd"
  <2>1. Reads' = Reads
    BY <1>1, <1>2, WifiPlans
  <2> QED  BY <2>1 DEF Grown, Learns
<1>3. CASE os = "openbsd"
  <2>1. Reads = wifi_reads("openbsd", func, got) /\ Reads' = wifi_reads("openbsd", func, got')
    BY <1>1, <1>3
  <2>2. step # 0 => 1 \in 1 .. step
    BY Began
  <2>3. step # 0 => Reads' = Reads
    BY <2>1, <2>2, First, WifiPlans
  <2> QED  BY <2>1, <2>3, WifiPlans, Decided
<1> QED  BY <1>2, <1>3 DEF Systems

LEMMA OssPlans ==
    ASSUME NEW g, NEW h
    PROVE  /\ oss_reads(g)[1] = {"devmask"} /\ Len(oss_reads(g)) >= 1
           /\ "devmask" \in DOMAIN g /\ "devmask" \in DOMAIN h /\ h.devmask = g.devmask
                => oss_reads(h) = oss_reads(g)
  BY DEF oss_reads

LEMMA OssGrows ==
    ASSUME func = "vol_perc (OSS)", NEW f, Learns(f)
    PROVE  Grown(step + 1)
<1>1. Reads = oss_reads(got) /\ Reads' = oss_reads(got')
  BY ReadsIs, ReadsNext DEF Learns
<1>2. step # 0 => 1 \in 1 .. step
  BY Began
<1>3. step # 0 => Reads' = Reads
  BY <1>1, <1>2, First, OssPlans
<1> QED  BY <1>1, <1>3, OssPlans, Decided

\* battery_remaining looks at the status, once it has it and the charge.
LEMMA BatteryPlans ==
    ASSUME NEW g
    PROVE  LET plan == battery_reads("linux", "battery_remaining", g)
           IN  /\ Len(plan) \in 2 .. 3
               /\ plan[1] = {"status"} /\ plan[2] = {"charge_now", "energy_now"}
               /\ Len(plan) = 3 => plan[3] = {"current_now", "power_now"}
               /\ Len(plan) = 2 <=> "charge_now" \in DOMAIN g /\ g.status # "Discharging"
  BY DEF battery_reads

LEMMA BatteryGrows ==
    ASSUME func \in BatteryFunctions, os \in Systems, NEW f, Learns(f)
    PROVE  Grown(step + 1)
<1>1. Reads = battery_reads(os, func, got) /\ Reads' = battery_reads(os, func, got')
  BY ReadsIs, ReadsNext DEF Learns
<1>2. CASE ~(os = "linux" /\ func = "battery_remaining")
  <2>1. Reads' = Reads
    BY <1>1, <1>2 DEF battery_reads, Systems, BatteryFunctions
  <2> QED  BY <2>1 DEF Grown, Learns
<1>3. CASE os = "linux" /\ func = "battery_remaining"
  <2> DEFINE plan(g) == battery_reads("linux", "battery_remaining", g)
  <2>1. Reads = plan(got) /\ Reads' = plan(got')
    BY <1>1, <1>3
  <2>2. CASE step < 2
    <3>0. Len(Reads') \in 2 .. 3 /\ Reads'[1] = Reads[1] /\ Reads'[2] = Reads[2]
      <4>1. Reads[1] = {"status"} /\ Reads[2] = {"charge_now", "energy_now"}
        BY <2>1, BatteryPlans
      <4>2. Len(Reads') \in 2 .. 3 /\ Reads'[1] = {"status"} /\ Reads'[2] = {"charge_now", "energy_now"}
        BY <2>1, BatteryPlans
      <4> QED  BY <4>1, <4>2
    <3>1. Len(Reads)' >= 2 /\ \A k \in 1 .. 2 : Reads'[k] = Reads[k]
      BY <3>0
    <3>2. step + 1 \in 1 .. 2
      BY <2>2 DEF Learns
    <3> QED  BY <3>1, <3>2 DEF Grown
  <2>4. CASE step >= 2
    <3>1. 1 \in 1 .. step /\ 2 \in 1 .. step
      BY <2>4 DEF Learns
    <3>2. "status" \in Reads[1] /\ "charge_now" \in Reads[2]
      BY <2>1, BatteryPlans
    <3>3. "charge_now" \in DOMAIN got /\ "charge_now" \in DOMAIN got' /\ got'.status = got.status
      BY <3>1, <3>2, First
    <3>4. Reads' = Reads
      BY <2>1, <3>3 DEF battery_reads
    <3> QED  BY <3>4 DEF Grown, Learns
  <2> QED  BY <2>2, <2>4 DEF Learns
<1> QED  BY <1>2, <1>3

LEMMA ReadsGrow ==
    ASSUME os \in Systems, func \in Functions(os), NEW f, Learns(f)
    PROVE  Grown(step + 1)
<1>1. CASE func \in SwapFunctions
  BY <1>1, SwapGrows
<1>2. CASE func \in BatteryFunctions
  BY <1>2, BatteryGrows
<1>3. CASE func = "vol_perc (OSS)"
  BY <1>3, OssGrows
<1>4. CASE func \in WifiFunctions
  <2>1. os # "linux"
    BY <1>4 DEF Functions, WifiFunctions, Everywhere, SameEverywhere, Volumes, BatteryFunctions,
                RamFunctions, SwapFunctions, DiskFunctions, IpFunctions
  <2> QED  BY <1>4, <2>1, WifiGrows
<1>5. CASE func \notin SwapFunctions \cup BatteryFunctions \cup {"vol_perc (OSS)"} \cup WifiFunctions
  <2>1. Reads' = Reads
    BY <1>5, FunctionKinds, ReadsStay DEF Learns, Volumes
  <2> QED  BY <2>1 DEF Grown, Learns
<1> QED  BY <1>1, <1>2, <1>3, <1>4, <1>5

-----------------------------------------------------------------------------
(* Types                                                                     *)

\* In any state of a function there is a plan.
LEMMA PlanNow == os \in Systems /\ func \in Functions(os) => Plan(Reads)
  BY ReadsPlan
LEMMA PlanNext == (os \in Systems /\ func \in Functions(os) => Plan(Reads))'
  BY PlanNow, PTL

\* Beyond TypeOK: the moments are worlds, of which the last one is the present.
Types ==
    /\ os \in Systems
    /\ world \in Worlds(func)
    /\ moments \in Seq(Worlds(func))
    /\ pc = "reading" => moments # <<>> /\ moments[Len(moments)] = world
    /\ TypeOK

LEMMA InitTypes == Init => Types
<1> SUFFICES ASSUME Init PROVE Types
  OBVIOUS
<1>1. os \in Systems /\ func \in Functions(os) /\ step = 0 /\ got = <<>>
  BY DEF Init, Systems
<1>2. Len(Reads) \in 1 .. 6
  BY <1>1, ReadsPlan DEF Plan
<1>3. DOMAIN got = UNION {Reads[k] : k \in 1 .. step}
  BY <1>1
<1>a. Len(moments) = 0 /\ 0 <= MaxMoves + 1 /\ 0 \in 0 .. 6 /\ 0 <= Len(Reads)
  BY <1>2 DEF Init
<1>b. pc = "idle" /\ unheard = FALSE
  BY DEF Init
<1>4. TypeOK
  BY <1>1, <1>3, <1>a, <1>b, Zenon DEF TypeOK
<1>5. world \in Worlds(func) /\ moments = <<>> /\ pc = "idle"
  BY DEF Init
<1>6. moments \in Seq(Worlds(func))
  BY <1>5
<1> QED  BY <1>1, <1>4, <1>5, <1>6 DEF Types

\* A step that learns nothing asks for nothing else.
LEMMA SameReads == UNCHANGED <<os, func, got>> => Reads' = Reads
  BY DEF Reads

\* What comes with a value under each of the names that are asked for next.
LEMMA NextTold ==
    ASSUME Types, UNCHANGED <<os, func>>, pc = "reading", step < Len(Reads),
           NEW f, DOMAIN f = Reads[step + 1], got' = Extend(got, f), step' = step + 1
    PROVE  /\ DOMAIN got' = UNION {Reads'[k] : k \in 1 .. step'}
           /\ step' \in 0 .. 6 /\ step' <= Len(Reads')
<1>2. step \in 0 .. 6 /\ DOMAIN got = UNION {Reads[k] : k \in 1 .. step}
      /\ os \in Systems /\ func \in Functions(os)
  BY DEF Types, TypeOK
<1>4. Learns(f)
  BY <1>2 DEF Learns
<1>5. Grown(step + 1)
  BY <1>2, <1>4, ReadsGrow
<1>6. Len(Reads)' \in 1 .. 6
  BY <1>2, PlanNext DEF Plan
<1>7. DOMAIN got' = UNION {Reads'[k] : k \in 1 .. step'}
  <2>1. DOMAIN got' = DOMAIN got \cup Reads[step + 1]
    <3>1. DOMAIN Extend(got, f) = DOMAIN got \cup DOMAIN f
      BY Extended
    <3> QED  BY <3>1
  <2>2. \A k \in 1 .. step + 1 : Reads'[k] = Reads[k]
    BY <1>5 DEF Grown
  <2>3. 1 .. step + 1 = (1 .. step) \cup {step + 1}
    BY <1>2
  <2> QED  BY <1>2, <2>1, <2>2, <2>3
<1>8. step' \in 0 .. 6 /\ step' <= Len(Reads')
  <2>1. Len(Reads') >= step + 1
    BY <1>5 DEF Grown
  <2> DEFINE n == Len(Reads')
  <2>a. n \in 1 .. 6 /\ step \in 0 .. 6 /\ n >= step + 1
    BY <1>2, <1>6, <2>1
  <2> HIDE DEF n
  <2>b. step + 1 \in 0 .. 6 /\ step + 1 <= n
    BY <2>a
  <2>2. step + 1 \in 0 .. 6 /\ step + 1 <= Len(Reads')
    BY <2>b DEF n
  <2> QED  BY <2>2
<1> QED  BY <1>7, <1>8

LEMMA NextTypes == Types /\ [Next]_vars => Types'
<1> SUFFICES ASSUME Types, [Next]_vars PROVE Types'
  OBVIOUS
<1>1. CASE Begin
  <2>1. UNCHANGED <<os, func, world>> /\ step' = 0 /\ got' = <<>> /\ pc' = "reading"
        /\ unheard' = FALSE /\ moments' = <<world>>
    BY <1>1 DEF Begin
  <2>2. os' \in Systems /\ func' \in Functions(os')
    BY <2>1 DEF Types, TypeOK
  <2>3. Len(Reads)' \in 1 .. 6
    BY <2>2, PlanNext DEF Plan
  <2>4. DOMAIN got' = UNION {Reads'[k] : k \in 1 .. step'}
    BY <2>1
  <2>a. Len(moments') <= MaxMoves + 1 /\ 0 \in 0 .. 6 /\ 0 <= Len(Reads')
    BY <2>1, <2>3
  <2>b. step' \in 0 .. 6 /\ step' <= Len(Reads')
    BY <2>1, <2>a
  <2>c. pc' \in {"idle", "reading", "answered", "failed"} /\ unheard' \in BOOLEAN
    BY <2>1
  <2>5. TypeOK'
    BY <2>2, <2>4, <2>a, <2>b, <2>c, Zenon DEF TypeOK
  <2> QED  BY <2>1, <2>2, <2>5 DEF Types
<1>2. CASE OpenFails
  <2>1. UNCHANGED <<os, func, world>> /\ step' = 0 /\ got' = <<>> /\ pc' = "failed"
        /\ unheard' = FALSE /\ moments' = <<>>
    BY <1>2 DEF OpenFails
  <2>2. os' \in Systems /\ func' \in Functions(os')
    BY <2>1 DEF Types, TypeOK
  <2>3. Len(Reads)' \in 1 .. 6
    BY <2>2, PlanNext DEF Plan
  <2>4. DOMAIN got' = UNION {Reads'[k] : k \in 1 .. step'}
    BY <2>1
  <2>a. Len(moments') <= MaxMoves + 1 /\ 0 \in 0 .. 6 /\ 0 <= Len(Reads')
    BY <2>1, <2>3
  <2>b. step' \in 0 .. 6 /\ step' <= Len(Reads')
    BY <2>1, <2>a
  <2>c. pc' \in {"idle", "reading", "answered", "failed"} /\ unheard' \in BOOLEAN
    BY <2>1
  <2>5. TypeOK'
    BY <2>2, <2>4, <2>a, <2>b, <2>c, Zenon DEF TypeOK
  <2> QED  BY <2>1, <2>2, <2>5 DEF Types
<1>3. CASE Read \/ ReadFailsUnheard
  <2>1. PICK f : DOMAIN f = Reads[step + 1] /\ got' = Extend(got, f)
    <3>1. CASE Read
      <4> DEFINE f == [name \in Reads[step + 1] |-> Answers(world)[name]]
      <4>1. got' = Extend(got, f) /\ DOMAIN f = Reads[step + 1]
        BY <3>1 DEF Read
      <4> QED  BY <4>1
    <3>2. CASE ReadFailsUnheard
      <4> DEFINE f == [name \in Reads[step + 1] |-> Nothing]
      <4>1. got' = Extend(got, f) /\ DOMAIN f = Reads[step + 1]
        BY <3>2 DEF ReadFailsUnheard
      <4> QED  BY <4>1
    <3> QED  BY <1>3, <3>1, <3>2
  <2>2. UNCHANGED <<os, func, world, pc, moments>> /\ step' = step + 1
        /\ unheard' \in {unheard, TRUE} /\ pc = "reading" /\ step < Len(Reads)
    BY <1>3 DEF Read, ReadFailsUnheard
  <2>3. DOMAIN got' = UNION {Reads'[k] : k \in 1 .. step'} /\ step' \in 0 .. 6 /\ step' <= Len(Reads')
    BY <2>1, <2>2, NextTold
  <2>4. TypeOK'
    BY <2>2, <2>3 DEF Types, TypeOK
  <2> QED  BY <2>2, <2>4 DEF Types
<1>4. CASE ReadFails \/ Return
  <2>1. UNCHANGED <<os, func, world, got, step, unheard, moments>> /\ pc' \in {"failed", "answered"}
    BY <1>4 DEF ReadFails, Return
  <2>2. Reads' = Reads
    BY <2>1, SameReads
  <2>3. TypeOK'
    BY <2>1, <2>2 DEF Types, TypeOK
  <2> QED  BY <2>1, <2>3 DEF Types
<1>5. CASE Move
  <2>1. UNCHANGED <<os, func, pc, got, step, result, unheard>> /\ world' \in Worlds(func)
        /\ moments' = Append(moments, world') /\ Len(moments) <= MaxMoves
    BY <1>5 DEF Move
  <2>2. Reads' = Reads
    BY <2>1, SameReads
  <2>3. /\ moments' \in Seq(Worlds(func)) /\ moments' # <<>>
        /\ Len(moments') = Len(moments) + 1 /\ moments'[Len(moments')] = world'
    BY <2>1 DEF Types
  <2>4. TypeOK'
    BY <2>1, <2>2, <2>3 DEF Types, TypeOK
  <2> QED  BY <2>1, <2>2, <2>3, <2>4 DEF Types
<1>6. CASE UNCHANGED vars
  <2>1. Reads' = Reads
    BY <1>6, SameReads DEF vars
  <2> QED  BY <1>6, <2>1 DEF vars, Types, TypeOK
<1> QED  BY <1>1, <1>2, <1>3, <1>4, <1>5, <1>6 DEF Next

\* The types of Meters: a call never asks for more than the function's plan,
\* and at each moment knows what it has asked for and nothing else.
THEOREM MetersTypes == Spec => []TypeOK
<1>1. Types => TypeOK
  BY DEF Types
<1> QED  BY <1>1, InitTypes, NextTypes, PTL DEF Spec

-----------------------------------------------------------------------------
(* What an answer is made of                                                 *)

\* The last call's answer is what the function makes of what it was told, and
\* nothing has moved since.
Answered ==
    pc = "answered" =>
        /\ result \in Results /\ step = Len(Reads)
        /\ moments # <<>> /\ moments[Len(moments)] = world

LEMMA NextAnswered == Types /\ Answered /\ [Next]_vars => Answered'
<1> SUFFICES ASSUME Types, Answered, [Next]_vars, pc' = "answered"
             PROVE  /\ result' \in Results' /\ step' = Len(Reads)'
                    /\ moments' # <<>> /\ moments'[Len(moments')] = world'
  BY DEF Answered
<1>1. /\ UNCHANGED <<os, func, got, step, world, moments>> /\ result' \in Results /\ step = Len(Reads)
      /\ moments # <<>> /\ moments[Len(moments)] = world
  <2>1. CASE Return
    BY <2>1 DEF Return, Types
  <2>2. CASE UNCHANGED vars
    BY <2>2 DEF vars, Answered
  <2> QED  BY <2>1, <2>2 DEF Next, Begin, OpenFails, Read, ReadFails, ReadFailsUnheard, Move
<1>2. Reads' = Reads
  BY <1>1, SameReads
<1>3. Results' = Results
  BY <1>1 DEF Results
<1> QED  BY <1>1, <1>2, <1>3

-----------------------------------------------------------------------------
(* Memory that moves                                                         *)

Counters == [free : Nat, buffers : Nat, file : Nat, shmem : Nat, slab : Nat, rest : Nat]

\* A set of two.
LEMMA Pair ==
    ASSUME NEW S, IsFiniteSet(S), Cardinality(S) = 2
    PROVE  \E x, y \in S : x # y /\ S = {x, y}
<1>1. PICK x \in S : TRUE
  BY FS_EmptySet
<1>2. IsFiniteSet(S \ {x}) /\ Cardinality(S \ {x}) = 1
  BY <1>1, FS_RemoveElement
<1>3. PICK y : S \ {x} = {y}
  BY <1>2, FS_Singleton
<1> QED  BY <1>1, <1>3

\* A page that changes its use is in one place less and in one more.
OnePage(v, w) ==
    \E j, k \in {"free", "buffers", "file", "shmem", "slab", "rest"} :
       /\ j # k /\ v[j] = w[j] + 1 /\ v[k] = w[k] - 1
       /\ \A i \in {"free", "buffers", "file", "shmem", "slab", "rest"} \ {j, k} : v[i] = w[i]

LEMMA RamMoves ==
    ASSUME Types, Move, func \in RamFunctions
    PROVE  /\ world \in Counters /\ world' \in Counters
           /\ pages(world') = pages(world) /\ OnePage(world', world)
<1> DEFINE names == {"free", "buffers", "file", "shmem", "slab", "rest"}
           D == Differs(world, world')
<1>1. /\ world' \in Worlds(func) /\ pages(world') = pages(world) /\ Cardinality(D) = 2
      /\ \A k \in D : world'[k] - world[k] \in {-1, 1}
  BY DEF Move
<1>2. world \in Counters /\ world' \in Counters
  BY <1>1, RamAssumption DEF Types, Counters
<1>3. DOMAIN world = names /\ \A k \in names : world[k] \in Nat /\ world'[k] \in Nat
  BY <1>2 DEF Counters
<1>4. D = {k \in names : world[k] # world'[k]}
  BY <1>3 DEF Differs
<1>5. IsFiniteSet(names)
  <2>1. names = ({"free"} \cup {"buffers"}) \cup ({"file"} \cup {"shmem"}) \cup ({"slab"} \cup {"rest"})
    OBVIOUS
  <2>2. \A x, y : IsFiniteSet({x} \cup {y})
    BY FS_Singleton, FS_Union
  <2>3. IsFiniteSet(({"free"} \cup {"buffers"}) \cup ({"file"} \cup {"shmem"}))
    BY <2>2, FS_Union
  <2>4. IsFiniteSet({"slab"} \cup {"rest"})
    BY <2>2
  <2>5. IsFiniteSet((({"free"} \cup {"buffers"}) \cup ({"file"} \cup {"shmem"})) \cup ({"slab"} \cup {"rest"}))
    BY <2>3, <2>4, FS_Union
  <2> QED  BY <2>1, <2>5
<1>6. IsFiniteSet(D)
  BY <1>4, <1>5, FS_Subset
<1>7. PICK j \in D, k \in D : j # k /\ D = {j, k}
  BY <1>1, <1>6, Pair
<1>8. j \in names /\ k \in names /\ \A i \in names \ {j, k} : world'[i] = world[i]
  BY <1>4, <1>7
<1>9. \/ world'[j] = world[j] + 1 /\ world'[k] = world[k] - 1
      \/ world'[k] = world[k] + 1 /\ world'[j] = world[j] - 1
  <2>1. world'[j] - world[j] \in {-1, 1} /\ world'[k] - world[k] \in {-1, 1}
    BY <1>1, <1>7
  <2>2. (world'[j] - world[j]) + (world'[k] - world[k]) = 0
    BY <1>1, <1>3, <1>7, <1>8 DEF pages
  <2> QED  BY <1>3, <1>8, <2>1, <2>2
<1> QED  BY <1>1, <1>2, <1>7, <1>8, <1>9 DEF OnePage

\* What /proc/meminfo has said so far, in pages: what it has not been asked for
\* is still what it is now.
Told(s) ==
    /\ step >= 1 => got.MemTotal = pages(world) * PageKb
    /\ IF step >= 2 THEN got.MemFree = s.free * PageKb ELSE s.free = world.free
    /\ IF step >= 3 THEN got.Buffers = s.buffers * PageKb ELSE s.buffers = world.buffers
    /\ IF step >= 4 THEN got.Cached = s.cached * PageKb ELSE s.cached = world.file + world.shmem
    /\ IF step >= 5 THEN got.Shmem = s.shmem * PageKb ELSE s.shmem = world.shmem
    /\ IF step >= 6 THEN got.SReclaimable = s.slab * PageKb ELSE s.slab = world.slab
Pages == [free : Nat, buffers : Nat, cached : Nat, shmem : Nat, slab : Nat]

\* What these leave, beyond the pages that are in use.
Off(s) == (pages(world) - s.free - s.buffers - s.cached - s.slab + s.shmem) - (world.rest + world.shmem)

SumsUp == os = "linux" /\ func \in {"ram_used", "ram_perc"} /\ pc \in {"reading", "answered"}

\* Each page that moved counts once at most.
Sums == SumsUp => \E s \in Pages : Told(s) /\ Off(s) \in -(Len(moments) - 1) .. Len(moments) - 1

LEMMA RamReads ==
    ASSUME SumsUp
    PROVE  /\ func \in RamFunctions
           /\ Reads = <<{"MemTotal"}, {"MemFree"}, {"Buffers"}, {"Cached"}, {"Shmem"}, {"SReclaimable"}>>
<1>1. func \in RamFunctions
  BY DEF SumsUp, RamFunctions
<1>2. Reads = ram_reads(os, func)
  BY <1>1, ReadsIs
<1> QED  BY <1>1, <1>2 DEF SumsUp, ram_reads

\* A step changes the sum by one page at most, as one that was moved out of
\* what is still to be read may be moved into something else.
LEMMA OffMoves ==
    ASSUME NEW v \in Counters, NEW w \in Counters, OnePage(w, v), NEW n \in 0 .. 6,
           NEW s \in Pages, NEW r \in Pages,
           r.free    = IF n >= 2 THEN s.free ELSE s.free + (w.free - v.free),
           r.buffers = IF n >= 3 THEN s.buffers ELSE s.buffers + (w.buffers - v.buffers),
           r.cached  = IF n >= 4 THEN s.cached
                       ELSE s.cached + (w.file - v.file) + (w.shmem - v.shmem),
           r.shmem   = IF n >= 5 THEN s.shmem ELSE s.shmem + (w.shmem - v.shmem),
           r.slab    = IF n >= 6 THEN s.slab ELSE s.slab + (w.slab - v.slab)
    PROVE  LET now    == r.shmem - r.free - r.buffers - r.cached - r.slab - (w.rest + w.shmem)
               before == s.shmem - s.free - s.buffers - s.cached - s.slab - (v.rest + v.shmem)
           IN  now - before \in -1 .. 1
<1> DEFINE a == w.free - v.free
           b == w.buffers - v.buffers
           c == w.file - v.file
           d == w.shmem - v.shmem
           e == w.slab - v.slab
           f == w.rest - v.rest
           gain(x) == IF x > 0 THEN x ELSE 0
<1>1. /\ v.free \in Nat /\ v.buffers \in Nat /\ v.file \in Nat /\ v.shmem \in Nat /\ v.slab \in Nat /\ v.rest \in Nat
      /\ w.free \in Nat /\ w.buffers \in Nat /\ w.file \in Nat /\ w.shmem \in Nat /\ w.slab \in Nat /\ w.rest \in Nat
      /\ s.free \in Nat /\ s.buffers \in Nat /\ s.cached \in Nat /\ s.shmem \in Nat /\ s.slab \in Nat
      /\ r.free \in Nat /\ r.buffers \in Nat /\ r.cached \in Nat /\ r.shmem \in Nat /\ r.slab \in Nat
  BY DEF Counters, Pages
<1>2. /\ gain(a) + gain(b) + gain(c) + gain(d) + gain(e) + gain(f) = 1
      /\ gain(-a) + gain(-b) + gain(-c) + gain(-d) + gain(-e) + gain(-f) = 1
  <2>1. PICK j \in {"free", "buffers", "file", "shmem", "slab", "rest"},
             k \in {"free", "buffers", "file", "shmem", "slab", "rest"} :
          /\ j # k /\ w[j] = v[j] + 1 /\ w[k] = v[k] - 1
          /\ \A i \in {"free", "buffers", "file", "shmem", "slab", "rest"} \ {j, k} : w[i] = v[i]
    BY DEF OnePage
  <2>2. \A i \in {"free", "buffers", "file", "shmem", "slab", "rest"} :
           w[i] - v[i] = IF i = j THEN 1 ELSE IF i = k THEN -1 ELSE 0
    BY <1>1, <2>1
  <2>3. /\ a = (IF "free" = j THEN 1 ELSE IF "free" = k THEN -1 ELSE 0)
        /\ b = (IF "buffers" = j THEN 1 ELSE IF "buffers" = k THEN -1 ELSE 0)
        /\ c = (IF "file" = j THEN 1 ELSE IF "file" = k THEN -1 ELSE 0)
        /\ d = (IF "shmem" = j THEN 1 ELSE IF "shmem" = k THEN -1 ELSE 0)
        /\ e = (IF "slab" = j THEN 1 ELSE IF "slab" = k THEN -1 ELSE 0)
        /\ f = (IF "rest" = j THEN 1 ELSE IF "rest" = k THEN -1 ELSE 0)
    BY <2>2
  <2> HIDE DEF a, b, c, d, e, f
  <2>4. CASE j = "free"
    BY <2>1, <2>3, <2>4
  <2>5. CASE j = "buffers"
    BY <2>1, <2>3, <2>5
  <2>6. CASE j = "file"
    BY <2>1, <2>3, <2>6
  <2>7. CASE j = "shmem"
    BY <2>1, <2>3, <2>7
  <2>8. CASE j = "slab"
    BY <2>1, <2>3, <2>8
  <2>9. CASE j = "rest"
    BY <2>1, <2>3, <2>9
  <2> QED  BY <2>1, <2>4, <2>5, <2>6, <2>7, <2>8, <2>9
<1>3. a \in Int /\ b \in Int /\ c \in Int /\ d \in Int /\ e \in Int /\ f \in Int
  BY <1>1
<1>4. LET now    == r.shmem - r.free - r.buffers - r.cached - r.slab - (w.rest + w.shmem)
          before == s.shmem - s.free - s.buffers - s.cached - s.slab - (v.rest + v.shmem)
      IN  now - before =   (IF n >= 5 THEN 0 ELSE d) - (IF n >= 2 THEN 0 ELSE a) - (IF n >= 3 THEN 0 ELSE b)
                         - (IF n >= 4 THEN 0 ELSE c + d) - (IF n >= 6 THEN 0 ELSE e) - f - d
  <2>1. CASE n >= 5
    BY <1>1, <2>1
  <2>2. CASE n \in 3 .. 4
    BY <1>1, <2>2
  <2>3. CASE n = 2
    BY <1>1, <2>3
  <2>4. CASE n < 2
    BY <1>1, <2>4
  <2> QED  BY <2>1, <2>2, <2>3, <2>4
<1> HIDE DEF a, b, c, d, e, f
<1>5.   (IF n >= 5 THEN 0 ELSE d) - (IF n >= 2 THEN 0 ELSE a) - (IF n >= 3 THEN 0 ELSE b)
      - (IF n >= 4 THEN 0 ELSE c + d) - (IF n >= 6 THEN 0 ELSE e) - f - d \in -1 .. 1
  BY <1>2, <1>3
<1> QED  BY <1>4, <1>5

\* What a reading tells is so.
LEMMA RamTells ==
    ASSUME Types, SumsUp, Read, NEW s \in Pages, Told(s)
    PROVE  Told(s)'
<1> DEFINE f == [name \in Reads[step + 1] |-> Answers(world)[name]]
<1>1. /\ UNCHANGED <<os, func, world, pc, moments>> /\ step' = step + 1
      /\ got' = Extend(got, f) /\ step < Len(Reads)
  BY DEF Read
<1>2. Reads = <<{"MemTotal"}, {"MemFree"}, {"Buffers"}, {"Cached"}, {"Shmem"}, {"SReclaimable"}>>
      /\ func \in RamFunctions
  BY RamReads
<1>3. DOMAIN got = UNION {Reads[k] : k \in 1 .. step} /\ step \in 0 .. 5
  BY <1>1, <1>2 DEF Types, TypeOK
<1>4. /\ \A name \in DOMAIN got : got'[name] = got[name]
      /\ \A name \in Reads[step + 1] \ DOMAIN got : got'[name] = Answers(world)[name]
  <2>1. DOMAIN f = Reads[step + 1] /\ \A name \in Reads[step + 1] : f[name] = Answers(world)[name]
    OBVIOUS
  <2> HIDE DEF f
  <2>2. /\ \A name \in DOMAIN got : Extend(got, f)[name] = got[name]
        /\ \A name \in DOMAIN f \ DOMAIN got : Extend(got, f)[name] = f[name]
    BY Extended
  <2> QED  BY <1>1, <2>1, <2>2
<1>5. /\ Answers(world).MemTotal = pages(world) * PageKb
      /\ Answers(world).MemFree = world.free * PageKb
      /\ Answers(world).Buffers = world.buffers * PageKb
      /\ Answers(world).Cached = (world.file + world.shmem) * PageKb
      /\ Answers(world).Shmem = world.shmem * PageKb
      /\ Answers(world).SReclaimable = world.slab * PageKb
  <2>1. Answers(world) = Extend(meminfo(world), vmstat(world))
    BY <1>2 DEF Answers, RamFunctions, SwapFunctions, BatteryFunctions, DiskFunctions, Volumes,
                WifiFunctions, IpFunctions
  <2>2. \A name \in DOMAIN meminfo(world) : Answers(world)[name] = meminfo(world)[name]
    <3>1. \A name \in DOMAIN meminfo(world) :
             Extend(meminfo(world), vmstat(world))[name] = meminfo(world)[name]
      BY Extended
    <3> QED  BY <2>1, <3>1
  <2> QED  BY <2>2 DEF meminfo
<1> HIDE DEF f
<1>6. CASE step = 0
  <2>1. "MemTotal" \in Reads[step + 1] /\ "MemTotal" \notin DOMAIN got
    BY <1>2, <1>3, <1>6
  <2> QED  BY <1>1, <1>4, <1>5, <1>6, <2>1 DEF Told
<1>7. CASE step = 1
  <2>1. /\ "MemFree" \in Reads[step + 1] /\ "MemFree" \notin DOMAIN got
        /\ "MemTotal" \in DOMAIN got
    BY <1>2, <1>3, <1>7
  <2> QED  BY <1>1, <1>4, <1>5, <1>7, <2>1 DEF Told
<1>8. CASE step = 2
  <2>1. /\ "Buffers" \in Reads[step + 1] /\ "Buffers" \notin DOMAIN got
        /\ "MemTotal" \in DOMAIN got /\ "MemFree" \in DOMAIN got
    BY <1>2, <1>3, <1>8
  <2> QED  BY <1>1, <1>4, <1>5, <1>8, <2>1 DEF Told
<1>9. CASE step = 3
  <2>1. /\ "Cached" \in Reads[step + 1] /\ "Cached" \notin DOMAIN got
        /\ "MemTotal" \in DOMAIN got /\ "MemFree" \in DOMAIN got /\ "Buffers" \in DOMAIN got
    BY <1>2, <1>3, <1>9
  <2> QED  BY <1>1, <1>4, <1>5, <1>9, <2>1 DEF Told
<1>10. CASE step = 4
  <2>1. /\ "Shmem" \in Reads[step + 1] /\ "Shmem" \notin DOMAIN got
        /\ "MemTotal" \in DOMAIN got /\ "MemFree" \in DOMAIN got /\ "Buffers" \in DOMAIN got
        /\ "Cached" \in DOMAIN got
    BY <1>2, <1>3, <1>10
  <2> QED  BY <1>1, <1>4, <1>5, <1>10, <2>1 DEF Told
<1>11. CASE step = 5
  <2>1. /\ "SReclaimable" \in Reads[step + 1] /\ "SReclaimable" \notin DOMAIN got
        /\ "MemTotal" \in DOMAIN got /\ "MemFree" \in DOMAIN got /\ "Buffers" \in DOMAIN got
        /\ "Cached" \in DOMAIN got /\ "Shmem" \in DOMAIN got
    BY <1>2, <1>3, <1>11
  <2> QED  BY <1>1, <1>4, <1>5, <1>11, <2>1 DEF Told
<1> QED  BY <1>3, <1>6, <1>7, <1>8, <1>9, <1>10, <1>11

LEMMA NextSums == Types /\ Sums /\ [Next]_vars => Sums'
<1> SUFFICES ASSUME Types, Sums, [Next]_vars, SumsUp'
             PROVE  \E s \in Pages : Told(s)' /\ Off(s)' \in (-(Len(moments) - 1) .. Len(moments) - 1)'
  BY DEF Sums
<1>1. CASE Begin
  <2>1. UNCHANGED <<os, func, world>> /\ step' = 0 /\ moments' = <<world>>
    BY <1>1 DEF Begin
  <2>2. func \in RamFunctions
    BY <2>1 DEF SumsUp, RamFunctions
  <2>3. world \in Counters
    BY <2>2, RamAssumption DEF Types, Counters
  <2> DEFINE s == [free |-> world.free, buffers |-> world.buffers, cached |-> world.file + world.shmem,
                   shmem |-> world.shmem, slab |-> world.slab]
  <2>4. s \in Pages
    BY <2>3 DEF Counters, Pages
  <2>5. Told(s)'
    BY <2>1 DEF Told
  <2>6. Off(s)' = 0
    BY <2>1, <2>3 DEF Off, pages, Counters
  <2> QED  BY <2>1, <2>4, <2>5, <2>6
<1>2. CASE OpenFails
  BY <1>2 DEF OpenFails, SumsUp
<1>3. CASE Read
  <2>1. SumsUp /\ UNCHANGED <<world, moments>>
    BY <1>3 DEF Read, SumsUp
  <2>2. PICK s \in Pages : Told(s) /\ Off(s) \in -(Len(moments) - 1) .. Len(moments) - 1
    BY <2>1 DEF Sums
  <2>3. Told(s)'
    BY <1>3, <2>1, <2>2, RamTells
  <2>4. Off(s)' = Off(s)
    BY <2>1 DEF Off
  <2> QED  BY <2>1, <2>2, <2>3, <2>4
<1>4. CASE ReadFails \/ ReadFailsUnheard
  <2>1. CASE ReadFails
    BY <2>1 DEF ReadFails, SumsUp
  <2>2. CASE ReadFailsUnheard
    BY <2>2 DEF ReadFailsUnheard, Unchecked, SumsUp
  <2> QED  BY <1>4, <2>1, <2>2
<1>5. CASE Return \/ UNCHANGED vars
  <2>1. SumsUp /\ UNCHANGED <<world, moments, got, step>>
    BY <1>5 DEF Return, vars, SumsUp
  <2>2. PICK s \in Pages : Told(s) /\ Off(s) \in -(Len(moments) - 1) .. Len(moments) - 1
    BY <2>1 DEF Sums
  <2>3. Told(s)' /\ Off(s)' = Off(s)
    BY <2>1, <2>2 DEF Told, Off
  <2> QED  BY <2>1, <2>2, <2>3
<1>6. CASE Move
  <2>1. SumsUp /\ UNCHANGED <<got, step>> /\ moments' = Append(moments, world') /\ func \in RamFunctions
    BY <1>6 DEF Move, SumsUp, RamFunctions
  <2>2. PICK s \in Pages : Told(s) /\ Off(s) \in -(Len(moments) - 1) .. Len(moments) - 1
    BY <2>1 DEF Sums
  <2>3. world \in Counters /\ world' \in Counters /\ pages(world') = pages(world) /\ OnePage(world', world)
    BY <1>6, <2>1, RamMoves
  <2>4. step \in 0 .. 6 /\ Len(moments) \in Nat /\ Len(moments') = Len(moments) + 1
    BY <2>1 DEF Types, TypeOK
  <2>5. PICK r \in Pages :
             r = [free    |-> IF step >= 2 THEN s.free ELSE world'.free,
                  buffers |-> IF step >= 3 THEN s.buffers ELSE world'.buffers,
                  cached  |-> IF step >= 4 THEN s.cached ELSE world'.file + world'.shmem,
                  shmem   |-> IF step >= 5 THEN s.shmem ELSE world'.shmem,
                  slab    |-> IF step >= 6 THEN s.slab ELSE world'.slab]
    <3>1. /\ (IF step >= 2 THEN s.free ELSE world'.free) \in Nat
          /\ (IF step >= 3 THEN s.buffers ELSE world'.buffers) \in Nat
          /\ (IF step >= 4 THEN s.cached ELSE world'.file + world'.shmem) \in Nat
          /\ (IF step >= 5 THEN s.shmem ELSE world'.shmem) \in Nat
          /\ (IF step >= 6 THEN s.slab ELSE world'.slab) \in Nat
      BY <2>3 DEF Counters, Pages
    <3> QED  BY <3>1, Zenon DEF Pages
  <2>6. /\ r.free    = IF step >= 2 THEN s.free ELSE world'.free
        /\ r.buffers = IF step >= 3 THEN s.buffers ELSE world'.buffers
        /\ r.cached  = IF step >= 4 THEN s.cached ELSE world'.file + world'.shmem
        /\ r.shmem   = IF step >= 5 THEN s.shmem ELSE world'.shmem
        /\ r.slab    = IF step >= 6 THEN s.slab ELSE world'.slab
    BY <2>5
  <2>7. Told(r)'
    BY <2>1, <2>2, <2>3, <2>6 DEF Told
  <2>8. /\ world.free \in Nat /\ world.buffers \in Nat /\ world.file \in Nat /\ world.shmem \in Nat
        /\ world.slab \in Nat /\ world.rest \in Nat
        /\ world'.free \in Nat /\ world'.buffers \in Nat /\ world'.file \in Nat /\ world'.shmem \in Nat
        /\ world'.slab \in Nat /\ world'.rest \in Nat
        /\ s.free \in Nat /\ s.buffers \in Nat /\ s.cached \in Nat /\ s.shmem \in Nat /\ s.slab \in Nat
        /\ r.free \in Nat /\ r.buffers \in Nat /\ r.cached \in Nat /\ r.shmem \in Nat /\ r.slab \in Nat
    BY <2>3 DEF Counters, Pages
  <2>9. /\ r.free    = IF step >= 2 THEN s.free ELSE s.free + (world'.free - world.free)
        /\ r.buffers = IF step >= 3 THEN s.buffers ELSE s.buffers + (world'.buffers - world.buffers)
        /\ r.cached  = IF step >= 4 THEN s.cached
                       ELSE s.cached + (world'.file - world.file) + (world'.shmem - world.shmem)
        /\ r.shmem   = IF step >= 5 THEN s.shmem ELSE s.shmem + (world'.shmem - world.shmem)
        /\ r.slab    = IF step >= 6 THEN s.slab ELSE s.slab + (world'.slab - world.slab)
    <3>1. /\ step < 2 => s.free = world.free
          /\ step < 3 => s.buffers = world.buffers
          /\ step < 4 => s.cached = world.file + world.shmem
          /\ step < 5 => s.shmem = world.shmem
          /\ step < 6 => s.slab = world.slab
      BY <2>2, <2>4 DEF Told
    <3>2. /\ step < 2 => r.free = s.free + (world'.free - world.free)
          /\ step < 3 => r.buffers = s.buffers + (world'.buffers - world.buffers)
          /\ step < 4 => r.cached = s.cached + (world'.file - world.file) + (world'.shmem - world.shmem)
          /\ step < 5 => r.shmem = s.shmem + (world'.shmem - world.shmem)
          /\ step < 6 => r.slab = s.slab + (world'.slab - world.slab)
      <4>1. step < 2 => r.free = s.free + (world'.free - world.free)
        <5>1. step < 2 => r.free = world'.free /\ s.free = world.free
          BY <2>4, <2>6, <3>1
        <5>2. world.free \in Nat /\ world'.free \in Nat
          BY <2>8
        <5> QED  BY <5>1, <5>2
      <4>2. step < 3 => r.buffers = s.buffers + (world'.buffers - world.buffers)
        <5>1. step < 3 => r.buffers = world'.buffers /\ s.buffers = world.buffers
          BY <2>4, <2>6, <3>1
        <5>2. world.buffers \in Nat /\ world'.buffers \in Nat
          BY <2>8
        <5> QED  BY <5>1, <5>2
      <4>3. step < 4 => r.cached = s.cached + (world'.file - world.file) + (world'.shmem - world.shmem)
        <5>1. step < 4 => r.cached = world'.file + world'.shmem /\ s.cached = world.file + world.shmem
          BY <2>4, <2>6, <3>1
        <5> QED  BY <2>8, <5>1
      <4>4. step < 5 => r.shmem = s.shmem + (world'.shmem - world.shmem)
        <5>1. step < 5 => r.shmem = world'.shmem /\ s.shmem = world.shmem
          BY <2>4, <2>6, <3>1
        <5>2. world.shmem \in Nat /\ world'.shmem \in Nat
          BY <2>8
        <5> QED  BY <5>1, <5>2
      <4>5. step < 6 => r.slab = s.slab + (world'.slab - world.slab)
        <5>1. step < 6 => r.slab = world'.slab /\ s.slab = world.slab
          BY <2>4, <2>6, <3>1
        <5>2. world.slab \in Nat /\ world'.slab \in Nat
          BY <2>8
        <5> QED  BY <5>1, <5>2
      <4> QED  BY <4>1, <4>2, <4>3, <4>4, <4>5
    <3> QED  BY <2>4, <2>6, <3>2
  <2>10. LET now    == r.shmem - r.free - r.buffers - r.cached - r.slab - (world'.rest + world'.shmem)
             before == s.shmem - s.free - s.buffers - s.cached - s.slab - (world.rest + world.shmem)
         IN  now - before \in -1 .. 1
    BY <2>3, <2>4, <2>9, OffMoves
  <2>11. pages(world) \in Int
    BY <2>8 DEF pages
  <2>12. Off(r)' - Off(s) \in -1 .. 1 /\ Off(s) \in Int /\ Off(r)' \in Int
    BY <2>3, <2>8, <2>10, <2>11 DEF Off
  <2>13. Off(r)' \in -(Len(moments') - 1) .. Len(moments') - 1
    BY <2>2, <2>4, <2>12
  <2> QED  BY <2>7, <2>13
<1> QED  BY <1>1, <1>2, <1>3, <1>4, <1>5, <1>6 DEF Next

-----------------------------------------------------------------------------
(* Numbers                                                                   *)

LEMMA Division ==
    ASSUME NEW k \in Int, NEW n \in Nat \ {0}
    PROVE  /\ k % n \in 0 .. n - 1
           /\ k \div n \in Int
           /\ k = n * (k \div n) + (k % n)
  BY SMT

\* Quotient and remainder are the only ones.
LEMMA Unique ==
    ASSUME NEW k \in Int, NEW n \in Nat \ {0}, NEW q \in Int, NEW r \in 0 .. n - 1,
           k = n * q + r
    PROVE  k % n = r /\ k \div n = q
  BY SMT

LEMMA Product ==
    ASSUME NEW c \in Nat, NEW a \in Int, NEW b \in Int, a <= b
    PROVE  c * a \in Int /\ c * b \in Int /\ c * a <= c * b
  BY SMT

\* A number that fits does not wrap.
LEMMA Fits ==
    ASSUME NEW k \in Nat, NEW w \in Nat, k < w
    PROVE  k % w = k
<1>1. k = w * 0 + k /\ k \in 0 .. w - 1 /\ w \in Nat \ {0}
  OBVIOUS
<1> QED  BY <1>1, Unique

\* A common factor does not matter.
LEMMA Cancels ==
    ASSUME NEW k \in Nat, NEW n \in Nat \ {0}, NEW c \in Nat \ {0}
    PROVE  (k * c) \div (n * c) = k \div n
<1> DEFINE q == k \div n
           r == k % n
<1>1. r \in 0 .. n - 1 /\ q \in Int /\ k = n * q + r
  BY Division
<1> HIDE DEF q, r
<1>2. k * c = (n * c) * q + r * c
  BY <1>1, SMT
<1>3. n * c \in Nat \ {0}
  BY SMT
<1>4. r * c \in 0 .. n * c - 1
  BY <1>1, SMT
<1>5. (k * c) \div (n * c) = q
  BY <1>1, <1>2, <1>3, <1>4, Unique
<1> QED  BY <1>5 DEF q

\* A part in a hundred of n, and one more, is no less than what one page makes.
LEMMA DivNear ==
    ASSUME NEW n \in Nat \ {0}, NEW x \in Int, NEW m \in Nat, NEW d \in -m .. m
    PROVE  LET unit == 100 \div n + 1
           IN  (x + 100 * d) \div n - x \div n \in -unit * m .. unit * m
<1> DEFINE h == 100 \div n
           u == h + 1
           p == x \div n
           q == (x + 100 * d) \div n
<1>1. h \in Int /\ 100 <= n * h + (n - 1) /\ n * h <= 100
  BY Division
<1>2. p \in Int /\ n * p <= x /\ x <= n * p + (n - 1)
  BY Division
<1>3. q \in Int /\ n * q <= x + 100 * d /\ x + 100 * d <= n * q + (n - 1)
  BY Division
<1> HIDE DEF h, p, q
<1>4. u \in Int /\ n * u = n * h + n /\ 100 <= n * u
  BY <1>1, SMT
<1> HIDE DEF u
<1>5. u * m \in Int /\ 100 * m <= n * (u * m)
  <2>1. m * 100 <= m * (n * u)
    BY <1>4, Product
  <2> QED  BY <1>4, <2>1, SMT
<1> DEFINE um == u * m
<1> HIDE DEF um
<1>6. um \in Int /\ 100 * m <= n * um
  BY <1>5 DEF um
<1>7. n * (q - p) = n * q - n * p
  BY <1>2, <1>3, SMT
<1>8. n * q \in Int /\ n * p \in Int /\ n * um \in Int
  BY <1>2, <1>3, <1>6, SMT
<1>9. q - p <= um
  <2>1. SUFFICES ASSUME um + 1 <= q - p PROVE FALSE
    BY <1>2, <1>3, <1>6
  <2>2. n * (um + 1) <= n * (q - p) /\ n * (um + 1) = n * um + n
    <3>1. n * (um + 1) <= n * (q - p)
      BY <1>2, <1>3, <1>6, <2>1, Product
    <3> QED  BY <1>6, <3>1, SMT
  <2> QED  BY <1>2, <1>3, <1>6, <1>7, <1>8, <2>2
<1>10. -um <= q - p
  <2>1. SUFFICES ASSUME um + 1 <= p - q PROVE FALSE
    BY <1>2, <1>3, <1>6
  <2>2. n * (um + 1) <= n * (p - q) /\ n * (um + 1) = n * um + n /\ n * (p - q) = n * p - n * q
    <3>1. n * (um + 1) <= n * (p - q)
      BY <1>2, <1>3, <1>6, <2>1, Product
    <3> QED  BY <1>2, <1>3, <1>6, <3>1, SMT
  <2> QED  BY <1>2, <1>3, <1>6, <1>8, <2>2
<1>11. -u * m = -um
  BY <1>4, SMT DEF um
<1>12. q - p \in -u * m .. u * m
  BY <1>2, <1>3, <1>6, <1>9, <1>10, <1>11 DEF um
<1> QED  BY <1>12 DEF p, q, u, h

-----------------------------------------------------------------------------
(* Answers of one moment                                                     *)

\* Each system call of a call was answered at some moment of it, if none failed
\* unheard.
Heard ==
    pc \in {"reading", "answered"} /\ unheard = FALSE =>
        \A k \in 1 .. step : \E w \in Moments : \A name \in Reads[k] : got[name] = Answers(w)[name]

\* The moments only grow, and the present is one of them.
LEMMA MomentsGrow ==
    ASSUME NEW set, NEW list \in Seq(set), NEW w
    PROVE  /\ {list[k] : k \in DOMAIN list} \subseteq {Append(list, w)[k] : k \in DOMAIN Append(list, w)}
           /\ list # <<>> => list[Len(list)] \in {list[k] : k \in DOMAIN list}
<1>1. /\ DOMAIN list = 1 .. Len(list) /\ Len(list) \in Nat
      /\ DOMAIN Append(list, w) = 1 .. Len(list) + 1
      /\ \A k \in 1 .. Len(list) : Append(list, w)[k] = list[k]
  OBVIOUS
<1>2. \A k \in 1 .. Len(list) : k \in 1 .. Len(list) + 1
  BY <1>1
<1>3. list # <<>> => Len(list) \in 1 .. Len(list)
  OBVIOUS
<1> QED  BY <1>1, <1>2, <1>3

LEMMA NextHeard == Types /\ Heard /\ [Next]_vars => Heard'
<1> SUFFICES ASSUME Types, Heard, [Next]_vars, pc' \in {"reading", "answered"}, unheard' = FALSE,
                    NEW k \in 1 .. step'
             PROVE  \E w \in Moments' : \A name \in Reads'[k] : got'[name] = Answers(w)'[name]
  BY DEF Heard
<1>0. UNCHANGED func => \A w : Answers(w)' = Answers(w)
  BY DEF Answers
<1>1. CASE Begin \/ OpenFails \/ ReadFails \/ ReadFailsUnheard
  BY <1>1 DEF Begin, OpenFails, ReadFails, ReadFailsUnheard
<1>2. CASE Read
  <2> DEFINE f == [name \in Reads[step + 1] |-> Answers(world)[name]]
  <2>1. UNCHANGED <<os, func, world, unheard, moments>> /\ step' = step + 1
        /\ got' = Extend(got, f) /\ pc = "reading" /\ step < Len(Reads)
    BY <1>2 DEF Read
  <2>2. /\ step \in 0 .. 6 /\ DOMAIN got = UNION {Reads[j] : j \in 1 .. step}
        /\ os \in Systems /\ func \in Functions(os)
        /\ moments \in Seq(Worlds(func)) /\ moments # <<>> /\ moments[Len(moments)] = world
    BY <2>1 DEF Types, TypeOK
  <2>3. /\ DOMAIN f = Reads[step + 1]
        /\ \A name \in Reads[step + 1] : f[name] = Answers(world)[name]
    OBVIOUS
  <2> HIDE DEF f
  <2>4. Learns(f)
    BY <2>1, <2>2, <2>3 DEF Learns
  <2>5. Reads'[k] = Reads[k]
    <3>1. Grown(step + 1)
      BY <2>2, <2>4, ReadsGrow
    <3> QED  BY <2>1, <3>1 DEF Grown
  <2>6. Moments' = Moments /\ \A w : Answers(w)' = Answers(w)
    BY <1>0, <2>1 DEF Moments
  <2>7. CASE k = step + 1
    <3>1. world \in Moments
      BY <2>2, MomentsGrow DEF Moments
    <3>2. ASSUME NEW name \in Reads[step + 1] PROVE got'[name] = Answers(world)[name]
      <4>1. name \notin DOMAIN got
        <5>1. \A j \in 1 .. step : Reads[j] \cap Reads[step + 1] = {}
          <6>1. Plan(Reads)
            BY <2>2, ReadsPlan
          <6>2. step + 1 \in 1 .. Len(Reads) /\ \A j \in 1 .. step : j \in 1 .. Len(Reads) /\ j # step + 1
            BY <2>1, <2>2, <6>1 DEF Plan
          <6> QED  BY <6>1, <6>2 DEF Plan
        <5> QED  BY <2>2, <3>2, <5>1
      <4>2. name \in DOMAIN f \ DOMAIN got
        BY <2>3, <4>1
      <4>3. got'[name] = f[name]
        <5>1. \A n \in DOMAIN f \ DOMAIN got : Extend(got, f)[n] = f[n]
          BY Extended
        <5> QED  BY <2>1, <4>2, <5>1
      <4> QED  BY <2>3, <4>3
    <3> QED  BY <2>5, <2>6, <2>7, <3>1, <3>2
  <2>8. CASE k # step + 1
    <3>1. k \in 1 .. step
      BY <2>1, <2>2, <2>8
    <3>2. PICK w \in Moments : \A name \in Reads[k] : got[name] = Answers(w)[name]
      BY <2>1, <3>1 DEF Heard
    <3>3. \A name \in Reads[k] : got'[name] = got[name]
      BY <2>4, <3>1, First
    <3> QED  BY <2>5, <2>6, <3>2, <3>3
  <2> QED  BY <2>7, <2>8
<1>3. CASE Return \/ UNCHANGED vars
  <2>1. UNCHANGED <<os, func, got, step, unheard, moments>> /\ pc \in {"reading", "answered"}
    BY <1>3 DEF Return, vars
  <2>2. Reads' = Reads /\ Moments' = Moments
    BY <2>1, SameReads DEF Moments
  <2> QED  BY <1>0, <2>1, <2>2 DEF Heard
<1>4. CASE Move
  <2>1. UNCHANGED <<os, func, got, step, unheard>> /\ pc = "reading" /\ moments' = Append(moments, world')
    BY <1>4 DEF Move
  <2>2. Reads' = Reads /\ Moments \subseteq Moments'
    BY <2>1, SameReads, MomentsGrow DEF Moments, Types
  <2>3. PICK w \in Moments : \A name \in Reads[k] : got[name] = Answers(w)[name]
    BY <2>1 DEF Heard
  <2> QED  BY <1>0, <2>1, <2>2, <2>3
<1> QED  BY <1>1, <1>2, <1>3, <1>4 DEF Next

\* A call's answers are those of one moment of it.
AtOnce == \E w \in Moments : \A name \in DOMAIN got : got[name] = Answers(w)[name]

\* If no more than one answer can change, some moment is that of all of them.
LEMMA OneMomentIsEnough ==
    Types /\ Answered /\ Heard /\ pc = "answered" /\ unheard = FALSE /\ Steady => AtOnce
<1> SUFFICES ASSUME Types, Answered, Heard, pc = "answered", unheard = FALSE, Steady PROVE AtOnce
  OBVIOUS
<1> DEFINE Moving(k) == \E name \in Reads[k], v, w \in Moments : Answers(v)[name] # Answers(w)[name]
           C == {k \in 1 .. step : Moving(k)}
<1>1. step \in Nat /\ DOMAIN got = UNION {Reads[k] : k \in 1 .. step} /\ world \in Moments
  BY MomentsGrow DEF Types, TypeOK, Answered, Moments
<1>2. \A k \in 1 .. step : \E w \in Moments : \A name \in Reads[k] : got[name] = Answers(w)[name]
  BY DEF Heard
<1>3. \A j, k \in C : j = k
  <2>1. Cardinality(C) <= 1
    BY DEF Steady
  <2>2. IsFiniteSet(C)
    <3>1. C \subseteq 1 .. step
      OBVIOUS
    <3>2. IsFiniteSet(1 .. step)
      BY <1>1, FS_Interval
    <3> HIDE DEF C
    <3> QED  BY <3>1, <3>2, FS_Subset
  <2> HIDE DEF C
  <2>3. ASSUME NEW j \in C, NEW k \in C, j # k PROVE FALSE
    <3>1. Cardinality({j, k}) = 2 /\ {j, k} \subseteq C
      <4>1. IsFiniteSet({k}) /\ Cardinality({k}) = 1
        BY FS_Singleton
      <4>2. Cardinality({k} \cup {j}) = IF j \in {k} THEN 1 ELSE 1 + 1
        BY <4>1, FS_AddElement
      <4>3. {k} \cup {j} = {j, k} /\ j \notin {k}
        BY <2>3
      <4> QED  BY <4>2, <4>3
    <3>2. Cardinality({j, k}) <= Cardinality(C) /\ Cardinality(C) \in Nat
      BY <2>2, <3>1, FS_Subset, FS_CardinalityType
    <3> QED  BY <2>1, <3>1, <3>2
  <2> QED  BY <2>3
<1>4. PICK w \in Moments : \A k \in C : \A name \in Reads[k] : got[name] = Answers(w)[name]
  <2>1. CASE C = {}
    BY <1>1, <2>1
  <2>2. CASE C # {}
    <3>1. PICK c \in C : TRUE
      BY <2>2
    <3>2. PICK w \in Moments : \A name \in Reads[c] : got[name] = Answers(w)[name]
      BY <1>2, <3>1
    <3>3. \A k \in C : k = c
      BY <1>3, <3>1
    <3> HIDE DEF C
    <3> QED  BY <3>2, <3>3
  <2> QED  BY <2>1, <2>2
<1>5. ASSUME NEW k \in 1 .. step, NEW name \in Reads[k] PROVE got[name] = Answers(w)[name]
  <2>1. CASE k \in C
    BY <1>4, <1>5, <2>1
  <2>2. CASE k \notin C
    <3>1. PICK v \in Moments : got[name] = Answers(v)[name]
      BY <1>2, <1>5
    <3>2. Answers(v)[name] = Answers(w)[name]
      BY <1>4, <1>5, <2>2, <3>1
    <3> QED  BY <3>1, <3>2
  <2> QED  BY <2>1, <2>2
<1> QED  BY <1>1, <1>4, <1>5 DEF AtOnce

\* Whatever a call asks for one after the other (ram.c:38-43, battery.c:88-99,
\* backlight.c:20-25, keymap.c:66-70): if no more than one of the answers can
\* change during the call, and no system call fails of which the error is not
\* looked at, there is a moment at which all of them were right.
THEOREM AnswersOfOneMoment ==
    Spec => [](pc = "answered" /\ unheard = FALSE /\ Steady => AtOnce)
<1>1. Init => Types /\ Answered /\ Heard
  BY InitTypes DEF Init, Answered, Heard
<1>2. Types /\ Answered /\ Heard /\ [Next]_vars => (Types /\ Answered /\ Heard)'
  BY NextTypes, NextAnswered, NextHeard
<1> QED  BY <1>1, <1>2, OneMomentIsEnough, PTL DEF Spec

-----------------------------------------------------------------------------
(* What ram_used and ram_perc show                                           *)

\* The pages that are in use are among them all.
LEMMA PagesOf ==
    ASSUME NEW w \in Counters
    PROVE  pages(w) \in Nat /\ w.rest + w.shmem \in Nat /\ w.rest + w.shmem <= pages(w)
<1>1. /\ w.free \in Nat /\ w.buffers \in Nat /\ w.file \in Nat
      /\ w.shmem \in Nat /\ w.slab \in Nat /\ w.rest \in Nat
  BY DEF Counters
<1> QED  BY <1>1 DEF pages

\* How many moves a call has seen.
LEMMA MovesBound ==
    ASSUME Types, Answered, pc = "answered"
    PROVE  Len(moments) - 1 \in 0 .. MaxMoves
<1>1. moments \in Seq(Worlds(func)) /\ moments # <<>> /\ Len(moments) <= MaxMoves + 1
  BY DEF Types, TypeOK, Answered
<1> QED  BY <1>1

\* The number of pages that are counted as used is no more than has moved
\* beyond what is, and fits.
LEMMA Counted ==
    ASSUME Types, Answered, Sums, pc = "answered", os = "linux", func \in {"ram_used", "ram_perc"},
           world.rest + world.shmem >= Len(moments) - 1
    PROVE  \E d \in -(Len(moments) - 1) .. Len(moments) - 1 :
              LET n == world.rest + world.shmem + d
              IN  /\ n \in Nat /\ n <= pages(world) + MaxMoves
                  /\ busy(got) = n * PageKb
                  /\ got.MemTotal = pages(world) * PageKb
                  /\ 100 * (n * Page) < W
<1> DEFINE m == Len(moments) - 1
           R == world.rest + world.shmem
           A == pages(world)
<1>1. SumsUp
  BY DEF SumsUp
<1>2. step = 6 /\ func \in RamFunctions
  BY <1>1, RamReads DEF Answered
<1>3. PICK s \in Pages : Told(s) /\ Off(s) \in -m .. m
  BY <1>1 DEF Sums
<1>4. m \in 0 .. MaxMoves
  BY MovesBound
<1>5. /\ world \in Counters /\ A > 0 /\ 100 * (A + MaxMoves) * Page < W
  BY <1>2, RamAssumption DEF Types, Counters
<1>6. A \in Nat /\ R \in Nat /\ R <= A
  BY <1>5, PagesOf
<1> DEFINE free_   == s.free
           buffers_ == s.buffers
           cached_  == s.cached
           shmem_   == s.shmem
           slab_    == s.slab
<1>7. free_ \in Nat /\ buffers_ \in Nat /\ cached_ \in Nat /\ shmem_ \in Nat /\ slab_ \in Nat
  BY DEF Pages
<1>8. /\ got.MemTotal = A * PageKb /\ got.MemFree = free_ * PageKb
      /\ got.Buffers = buffers_ * PageKb /\ got.Cached = cached_ * PageKb
      /\ got.Shmem = shmem_ * PageKb /\ got.SReclaimable = slab_ * PageKb
  BY <1>2, <1>3 DEF Told
<1> DEFINE d == Off(s)
           n == R + d
           x == A - free_ - buffers_ - cached_ - slab_ + shmem_
<1>9. d = x - R
  BY DEF Off
<1>10. d \in -m .. m
  BY <1>3
<1>0. R >= m
  OBVIOUS
<1> HIDE DEF m, A, R, d, free_, buffers_, cached_, shmem_, slab_
<1>11. n \in Nat /\ n <= A + MaxMoves /\ n = x
  <2>1. m \in Nat /\ m <= MaxMoves /\ d \in Int /\ -m <= d /\ d <= m
    BY <1>4, <1>10
  <2>2. n \in Nat /\ n <= A + MaxMoves
    BY <1>0, <1>6, <2>1
  <2>3. x \in Int
    BY <1>6, <1>7
  <2> HIDE DEF x
  <2>4. n = x
    BY <1>6, <1>9, <2>3
  <2> QED  BY <2>2, <2>4
<1>12. got.MemTotal - got.MemFree - got.Buffers - got.Cached - got.SReclaimable + got.Shmem = n * PageKb
  <2>1. /\ PageKb \in Int /\ A \in Int /\ free_ \in Int /\ buffers_ \in Int /\ cached_ \in Int
        /\ slab_ \in Int /\ shmem_ \in Int
    BY <1>6, <1>7, WidthAssumption
  <2>2. A * PageKb - free_ * PageKb - buffers_ * PageKb - cached_ * PageKb - slab_ * PageKb + shmem_ * PageKb
        = x * PageKb
    BY <2>1, SMT
  <2> QED  BY <1>8, <1>11, <2>2
<1> HIDE DEF n
<1>13. Page \in Nat /\ PageKb \in Nat \ {0} /\ PageKb <= Page
  <2>1. PageKb * 1 <= PageKb * Kilo
    BY WidthAssumption, Product
  <2> QED  BY <2>1, WidthAssumption, SMT DEF Page
<1>14. 100 * (n * Page) < W
  <2>1. Page * n <= Page * (A + MaxMoves)
    BY <1>6, <1>11, <1>13, Product, BoundsAssumption
  <2>2. 100 * (A + MaxMoves) * Page = 100 * (Page * (A + MaxMoves))
    BY <1>6, <1>13, SMT
  <2>3. Page * n = n * Page
    BY <1>11, <1>13, SMT
  <2>4. Page * n \in Int /\ Page * (A + MaxMoves) \in Int
    BY <1>6, <1>11, <1>13, SMT
  <2>5. 100 * (A + MaxMoves) * Page < W
    BY <1>5 DEF A
  <2> QED  BY <2>1, <2>2, <2>3, <2>4, <2>5, WidthAssumption
<1>15. n * PageKb \in Nat /\ n * PageKb < W
  <2>1. n * PageKb <= n * Page
    BY <1>11, <1>13, Product
  <2>2. n * PageKb \in Nat /\ n * Page \in Nat
    BY <1>11, <1>13, SMT
  <2> QED  BY <1>14, <2>1, <2>2, WidthAssumption
<1>16. busy(got) = n * PageKb
  <2>1. busy(got) = (n * PageKb) % W
    BY <1>12 DEF busy, Unsigned
  <2> QED  BY <1>15, <2>1, Fits, WidthAssumption
<1>17. got.MemTotal = pages(world) * PageKb
  BY <1>8 DEF A
<1> QED  BY <1>10, <1>11, <1>14, <1>16, <1>17 DEF n, R, m, A

\* Memory that moves while it is read makes ram_used and ram_perc wrong by no
\* more pages than have moved (ram.c:52, 88), unless less is in use than moves.
THEOREM MemoryWithin == Spec => []RamWithin
<1> DEFINE I == Types /\ Answered /\ Sums
<1>1. Init => I
  <2>1. Init => Answered /\ Sums
    BY DEF Init, Answered, Sums, SumsUp
  <2> QED  BY <2>1, InitTypes
<1>2. I /\ [Next]_vars => I'
  BY NextTypes, NextAnswered, NextSums
<1>3. I => RamWithin
  <2> SUFFICES ASSUME I, pc = "answered", os = "linux", func \in {"ram_used", "ram_perc"},
                      moments[Len(moments) - 1 + 1].rest + moments[Len(moments) - 1 + 1].shmem
                         >= Len(moments) - 1
               PROVE  LET last == moments[Len(moments) - 1 + 1]
                          near(unit) == \E v \in Truth(last) :
                             result - v \in -unit * (Len(moments) - 1) .. unit * (Len(moments) - 1)
                      IN  IF func = "ram_used" THEN near(Page) ELSE near(100 \div pages(last) + 1)
    BY DEF RamWithin
  <2> DEFINE m == Len(moments) - 1
             R == world.rest + world.shmem
             A == pages(world)
  <2>1. moments[Len(moments) - 1 + 1] = world /\ m \in 0 .. MaxMoves
    <3>1. moments \in Seq(Worlds(func)) /\ moments # <<>> /\ moments[Len(moments)] = world
      BY DEF Types, Answered
    <3> QED  BY <3>1, MovesBound
  <2>2. PICK d \in -m .. m : /\ R + d \in Nat /\ R + d <= A + MaxMoves
                             /\ busy(got) = (R + d) * PageKb
                             /\ got.MemTotal = A * PageKb
                             /\ 100 * ((R + d) * Page) < W
    BY <2>1, Counted
  <2>3. func \in RamFunctions
    BY DEF RamFunctions
  <2>4. world \in Counters /\ A > 0
    BY <2>3, RamAssumption DEF Types, Counters
  <2>5. A \in Nat \ {0} /\ R \in Nat /\ R <= A
    <3>1. pages(world) \in Nat /\ R \in Nat /\ R <= pages(world) /\ pages(world) > 0
      BY <2>4, PagesOf
    <3> HIDE DEF R
    <3> QED  BY <3>1
  <2>6. Truth(world) = {ram_truth(os, func, world)}
    BY <2>3 DEF Truth, RamFunctions, SwapFunctions, BatteryFunctions, DiskFunctions, Volumes,
                WifiFunctions, IpFunctions
  <2>7. result = IF func = "ram_used" THEN Unsigned(busy(got) * Kilo, W)
                 ELSE IF got.MemTotal = 0 THEN NULL
                 ELSE Signed(Unsigned(100 * busy(got), W) \div got.MemTotal, W32)
    <3>1. Results = ram(os, func, got)
      BY <2>3 DEF Results, RamFunctions, SwapFunctions, BatteryFunctions, DiskFunctions, Volumes,
                  WifiFunctions, IpFunctions
    <3>2. result \in Results
      BY DEF Answered
    <3>3. ram(os, func, got) = ram_linux(func, got)
      BY DEF ram
    <3>4. result \in ram_linux(func, got)
      BY <3>1, <3>2, <3>3
    <3> QED  BY <2>3, <3>4 DEF ram_linux
  <2>8. Page \in Nat /\ PageKb \in Nat \ {0} /\ Kilo \in Nat \ {0} /\ Page = PageKb * Kilo
    BY WidthAssumption, SMT DEF Page
  <2> DEFINE n == R + d
  <2>9. n \in Nat /\ n <= A + MaxMoves /\ n * Page \in Nat /\ 100 * (n * Page) < W /\ W \in Nat
    BY <2>2, <2>8, WidthAssumption, SMT
  <2> HIDE DEF n, m, R, A
  <2>10. CASE func = "ram_used"
    <3>1. result = (n * PageKb * Kilo) % W
      BY <2>2, <2>7, <2>10 DEF Unsigned, n
    <3>2. n * PageKb * Kilo = n * Page
      BY <2>8, <2>9, SMT
    <3>3. result = n * Page
      BY <2>9, <3>1, <3>2, Fits
    <3>4. ram_truth(os, func, world) = R * Page
      BY <2>10 DEF ram_truth, amount, R
    <3>5. n * Page - R * Page \in -Page * m .. Page * m
      <4>1. n * Page - R * Page = Page * d
        BY <2>2, <2>5, <2>8, SMT DEF n
      <4>2. Page * d <= Page * m /\ Page * (-m) <= Page * d /\ Page * d \in Int /\ Page * m \in Int
        BY <2>1, <2>2, <2>8, Product, BoundsAssumption
      <4>3. -Page * m = Page * (-m)
        BY <2>1, <2>8, SMT
      <4>4. -Page * m \in Int
        BY <2>1, <2>8, SMT
      <4> QED  BY <4>1, <4>2, <4>3, <4>4
    <3> QED  BY <2>1, <2>6, <2>10, <3>3, <3>4, <3>5 DEF m
  <2>11. CASE func = "ram_perc"
    <3>1. got.MemTotal # 0
      BY <2>2, <2>5, <2>8, SMT
    <3>2. result = Signed(Unsigned(100 * (n * PageKb), W) \div (A * PageKb), W32)
      BY <2>2, <2>7, <2>11, <3>1 DEF n
    <3>3. 100 * (n * PageKb) \in Nat /\ 100 * (n * PageKb) < W
      <4>1. PageKb * 1 <= PageKb * Kilo
        BY <2>8, Product
      <4>2. n * PageKb <= n * Page
        BY <2>8, <2>9, <4>1, Product
      <4>3. n * PageKb \in Nat
        BY <2>8, <2>9, SMT
      <4> QED  BY <2>9, <4>2, <4>3
    <3>4. Unsigned(100 * (n * PageKb), W) = (100 * n) * PageKb
      <4>1. (100 * (n * PageKb)) % W = 100 * (n * PageKb)
        BY <2>9, <3>3, Fits
      <4>2. 100 * (n * PageKb) = (100 * n) * PageKb
        BY <2>8, <2>9, SMT
      <4> QED  BY <4>1, <4>2 DEF Unsigned
    <3>5. ((100 * n) * PageKb) \div (A * PageKb) = (100 * n) \div A
      BY <2>5, <2>8, <2>9, Cancels
    <3>6. (100 * n) \div A \in 0 .. 100 * (MaxMoves + 1)
      <4> DEFINE q == (100 * n) \div A
      <4>1. q \in Int /\ A * q <= 100 * n /\ 100 * n <= A * q + (A - 1)
        <5>1. 100 * n \in Int
          BY <2>9
        <5>2. A \in Nat \ {0}
          BY <2>5
        <5>3. /\ (100 * n) % A \in 0 .. A - 1 /\ (100 * n) \div A \in Int
              /\ 100 * n = A * ((100 * n) \div A) + ((100 * n) % A)
          BY <5>1, <5>2, Division
        <5> DEFINE r == (100 * n) % A
        <5>4. r \in 0 .. A - 1 /\ q \in Int /\ 100 * n = A * q + r
          BY <5>3
        <5> HIDE DEF q, r
        <5>5. A * q \in Int
          BY <5>2, <5>4, SMT
        <5> QED  BY <5>1, <5>2, <5>4, <5>5
      <4> HIDE DEF q
      <4>2. 0 <= q
        <5>1. SUFFICES ASSUME q <= -1 PROVE FALSE
          BY <4>1
        <5>2. A * q <= A * (-1) /\ A * q \in Int
          BY <2>5, <4>1, <5>1, Product
        <5> QED  BY <2>5, <2>9, <4>1, <5>2
      <4>3. q <= 100 * (MaxMoves + 1)
        <5>1. SUFFICES ASSUME 100 * (MaxMoves + 1) + 1 <= q PROVE FALSE
          BY <4>1
        <5>2. A * (100 * (MaxMoves + 1) + 1) <= A * q
          BY <2>5, <4>1, <5>1, Product
        <5>3. A * (100 * (MaxMoves + 1) + 1) = 100 * (A * MaxMoves) + 100 * A + A
          BY <2>5, SMT
        <5>4. MaxMoves * 1 <= MaxMoves * A
          BY <2>5, Product
        <5>5. MaxMoves * A = A * MaxMoves /\ A * MaxMoves \in Int /\ A * q \in Int
          BY <2>5, <4>1, SMT
        <5> QED  BY <2>5, <2>9, <4>1, <5>2, <5>3, <5>4, <5>5
      <4> QED  BY <4>1, <4>2, <4>3 DEF q
    <3>7. result = (100 * n) \div A
      <4> DEFINE q == (100 * n) \div A
      <4>1. result = Signed(q, W32) /\ q \in 0 .. 100 * (MaxMoves + 1)
        BY <3>2, <3>4, <3>5, <3>6
      <4> HIDE DEF q
      <4>2. q \in Nat /\ W32 \in Nat /\ q < W32 \div 2 /\ q < W32
        BY <4>1, WidthAssumption
      <4>3. q % W32 = q
        BY <4>2, Fits
      <4> QED  BY <4>1, <4>2, <4>3 DEF Signed, q
    <3>8. ram_truth(os, func, world) = (100 * R) \div A
      BY <2>5, <2>11 DEF ram_truth, amount, R, A
    <3>9. (100 * n) \div A - (100 * R) \div A \in -(100 \div A + 1) * m .. (100 \div A + 1) * m
      <4>1. 100 * n = 100 * R + 100 * d
        BY <2>2, <2>5 DEF n
      <4>2. 100 * R \in Int /\ m \in Nat
        BY <2>1, <2>5
      <4> QED  BY <2>2, <2>5, <4>1, <4>2, DivNear
    <3> QED  BY <2>1, <2>6, <2>11, <3>7, <3>8, <3>9 DEF m, A
  <2> QED  BY <2>10, <2>11
<1> QED  BY <1>1, <1>2, <1>3, PTL DEF Spec

-----------------------------------------------------------------------------
(* What the functions make of the answers of one moment                      *)

\* Which definitions a function's family comes with.
LEMMA Families ==
    ASSUME NEW w
    PROVE  /\ func \in RamFunctions =>
                /\ Answers(w) = Extend(meminfo(w), vmstat(w)) /\ Results = ram(os, func, got)
                /\ Truth(w) = {ram_truth(os, func, w)} /\ Gap(w) = ram_gap(os, func, w)
           /\ func \in SwapFunctions =>
                /\ Answers(w) = swapinfo(w) /\ Results = swap(os, func, got)
                /\ Truth(w) = {swap_truth(os, func, w)} /\ Gap(w) = swap_gap(os, func, w)
           /\ func \in BatteryFunctions =>
                /\ Answers(w) = Extend(power_supply(w), apm_acpi(w)) /\ Results = battery(os, func, got)
                /\ Truth(w) = {battery_truth(os, func, w)} /\ Gap(w) = battery_gap(os, func, w)
           /\ func = "backlight_perc" =>
                /\ Answers(w) = brightness(w) /\ Results = backlight_perc(os, got)
                /\ Truth(w) = {backlight_truth(w)} /\ Gap(w) = backlight_gap(os, w)
           /\ func = "temp" =>
                /\ Answers(w) = thermal(w) /\ Results = temp(os, got)
                /\ Truth(w) = {temp_truth(os, w)} /\ Gap(w) = temp_gap(os, w)
           /\ func \in DiskFunctions =>
                /\ Answers(w) = statvfs(w) /\ Results = disk(func, got)
                /\ Truth(w) = disk_truth(func, w) /\ Gap(w) = disk_gap(func, w)
           /\ func = "vol_perc (ALSA)" =>
                /\ Answers(w) = mixer(w) /\ Results = vol_perc_alsa(got)
                /\ Truth(w) = alsa_truth(w) /\ Gap(w) = alsa_gap(w)
           /\ func = "vol_perc (OSS)" =>
                /\ Answers(w) = mixer(w) /\ Results = vol_perc_oss(got) /\ Truth(w) = oss_truth(w)
           /\ func \in WifiFunctions =>
                /\ Answers(w) = net80211(w) /\ Results = wifi(os, func, got)
                /\ Truth(w) = {wifi_truth(os, func, w)}
           /\ func \in IpFunctions =>
                /\ Answers(w) = ifaddrs(w) /\ Results = ip_or_up(func, got, Interface)
                /\ Truth(w) = ip_truth(func, w, Interface) /\ Gap(w) = ip_gap(func, w, Interface)
           /\ func = "num_files" =>
                /\ Answers(w) = readdir(w) /\ Results = num_files(got) /\ Truth(w) = num_files_truth(w)
<1> USE DEF Answers, Results, Truth, Gap
<1>1. func \in RamFunctions => (Answers(w) = Extend(meminfo(w), vmstat(w)) /\ Results = ram(os, func, got)
                /\ Truth(w) = {ram_truth(os, func, w)} /\ Gap(w) = ram_gap(os, func, w))
  BY DEF RamFunctions, SwapFunctions, BatteryFunctions, DiskFunctions, WifiFunctions, IpFunctions, Volumes
<1> QED
  BY DEF RamFunctions, SwapFunctions, BatteryFunctions, DiskFunctions, WifiFunctions, IpFunctions, Volumes

\* All that a call asks for is answered as in w.
Tells(w) == \A k \in 1 .. Len(Reads) : \A name \in Reads[k] : got[name] = Answers(w)[name]

\* What is asked about memory, in a world.
LEMMA RamAnswers ==
    ASSUME NEW w
    PROVE  LET a == Extend(meminfo(w), vmstat(w))
           IN  /\ a.MemTotal = pages(w) * PageKb /\ a.MemFree = w.free * PageKb
               /\ a.Buffers = w.buffers * PageKb /\ a.Cached = (w.file + w.shmem) * PageKb
               /\ a.Shmem = w.shmem * PageKb /\ a.SReclaimable = w.slab * PageKb
               /\ a.npages = pages(w) /\ a.active = w.rest /\ a.t_free = w.free
<1> DEFINE m == meminfo(w)
           v == vmstat(w)
<1>1. /\ DOMAIN m = {"MemTotal", "MemFree", "Buffers", "Cached", "Shmem", "SReclaimable"}
      /\ m.MemTotal = pages(w) * PageKb /\ m.MemFree = w.free * PageKb
      /\ m.Buffers = w.buffers * PageKb /\ m.Cached = (w.file + w.shmem) * PageKb
      /\ m.Shmem = w.shmem * PageKb /\ m.SReclaimable = w.slab * PageKb
  BY DEF meminfo
<1>2. /\ DOMAIN v = {"npages", "active", "t_free"}
      /\ v.npages = pages(w) /\ v.active = w.rest /\ v.t_free = w.free
  BY DEF vmstat
<1> HIDE DEF m, v
<1>3. /\ \A name \in DOMAIN m : Extend(m, v)[name] = m[name]
      /\ \A name \in DOMAIN v \ DOMAIN m : Extend(m, v)[name] = v[name]
  BY Extended
<1> QED  BY <1>1, <1>2, <1>3 DEF m, v

\* Numbers that fit are not changed by any conversion.
LEMMA Kept ==
    ASSUME NEW n \in Nat, NEW w \in Nat
    PROVE  /\ n < w => Unsigned(n, w) = n
           /\ n < w \div 2 => Signed(n, w) = n /\ Overflow(n, w) = {n}
<1>1. n < w => n % w = n
  BY Fits
<1>2. n < w \div 2 => n < w
  <2>1. w % 2 \in 0 .. 1 /\ w \div 2 \in Int /\ w = 2 * (w \div 2) + (w % 2)
    BY Division
  <2> QED  BY <2>1
<1>3. n < w \div 2 => Signed(n, w) = n
  BY <1>1, <1>2 DEF Signed
<1> QED  BY <1>1, <1>3 DEF Unsigned, Overflow

\* A share in percent.
LEMMA ShareRange ==
    ASSUME NEW b \in Nat, NEW n \in Nat \ {0}, b <= n
    PROVE  (100 * b) \div n \in 0 .. 100
<1> DEFINE k == 100 * b
           q == k \div n
<1>1. k \in Nat /\ k <= 100 * n
  OBVIOUS
<1> HIDE DEF k
<1>2. q \in Int /\ n * q <= k /\ k <= n * q + (n - 1)
  <2>1. k % n \in 0 .. n - 1 /\ k \div n \in Int /\ k = n * (k \div n) + (k % n)
    BY <1>1, Division
  <2> DEFINE d == k \div n
             r == k % n
             nd == n * d
  <2>2. d \in Int /\ r \in 0 .. n - 1 /\ k = nd + r /\ nd \in Int
    <3>1. n * (k \div n) \in Int
      BY <2>1, SMT
    <3> QED  BY <2>1, <3>1
  <2>3. nd <= k /\ k <= nd + (n - 1)
    <3> HIDE DEF nd, r, d
    <3> QED  BY <1>1, <2>2
  <2> QED  BY <2>2, <2>3
<1> HIDE DEF q
<1>3. q <= 100
  <2> SUFFICES ASSUME 101 <= q PROVE FALSE
    BY <1>2
  <2>1. n * 101 <= n * q /\ n * q \in Int
    BY <1>2, Product
  <2> QED  BY <1>1, <1>2, <2>1
<1>4. 0 <= q
  <2> SUFFICES ASSUME q <= -1 PROVE FALSE
    BY <1>2
  <2>1. n * q <= n * (-1) /\ n * q \in Int
    BY <1>2, Product
  <2> QED  BY <1>1, <1>2, <2>1
<1> QED  BY <1>2, <1>3, <1>4 DEF q, k

\* A percentage fits an int.
LEMMA SmallShare ==
    /\ W \in Nat /\ W32 \in Nat /\ 100 < W32 \div 2 /\ MaxMoves \in Nat /\ W32 \div 2 \in Int
    /\ \A q \in 0 .. 100 : Signed(q, W32) = q
<1> DEFINE h == W32 \div 2
<1>1. h \in Int
  BY WidthAssumption, Division
<1>2. W \in Nat /\ W32 \in Nat /\ 100 * (MaxMoves + 1) < h /\ MaxMoves \in Nat
  BY WidthAssumption, BoundsAssumption
<1> HIDE DEF h
<1>3. 100 < h
  BY <1>1, <1>2
<1>4. ASSUME NEW q \in 0 .. 100 PROVE Signed(q, W32) = q
  BY <1>1, <1>2, <1>3, Kept DEF h
<1> QED  BY <1>1, <1>2, <1>3, <1>4 DEF h

\* The quotient of two natural numbers.
LEMMA Whole ==
    ASSUME NEW k \in Nat, NEW n \in Nat \ {0}
    PROVE  Quotient(k, n) = k \div n
  BY DEF Quotient

\* Pages in bytes and in kilobytes.
LEMMA Bytes ==
    ASSUME NEW n \in Nat
    PROVE  /\ n * PageKb \in Nat /\ n * Page \in Nat /\ n * PageKb <= n * Page
           /\ n * PageKb * Kilo = n * Page
<1>1. PageKb \in Nat \ {0} /\ Kilo \in Nat \ {0} /\ Page = PageKb * Kilo
  BY WidthAssumption DEF Page
<1>2. PageKb * 1 <= PageKb * Kilo
  BY <1>1, Product
<1>3. PageKb \in Nat /\ Page \in Nat /\ PageKb <= Page
  BY <1>1, <1>2, SMT
<1>4. n * PageKb <= n * Page
  BY <1>3, Product
<1>5. n * PageKb \in Nat /\ n * Page \in Nat
  BY <1>3, SMT
<1>6. n * PageKb * Kilo = n * (PageKb * Kilo)
  BY <1>1, SMT
<1> QED  BY <1>1, <1>4, <1>5, <1>6

\* Memory: ram.c on the three systems.
LEMMA RamRight ==
    ASSUME os \in Systems, func \in RamFunctions, NEW w \in Worlds(func), Tells(w), ~Gap(w)
    PROVE  Results \subseteq Truth(w)
<1> DEFINE A == pages(w)
           R == w.rest + w.shmem
           a == Extend(meminfo(w), vmstat(w))
<1>1. /\ w \in Counters /\ A > 0 /\ 100 * (A + MaxMoves) * Page < W
      /\ w.free \in Nat /\ w.buffers \in Nat /\ w.file \in Nat
      /\ w.shmem \in Nat /\ w.slab \in Nat /\ w.rest \in Nat
  BY RamAssumption DEF Counters
<1>2. A \in Nat \ {0} /\ R \in Nat /\ R <= A /\ w.rest <= A /\ w.free <= A /\ A - w.rest \in Nat
      /\ A - w.rest <= A
  BY <1>1 DEF pages
<1>3. /\ Answers(w) = a /\ Results = ram(os, func, got) /\ Truth(w) = {ram_truth(os, func, w)}
      /\ ~ram_gap(os, func, w) /\ Reads = ram_reads(os, func)
  BY Families, ReadsIs
<1>4. W \in Nat /\ W32 \in Nat /\ 100 < W32 \div 2 /\ MaxMoves \in Nat /\ W32 \div 2 \in Int
  BY SmallShare
<1>b. ASSUME NEW n \in 0 .. A
      PROVE  /\ n \in Nat /\ n * PageKb \in Nat /\ n * Page \in Nat /\ n * PageKb * Kilo = n * Page
             /\ n * Page < W /\ n * PageKb < W /\ 100 * (n * PageKb) < W
  <2>1. n \in Nat /\ n * PageKb \in Nat /\ n * Page \in Nat /\ n * PageKb <= n * Page
        /\ n * PageKb * Kilo = n * Page
    BY <1>2, Bytes
  <2> DEFINE q == A + MaxMoves
  <2>2. Page \in Nat
    BY WidthAssumption, SMT DEF Page
  <2>3. q \in Nat /\ n <= q /\ 100 * q \in Nat
    BY <1>2, <1>4, <2>1
  <2>4. 100 * q * Page < W
    BY <1>1
  <2> HIDE DEF A, q
  <2>5. Page * n <= Page * q /\ Page * n \in Int /\ Page * q \in Int
    BY <2>1, <2>2, <2>3, Product
  <2>6. 100 * q * Page = 100 * (Page * q) /\ Page * n = n * Page
    BY <2>1, <2>2, <2>3, SMT
  <2> DEFINE np == n * Page
             nk == n * PageKb
             pq == Page * q
  <2>7. np \in Nat /\ nk \in Nat /\ nk <= np /\ np <= pq /\ pq \in Int /\ 100 * pq < W
    BY <2>1, <2>4, <2>5, <2>6
  <2> HIDE DEF np, nk, pq
  <2>8. np < W /\ nk < W /\ 100 * nk < W
    BY <1>4, <2>7
  <2> QED  BY <2>1, <2>8 DEF np, nk
<1>a. /\ a.MemTotal = A * PageKb /\ a.MemFree = w.free * PageKb
      /\ a.Buffers = w.buffers * PageKb /\ a.Cached = (w.file + w.shmem) * PageKb
      /\ a.Shmem = w.shmem * PageKb /\ a.SReclaimable = w.slab * PageKb
      /\ a.npages = A /\ a.active = w.rest /\ a.t_free = w.free
  BY RamAnswers
<1>5. CASE os = "linux"
  <2>1. Results = ram_linux(func, got)
    BY <1>3, <1>5 DEF ram
  <2>2. CASE func \in {"ram_free", "ram_total"}
    <3>1. func = "ram_free" => got.MemFree = w.free * PageKb
      BY <1>3, <1>5, <1>a DEF Tells, ram_reads
    <3>2. func = "ram_total" => got.MemTotal = A * PageKb
      BY <1>3, <1>5, <1>a DEF Tells, ram_reads
    <3>3. w.free * PageKb * Kilo = w.free * Page /\ A * PageKb * Kilo = A * Page
      BY <1>1, <1>2, Bytes
    <3> HIDE DEF A
    <3>4. CASE func = "ram_free"
      BY <1>3, <1>5, <2>1, <3>1, <3>3, <3>4 DEF ram_linux, ram_truth, amount
    <3>5. CASE func = "ram_total"
      BY <1>3, <1>5, <2>1, <3>2, <3>3, <3>5 DEF ram_linux, ram_truth, amount, A
    <3> QED  BY <2>2, <3>4, <3>5
  <2>3. CASE func \in {"ram_used", "ram_perc"}
    <3>1. /\ got.MemTotal = A * PageKb /\ got.MemFree = w.free * PageKb
          /\ got.Buffers = w.buffers * PageKb /\ got.Cached = (w.file + w.shmem) * PageKb
          /\ got.Shmem = w.shmem * PageKb /\ got.SReclaimable = w.slab * PageKb
      <4>1. Reads = <<{"MemTotal"}, {"MemFree"}, {"Buffers"}, {"Cached"}, {"Shmem"}, {"SReclaimable"}>>
        BY <1>3, <1>5, <2>3 DEF ram_reads
      <4>2. /\ got.MemTotal = Answers(w).MemTotal /\ got.MemFree = Answers(w).MemFree
            /\ got.Buffers = Answers(w).Buffers /\ got.Cached = Answers(w).Cached
            /\ got.Shmem = Answers(w).Shmem /\ got.SReclaimable = Answers(w).SReclaimable
        BY <4>1 DEF Tells
      <4> HIDE DEF A, a
      <4> QED  BY <1>3, <1>a, <4>2
    <3>2. busy(got) = R * PageKb
      <4> DEFINE x == A - w.free - w.buffers - (w.file + w.shmem) - w.slab + w.shmem
                 c == w.file + w.shmem
      <4>1. x = R
        BY <1>1 DEF pages
      <4>2. A * PageKb - w.free * PageKb - w.buffers * PageKb - c * PageKb
            - w.slab * PageKb + w.shmem * PageKb = (A - w.free - w.buffers - c - w.slab + w.shmem) * PageKb
        <5>1. PageKb \in Int /\ A \in Int /\ c \in Int /\ w.free \in Int /\ w.buffers \in Int
              /\ w.shmem \in Int /\ w.slab \in Int
          BY <1>1, <1>2, WidthAssumption
        <5> DEFINE f_ == w.free
                   b_ == w.buffers
                   s_ == w.shmem
                   l_ == w.slab
        <5> HIDE DEF A, c, f_, b_, s_, l_
        <5>2. A * PageKb - f_ * PageKb - b_ * PageKb - c * PageKb - l_ * PageKb + s_ * PageKb
              = (A - f_ - b_ - c - l_ + s_) * PageKb
          BY <5>1, SMT DEF f_, b_, s_, l_
        <5> QED  BY <5>2 DEF f_, b_, s_, l_
      <4>3. busy(got) = Unsigned(R * PageKb, W)
        BY <3>1, <4>1, <4>2, Zenon DEF busy
      <4>4. R \in 0 .. A
        BY <1>2
      <4>5. R * PageKb \in Nat /\ R * PageKb < W
        BY <1>b, <4>4
      <4> QED  BY <1>4, <4>3, <4>5, Kept
    <3>a. R \in 0 .. A
      BY <1>2
    <3>b. ram_linux(func, got) \subseteq Truth(w) <=> ram_linux(func, got) \subseteq {ram_truth(os, func, w)}
      BY <1>3
    <3>3. CASE func = "ram_used"
      <4>1. ram_linux(func, got) = {Unsigned(R * PageKb * Kilo, W)}
        BY <3>2, <3>3 DEF ram_linux
      <4>2. Unsigned(R * PageKb * Kilo, W) = R * Page
        BY <1>b, <1>4, <3>a, Kept
      <4>3. ram_truth(os, func, w) = R * Page
        BY <1>5, <3>3 DEF ram_truth, amount
      <4> QED  BY <1>3, <2>1, <4>1, <4>2, <4>3
    <3>4. CASE func = "ram_perc"
      <4>1. ram_linux(func, got) = {Signed(Unsigned(100 * (R * PageKb), W) \div (A * PageKb), W32)}
        <5>1. A * PageKb # 0
          <6>1. PageKb \in Nat \ {0} /\ A \in Nat \ {0}
            BY <1>2, WidthAssumption
          <6> HIDE DEF A
          <6> QED  BY <6>1, SMT
        <5> HIDE DEF A, R
        <5> QED  BY <3>1, <3>2, <3>4, <5>1 DEF ram_linux
      <4>2. Unsigned(100 * (R * PageKb), W) = 100 * (R * PageKb)
        <5>1. R * PageKb \in Nat /\ 100 * (R * PageKb) < W
          BY <1>b, <3>a
        <5> DEFINE rk == R * PageKb
        <5> HIDE DEF rk
        <5>2. Unsigned(100 * rk, W) = 100 * rk
          BY <1>4, <5>1, Kept DEF rk
        <5> QED  BY <5>2 DEF rk
      <4>3. 100 * (R * PageKb) = (100 * R) * PageKb
        <5>1. R \in Nat /\ PageKb \in Nat
          BY <1>2, WidthAssumption
        <5> HIDE DEF R
        <5> QED  BY <5>1, SMT
      <4>4. ((100 * R) * PageKb) \div (A * PageKb) = (100 * R) \div A
        <5>1. 100 * R \in Nat /\ PageKb \in Nat \ {0} /\ A \in Nat \ {0}
          BY <1>2, WidthAssumption
        <5> HIDE DEF A, R
        <5> QED  BY <5>1, Cancels
      <4>5. (100 * R) \div A \in 0 .. 100
        BY <1>2, ShareRange
      <4>6. Signed((100 * R) \div A, W32) = (100 * R) \div A
        <5> DEFINE q == (100 * R) \div A
        <5>1. q \in Nat /\ q < W32 \div 2
          BY <1>4, <4>5
        <5> HIDE DEF q
        <5>2. Signed(q, W32) = q
          BY <1>4, <5>1, Kept
        <5> QED  BY <5>2 DEF q
      <4>7. ram_truth(os, func, w) = (100 * R) \div A
        BY <1>2, <1>5, <3>4 DEF ram_truth, amount
      <4> QED  BY <1>3, <2>1, <4>1, <4>2, <4>3, <4>4, <4>6, <4>7, Zenon
    <3> QED  BY <2>3, <3>3, <3>4
  <2> QED  BY <2>2, <2>3 DEF RamFunctions
<1>c. \A n \in 0 .. A : n * PageKb <= A * PageKb /\ n * Page <= A * Page
  <2>1. PageKb \in Nat /\ Page \in Nat /\ A \in Nat
    BY <1>2, WidthAssumption, SMT DEF Page
  <2> HIDE DEF A
  <2>2. ASSUME NEW n \in 0 .. A PROVE n * PageKb <= A * PageKb /\ n * Page <= A * Page
    <3>1. PageKb * n <= PageKb * A /\ Page * n <= Page * A
      BY <2>1, Product
    <3>2. PageKb * n = n * PageKb /\ PageKb * A = A * PageKb /\ Page * n = n * Page /\ Page * A = A * Page
      BY <2>1, SMT
    <3> QED  BY <3>1, <3>2
  <2> QED  BY <2>2
<1>d. /\ 100 * w.rest = w.rest * 100 /\ w.rest * 100 \in Nat /\ w.rest \in 0 .. A /\ A \in 0 .. A
      /\ A - w.rest \in 0 .. A /\ w.free \in 0 .. A
  BY <1>1, <1>2
<1>6. CASE os = "openbsd"
  <2>1. Results = ram_openbsd(func, got)
    BY <1>3, <1>6 DEF ram
  <2>2. got.npages = A /\ (func # "ram_total" => got.active = w.rest)
    <3>1. Reads = IF func = "ram_total" THEN <<{"npages"}>> ELSE <<{"npages", "active"}>>
      BY <1>3, <1>6 DEF ram_reads
    <3>2. got.npages = Answers(w).npages /\ (func # "ram_total" => got.active = Answers(w).active)
      BY <3>1 DEF Tells
    <3> HIDE DEF A, a
    <3> QED  BY <1>3, <1>a, <3>2
  <2> DEFINE bytes(n) == {Unsigned(Unsigned(x, W) * Kilo, W) : x \in Overflow(n * PageKb, W32)}
  <2>3. ASSUME func # "ram_perc", NEW n \in 0 .. A
        PROVE  bytes(n) = {n * Page}
    <3>1. A * PageKb < W32 \div 2
      <4>1. ~(A * PageKb >= W32 \div 2)
        BY <1>3, <1>6, <2>3 DEF ram_gap
      <4>2. A * PageKb \in Nat
        BY <1>b, <1>d
      <4> QED  BY <1>4, <4>1, <4>2
    <3> DEFINE nk == n * PageKb
               np == n * Page
               ak == A * PageKb
    <3>2. nk \in Nat /\ nk < W /\ np \in Nat /\ np < W /\ nk * Kilo = np /\ nk <= ak /\ ak \in Nat /\ ak < W32 \div 2
      BY <1>b, <1>c, <1>d, <3>1
    <3> HIDE DEF nk, np, ak
    <3>3. nk < W32 \div 2
      BY <1>4, <3>2
    <3>4. Overflow(nk, W32) = {nk}
      BY <1>4, <3>2, <3>3, Kept
    <3>5. Unsigned(nk, W) = nk /\ Unsigned(np, W) = np
      BY <1>4, <3>2, Kept
    <3>6. {Unsigned(Unsigned(x, W) * Kilo, W) : x \in Overflow(nk, W32)} = {np}
      BY <3>2, <3>4, <3>5, Zenon
    <3> QED  BY <3>6 DEF nk, np
  <2>4. CASE func = "ram_free"
    <3>1. ram_openbsd(func, got) = bytes(A - w.rest)
      BY <2>2, <2>4 DEF ram_openbsd
    <3>2. ram_truth(os, func, w) = (A - w.rest) * Page
      BY <1>6, <2>4 DEF ram_truth, amount
    <3> QED  BY <1>3, <1>d, <2>1, <2>3, <2>4, <3>1, <3>2
  <2>5. CASE func = "ram_total"
    <3>1. ram_openbsd(func, got) = bytes(A)
      BY <2>2, <2>5 DEF ram_openbsd
    <3>2. ram_truth(os, func, w) = A * Page
      BY <2>5 DEF ram_truth, amount
    <3> QED  BY <1>3, <1>d, <2>1, <2>3, <2>5, <3>1, <3>2
  <2>6. CASE func = "ram_used"
    <3>1. ram_openbsd(func, got) = bytes(w.rest)
      BY <2>2, <2>6 DEF ram_openbsd
    <3>2. ram_truth(os, func, w) = w.rest * Page
      BY <1>6, <2>6 DEF ram_truth, amount
    <3> QED  BY <1>3, <1>d, <2>1, <2>3, <2>6, <3>1, <3>2
  <2>7. CASE func = "ram_perc"
    <3>1. ram_openbsd(func, got) = {Quotient(x, A) : x \in Overflow(w.rest * 100, W32)}
      BY <1>2, <2>2, <2>7 DEF ram_openbsd
    <3>2. Overflow(w.rest * 100, W32) = {w.rest * 100}
      <4>1. w.rest * 100 < W32 \div 2
        BY <1>3, <1>4, <1>6, <1>d, <2>7 DEF ram_gap
      <4> QED  BY <1>4, <1>d, <4>1, Kept
    <3>3. Quotient(w.rest * 100, A) = (100 * w.rest) \div A
      BY <1>2, <1>d, Whole
    <3>4. ram_truth(os, func, w) = (100 * w.rest) \div A
      BY <1>2, <1>6, <2>7 DEF ram_truth, amount
    <3> QED  BY <1>3, <2>1, <3>1, <3>2, <3>3, <3>4, Zenon
  <2> QED  BY <2>4, <2>5, <2>6, <2>7 DEF RamFunctions
<1>7. CASE os = "freebsd"
  <2>1. Results = ram_freebsd(func, got)
    BY <1>3, <1>7 DEF ram
  <2>2. CASE func = "ram_free"
    <3>1. got.t_free = w.free
      <4>1. Reads = <<{"t_free"}>>
        BY <1>3, <1>7, <2>2 DEF ram_reads
      <4> QED  BY <1>3, <1>a, <4>1 DEF Tells
    <3> QED  BY <1>3, <1>7, <2>1, <2>2, <3>1 DEF ram_freebsd, ram_truth, amount
  <2>3. CASE func \in {"ram_total", "ram_used"}
    <3>1. /\ func = "ram_total" => got.npages = A
          /\ func = "ram_used" => got.active = w.rest
      <4>1. /\ func = "ram_total" => Reads = <<{"npages"}>>
            /\ func = "ram_used" => Reads = <<{"active"}>>
        BY <1>3, <1>7 DEF ram_reads
      <4>2. func = "ram_total" => got.npages = Answers(w).npages
        <5>1. SUFFICES ASSUME Reads = <<{"npages"}>> PROVE got.npages = Answers(w).npages
          BY <4>1
        <5>2. 1 \in 1 .. Len(Reads) /\ "npages" \in Reads[1]
          BY <5>1
        <5> QED  BY <5>2 DEF Tells
      <4>3. func = "ram_used" => got.active = Answers(w).active
        <5>1. SUFFICES ASSUME Reads = <<{"active"}>> PROVE got.active = Answers(w).active
          BY <4>1
        <5>2. 1 \in 1 .. Len(Reads) /\ "active" \in Reads[1]
          BY <5>1
        <5> QED  BY <5>2 DEF Tells
      <4> HIDE DEF A, a
      <4> QED  BY <1>3, <1>a, <4>2, <4>3
    <3>2. ASSUME NEW n \in 0 .. A PROVE Unsigned(n * Page, W32) = n * Page
      <4>1. A * Page < W32
        <5>1. ~(A * Page >= W32)
          BY <1>3, <1>7, <2>3 DEF ram_gap
        <5>2. A * Page \in Nat
          BY <1>b, <1>d
        <5> QED  BY <1>4, <5>1, <5>2
      <4> DEFINE np == n * Page
                 ap == A * Page
      <4>2. np \in Nat /\ np <= ap /\ ap \in Nat /\ ap < W32
        BY <1>b, <1>c, <1>d, <4>1
      <4> HIDE DEF np, ap
      <4>3. Unsigned(np, W32) = np
        BY <1>4, <4>2, Kept
      <4> QED  BY <4>3 DEF np
    <3>3. CASE func = "ram_total"
      <4>1. ram_freebsd(func, got) = {Unsigned(A * Page, W32)}
        BY <3>1, <3>3 DEF ram_freebsd
      <4>2. ram_truth(os, func, w) = A * Page
        BY <3>3 DEF ram_truth, amount
      <4> QED  BY <1>3, <1>d, <2>1, <3>2, <4>1, <4>2
    <3>4. CASE func = "ram_used"
      <4>1. ram_freebsd(func, got) = {Unsigned(w.rest * Page, W32)}
        BY <3>1, <3>4 DEF ram_freebsd
      <4>2. ram_truth(os, func, w) = w.rest * Page
        BY <1>7, <3>4 DEF ram_truth, amount
      <4> QED  BY <1>3, <1>d, <2>1, <3>2, <4>1, <4>2
    <3> QED  BY <2>3, <3>3, <3>4
  <2>4. CASE func = "ram_perc"
    <3>1. got.npages = A /\ got.active = w.rest
      <4>1. Reads = <<{"npages"}, {"active"}>>
        BY <1>3, <1>7, <2>4 DEF ram_reads
      <4>2. got.npages = Answers(w).npages /\ got.active = Answers(w).active
        BY <4>1 DEF Tells
      <4> HIDE DEF A, a
      <4> QED  BY <1>3, <1>a, <4>2
    <3>2. ram_freebsd(func, got) = {Unsigned(w.rest * 100, W32) \div A}
      BY <1>2, <2>4, <3>1 DEF ram_freebsd
    <3>3. Unsigned(w.rest * 100, W32) = 100 * w.rest
      <4>1. w.rest * 100 < W32
        BY <1>3, <1>4, <1>7, <1>d, <2>4 DEF ram_gap
      <4> QED  BY <1>4, <1>d, <4>1, Kept
    <3>4. ram_truth(os, func, w) = (100 * w.rest) \div A
      BY <1>2, <1>7, <2>4 DEF ram_truth, amount
    <3> QED  BY <1>3, <2>1, <3>2, <3>3, <3>4, Zenon
  <2> QED  BY <2>2, <2>3, <2>4 DEF RamFunctions
<1> QED  BY <1>5, <1>6, <1>7 DEF Systems

\* Swap: swap.c on Linux and FreeBSD.
LEMMA SwapRight ==
    ASSUME os \in {"linux", "freebsd"}, func \in SwapFunctions, NEW w \in Worlds(func), Tells(w), ~Gap(w)
    PROVE  Results \subseteq Truth(w)
<1> DEFINE A == size(w)
           U == used(w)
           C == w.cached
<1>1. A \in Nat /\ U \in 0 .. A /\ C \in 0 .. U /\ A * Page < W
  BY WorldsAssumption
<1>2. /\ Answers(w) = swapinfo(w) /\ Results = swap(os, func, got) /\ Truth(w) = {swap_truth(os, func, w)}
      /\ ~swap_gap(os, func, w) /\ Reads = swap_reads(os, func, got)
  BY Families, ReadsIs
<1>3. LET i == swapinfo(w)
      IN  /\ i.SwapTotal = A * PageKb /\ i.SwapFree = (A - U) * PageKb /\ i.SwapCached = C * PageKb
          /\ i.ksw_total = A /\ i.ksw_used = U
  BY DEF swapinfo
<1> HIDE DEF A, U, C
<1>4. W \in Nat /\ W32 \in Nat /\ 100 < W32 \div 2 /\ PageKb \in Nat \ {0}
  BY WidthAssumption, SmallShare
<1>5. ASSUME NEW n \in 0 .. A
      PROVE  n * PageKb \in Nat /\ n * Page \in Nat /\ n * PageKb * Kilo = n * Page /\ n * Page < W
  <2>1. n \in Nat /\ Page \in Nat
    BY <1>1, WidthAssumption, SMT DEF Page
  <2>2. n * PageKb \in Nat /\ n * Page \in Nat /\ n * PageKb * Kilo = n * Page
    BY <2>1, Bytes
  <2>3. Page * n <= Page * A /\ Page * n = n * Page /\ Page * A = A * Page
    <3>1. Page * n <= Page * A
      BY <1>1, <2>1, Product
    <3>2. Page * n = n * Page /\ Page * A = A * Page
      BY <1>1, <2>1, SMT
    <3> QED  BY <3>1, <3>2
  <2>4. A * Page \in Nat
    BY <1>1, Bytes
  <2> QED  BY <1>1, <1>4, <2>2, <2>3, <2>4
<1>6. A \in 0 .. A /\ U \in 0 .. A /\ A - U \in 0 .. A /\ U - C \in 0 .. A /\ U - C <= A
  BY <1>1
<1>7. CASE os = "linux"
  <2>1. Results = swap_linux(func, got) /\ Reads = get_swap_info(func)
    BY <1>2, <1>7 DEF swap, swap_reads
  <2>2. CASE func = "swap_free"
    <3>1. Reads = <<{"SwapFree"}>>
      BY <2>1, <2>2 DEF get_swap_info
    <3>2. got.SwapFree = (A - U) * PageKb
      BY <1>2, <1>3, <3>1 DEF Tells
    <3>3. Results = {(A - U) * PageKb * Kilo}
      BY <2>1, <2>2, <3>2 DEF swap_linux
    <3>4. swap_truth(os, func, w) = (A - U) * Page
      BY <1>7, <2>2 DEF swap_truth, amount, A, U
    <3> QED  BY <1>2, <1>5, <1>6, <3>3, <3>4
  <2>3. CASE func = "swap_total"
    <3>1. Reads = <<{"SwapTotal"}>>
      BY <2>1, <2>3 DEF get_swap_info
    <3>2. got.SwapTotal = A * PageKb
      BY <1>2, <1>3, <3>1 DEF Tells
    <3>3. Results = {A * PageKb * Kilo}
      BY <2>1, <2>3, <3>2 DEF swap_linux
    <3>4. swap_truth(os, func, w) = A * Page
      BY <1>7, <2>3 DEF swap_truth, amount, A
    <3> QED  BY <1>2, <1>5, <1>6, <3>3, <3>4
  <2>4. CASE func \in {"swap_used", "swap_perc"}
    <3>1. Reads = <<{"SwapTotal", "SwapFree", "SwapCached"}>>
      BY <2>1, <2>4 DEF get_swap_info
    <3>2. got.SwapTotal = A * PageKb /\ got.SwapFree = (A - U) * PageKb /\ got.SwapCached = C * PageKb
      <4>1. /\ got.SwapTotal = Answers(w).SwapTotal /\ got.SwapFree = Answers(w).SwapFree
            /\ got.SwapCached = Answers(w).SwapCached
        BY <3>1 DEF Tells
      <4> QED  BY <1>2, <1>3, <4>1
    <3> DEFINE n == U - C
               nk == n * PageKb
    <3>3. got.SwapTotal - got.SwapFree - got.SwapCached = nk
      <4>1. A \in Int /\ U \in Int /\ C \in Int /\ PageKb \in Int
        BY <1>1, <1>4
      <4>2. A * PageKb - (A - U) * PageKb - C * PageKb = (U - C) * PageKb
        BY <4>1, SMT
      <4> QED  BY <3>2, <4>2
    <3>4. nk \in Nat /\ nk * Kilo = n * Page /\ n * Page \in Nat /\ n * Page < W
      BY <1>5, <1>6
    <3> HIDE DEF nk
    <3>5. CASE func = "swap_used"
      <4>1. Results = {Unsigned(nk * Kilo, W)}
        BY <2>1, <3>3, <3>5 DEF swap_linux
      <4>2. Unsigned(nk * Kilo, W) = n * Page
        <5> DEFINE np == n * Page
        <5>1. np \in Nat /\ np < W /\ nk * Kilo = np
          BY <3>4
        <5> HIDE DEF np
        <5>2. Unsigned(np, W) = np
          BY <1>4, <5>1, Kept
        <5> QED  BY <5>1, <5>2 DEF np
      <4>3. swap_truth(os, func, w) = n * Page
        BY <1>7, <3>5 DEF swap_truth, amount, U, C
      <4> QED  BY <1>2, <4>1, <4>2, <4>3
    <3>6. CASE func = "swap_perc"
      <4>1. CASE A = 0
        <5>1. got.SwapTotal = 0
          BY <1>4, <3>2, <4>1
        <5>2. Results = {NULL}
          BY <2>1, <3>6, <5>1 DEF swap_linux
        <5>3. swap_truth(os, func, w) = NULL
          BY <1>7, <3>6, <4>1 DEF swap_truth, amount, A
        <5> QED  BY <1>2, <5>2, <5>3
      <4>2. CASE A # 0
        <5> DEFINE ak == A * PageKb
        <5>1. ak \in Nat \ {0} /\ A \in Nat \ {0}
          <6>1. A \in Nat \ {0}
            BY <1>1, <4>2
          <6> QED  BY <1>4, <6>1, SMT
        <5>2. got.SwapTotal = ak
          BY <3>2
        <5> HIDE DEF ak
        <5>3. Results = {Signed(Quotient(100 * nk, ak), W32)}
          BY <2>1, <3>3, <3>6, <5>1, <5>2 DEF swap_linux
        <5>4. Quotient(100 * nk, ak) = (100 * nk) \div ak
          BY <3>4, <5>1, Whole
        <5>5. (100 * nk) \div ak = (100 * n) \div A
          <6>1. n \in Nat /\ 100 * n \in Nat
            BY <1>6
          <6>2. 100 * (n * PageKb) = (100 * n) * PageKb
            <7> HIDE DEF n
            <7> QED  BY <1>4, <6>1, SMT
          <6>3. ((100 * n) * PageKb) \div (A * PageKb) = (100 * n) \div A
            BY <1>4, <5>1, <6>1, Cancels
          <6> QED  BY <6>2, <6>3 DEF nk, ak
        <5>6. (100 * n) \div A \in 0 .. 100
          BY <1>6, <5>1, ShareRange
        <5>7. Signed((100 * n) \div A, W32) = (100 * n) \div A
          BY <5>6, SmallShare
        <5>8. swap_truth(os, func, w) = (100 * n) \div A
          BY <1>7, <3>6, <4>2 DEF swap_truth, amount, A, U, C
        <5> QED  BY <1>2, <5>3, <5>4, <5>5, <5>7, <5>8, Zenon
      <4> QED  BY <4>1, <4>2
    <3> QED  BY <2>4, <3>5, <3>6
  <2> QED  BY <2>2, <2>3, <2>4 DEF SwapFunctions
<1>8. CASE os = "freebsd"
  <2>1. Results = swap_freebsd(func, got) /\ Reads = <<{"ksw_total", "ksw_used"}>>
    BY <1>2, <1>8 DEF swap, swap_reads
  <2>2. got.ksw_total = A /\ got.ksw_used = U
    BY <1>2, <1>3, <2>1 DEF Tells
  <2>3. CASE func # "swap_perc"
    <3> DEFINE shown == CASE func = "swap_free"  -> (A - U) * Page
                          [] func = "swap_total" -> A * Page
                          [] func = "swap_used"  -> U * Page
    <3>1. swap_freebsd(func, got) = {shown}
      BY <2>2, <2>3 DEF swap_freebsd, SwapFunctions
    <3>2. U - 0 = U
      BY <1>1
    <3>3. swap_truth(os, func, w) = shown
      BY <1>8, <2>3, <3>2 DEF swap_truth, amount, A, U, SwapFunctions
    <3> QED  BY <1>2, <2>1, <3>1, <3>3, Zenon
  <2>4. CASE func = "swap_perc"
    <3>1. A # 0
      BY <1>2, <1>8, <2>4 DEF swap_gap, A
    <3>2. Results = {(U * 100) \div A}
      BY <2>1, <2>2, <2>4, <3>1 DEF swap_freebsd
    <3>3. swap_truth(os, func, w) = (100 * (U - 0)) \div A
      BY <1>8, <2>4, <3>1 DEF swap_truth, amount, A, U
    <3>4. U * 100 = 100 * (U - 0)
      BY <1>1
    <3> QED  BY <1>2, <3>2, <3>3, <3>4
  <2> QED  BY <2>3, <2>4
<1> QED  BY <1>7, <1>8

\* A quotient of natural numbers is one.
LEMMA NatQuotient ==
    ASSUME NEW k \in Nat, NEW n \in Nat \ {0}
    PROVE  k \div n \in Nat
<1> DEFINE q == k \div n
           r == k % n
<1>1. q \in Int /\ r \in 0 .. n - 1 /\ k = n * q + r
  BY Division
<1> HIDE DEF q, r
<1>2. 0 <= q
  <2> SUFFICES ASSUME q <= -1 PROVE FALSE
    BY <1>1
  <2>1. n * q <= n * (-1) /\ n * q \in Int
    BY <1>1, Product
  <2> QED  BY <1>1, <2>1
<1> QED  BY <1>1, <1>2 DEF q

\* Battery: battery.c on the three systems.
LEMMA BatteryRight ==
    ASSUME os \in Systems, func \in BatteryFunctions, NEW w \in Worlds(func), Tells(w), ~Gap(w)
    PROVE  Results \subseteq Truth(w)
<1> DEFINE s == power_supply(w)
           p == apm_acpi(w)
           a == Extend(s, p)
<1>1. w.status \in {"Charging", "Discharging", "Full", "Not charging", "Unknown"}
  BY WorldsAssumption
<1> DEFINE c == w.charge
           f == w.flow
<1>a. c \in Nat /\ f \in Nat /\ Volts \in Nat \ {0} /\ NULL \notin Int /\ c # NULL /\ f # NULL
  <2>1. c \in Nat /\ f \in Nat /\ Volts \in Nat \ {0} /\ NULL \notin Int
    BY WorldsAssumption
  <2> HIDE DEF c, f
  <2> QED  BY <2>1
<1>b. f * Volts < W
  BY WorldsAssumption
<1>2. /\ Answers(w) = a /\ Results = battery(os, func, got)
      /\ Truth(w) = {battery_truth(os, func, w)} /\ ~battery_gap(os, func, w)
      /\ Reads = battery_reads(os, func, got)
  BY Families, ReadsIs
<1>3. /\ DOMAIN s = {"capacity", "status", "charge_now", "energy_now", "current_now", "power_now"}
      /\ s.capacity = 50 * w.charge /\ s.status = w.status
      /\ s.charge_now = (IF "charge_now" \in w.files THEN w.charge ELSE NULL)
      /\ s.energy_now = (IF "energy_now" \in w.files THEN w.charge * Volts ELSE NULL)
      /\ ~w.negative => s.current_now = (IF "current_now" \in w.files THEN w.flow ELSE NULL)
      /\ ~w.negative => s.power_now = (IF "power_now" \in w.files THEN w.flow * Volts ELSE NULL)
  BY DEF power_supply
<1>4. /\ DOMAIN p = {"ac_state", "battery_life", "minutes_left", "life", "state", "time"}
      /\ p.ac_state = (CASE w.status = "Discharging" -> "off" [] w.status = "Unknown" -> "unknown" [] OTHER -> "on")
      /\ p.battery_life = 50 * w.charge /\ p.life = 50 * w.charge
      /\ w.flow # 0 => p.minutes_left = Minutes(w)
      /\ p.time = IF w.status = "Discharging" /\ w.flow # 0 THEN Minutes(w) ELSE -1
  BY DEF apm_acpi
<1>c. w.charge # 0 => /\ w.status = "Discharging" => p.state = 1
                      /\ w.status = "Charging" => p.state = 2
                      /\ w.status = "Unknown" => p.state = 7
                      /\ w.status \in {"Full", "Not charging"} => p.state = 0
  <2> SUFFICES ASSUME w.charge # 0
               PROVE  /\ w.status = "Discharging" => p.state = 1
                      /\ w.status = "Charging" => p.state = 2
                      /\ w.status = "Unknown" => p.state = 7
                      /\ w.status \in {"Full", "Not charging"} => p.state = 0
    OBVIOUS
  <2> DEFINE bit == CASE w.status = "Discharging" -> 1 [] w.status = "Charging" -> 2
                      [] w.status = "Unknown" -> 7 [] OTHER -> 0
             low == IF w.charge = 0 /\ w.status \in {"Charging", "Discharging"} THEN 4 ELSE 0
  <2>1. p.state = bit + low
    BY DEF apm_acpi
  <2>2. low = 0
    OBVIOUS
  <2>3. /\ w.status = "Discharging" => bit = 1
        /\ w.status = "Charging" => bit = 2
        /\ w.status = "Unknown" => bit = 7
        /\ w.status \in {"Full", "Not charging"} => bit = 0
    BY Zenon
  <2>4. ASSUME NEW b, b \in 0 .. 7, bit = b PROVE p.state = b
    <3> DEFINE state == p.state
    <3>1. state = b + low
      BY <2>1, <2>4
    <3> HIDE DEF state, bit, low, p
    <3>2. state = b
      BY <2>2, <2>4, <3>1
    <3> QED  BY <3>2 DEF state
  <2>5. 0 \in 0 .. 7 /\ 1 \in 0 .. 7 /\ 2 \in 0 .. 7 /\ 7 \in 0 .. 7
    OBVIOUS
  <2> HIDE DEF bit, low, p
  <2> QED  BY <2>3, <2>4, <2>5, Zenon
<1>5. /\ \A name \in DOMAIN s : a[name] = s[name]
      /\ \A name \in DOMAIN p \ DOMAIN s : a[name] = p[name]
  BY Extended
<1> HIDE DEF s, p, a
<1>6. /\ a.capacity = s.capacity /\ a.status = s.status /\ a.charge_now = s.charge_now
      /\ a.energy_now = s.energy_now /\ a.current_now = s.current_now /\ a.power_now = s.power_now
      /\ a.ac_state = p.ac_state /\ a.battery_life = p.battery_life /\ a.minutes_left = p.minutes_left
      /\ a.life = p.life /\ a.state = p.state /\ a.time = p.time
  BY <1>3, <1>4, <1>5
<1>7. w.flow # 0 => Minutes(w) \in Nat
  <2> SUFFICES ASSUME w.flow # 0 PROVE Minutes(w) \in Nat
    OBVIOUS
  <2> DEFINE k == 60 * c
             n == f
  <2>0. f # 0
    OBVIOUS
  <2>1. k \in Nat /\ n \in Nat \ {0}
    <3> HIDE DEF c, f
    <3> QED  BY <1>a, <2>0
  <2>2. Minutes(w) = k \div n
    BY DEF Minutes
  <2> HIDE DEF k, n
  <2> QED  BY <2>1, <2>2, NatQuotient
<1>8. CASE os = "linux"
  <2>1. Results = {battery_linux(func, got)}
    BY <1>2, <1>8 DEF battery
  <2>2. CASE func = "battery_perc"
    <3>1. Reads = <<{"capacity"}>>
      BY <1>2, <1>8, <2>2 DEF battery_reads
    <3>2. got.capacity = 50 * w.charge
      BY <1>2, <1>3, <1>6, <3>1 DEF Tells
    <3>3. battery_linux(func, got) = 50 * w.charge /\ battery_truth(os, func, w) = 50 * w.charge
      BY <2>2, <3>2 DEF battery_linux, battery_truth
    <3> QED  BY <1>2, <2>1, <3>3
  <2>3. CASE func = "battery_state"
    <3>1. Reads = <<{"status"}>>
      BY <1>2, <1>8, <2>3 DEF battery_reads
    <3>2. got.status = w.status
      BY <1>2, <1>3, <1>6, <3>1 DEF Tells
    <3>3. battery_linux(func, got) = battery_truth(os, func, w)
      BY <1>1, <1>8, <2>3, <3>2 DEF battery_linux, battery_truth
    <3> QED  BY <1>2, <2>1, <3>3
  <2>4. CASE func = "battery_remaining"
    <3>1. /\ ~w.negative
          /\ "charge_now" \in w.files \/ "energy_now" \in w.files
          /\ "charge_now" \in w.files <=> "current_now" \in w.files
          /\ "current_now" \in w.files \/ "power_now" \in w.files
      BY <1>2, <1>8, <2>4 DEF battery_gap
    <3>2. Reads \in {<<{"status"}, {"charge_now", "energy_now"}>>,
                     <<{"status"}, {"charge_now", "energy_now"}, {"current_now", "power_now"}>>}
          /\ (w.status = "Discharging" /\ got.status = "Discharging"
                => Reads = <<{"status"}, {"charge_now", "energy_now"}, {"current_now", "power_now"}>>)
      BY <1>2, <1>8, <2>4 DEF battery_reads
    <3>3. got.status = a.status /\ got.charge_now = a.charge_now /\ got.energy_now = a.energy_now
      <4>1. 1 \in 1 .. Len(Reads) /\ 2 \in 1 .. Len(Reads) /\ Reads[1] = {"status"}
            /\ Reads[2] = {"charge_now", "energy_now"}
        BY <3>2
      <4>2. \A name \in Reads[1] : got[name] = a[name]
        BY <1>2, <4>1 DEF Tells
      <4>3. \A name \in Reads[2] : got[name] = a[name]
        BY <1>2, <4>1 DEF Tells
      <4> QED  BY <4>1, <4>2, <4>3
    <3>4. got.status = w.status
      BY <1>3, <1>6, <3>3
    <3>5. w.status = "Discharging" => got.current_now = a.current_now /\ got.power_now = a.power_now
      <4> SUFFICES ASSUME w.status = "Discharging"
                   PROVE  got.current_now = a.current_now /\ got.power_now = a.power_now
        OBVIOUS
      <4>1. Reads = <<{"status"}, {"charge_now", "energy_now"}, {"current_now", "power_now"}>>
        BY <3>2, <3>4
      <4>2. 3 \in 1 .. Len(Reads) /\ Reads[3] = {"current_now", "power_now"}
        BY <4>1
      <4>3. \A name \in Reads[3] : got[name] = a[name]
        BY <1>2, <4>2 DEF Tells
      <4> QED  BY <4>2, <4>3
    <3> DEFINE now  == IF "charge_now" \in w.files THEN c ELSE c * Volts
               rate == IF "charge_now" \in w.files THEN f ELSE f * Volts
    <3>6. c * Volts \in Nat /\ f * Volts \in Nat /\ f <= f * Volts /\ (f * Volts = 0 <=> f = 0)
      <4> HIDE DEF c, f
      <4>1. f * 1 <= f * Volts
        BY <1>a, Product
      <4>2. c * Volts \in Nat /\ f * Volts \in Nat /\ (f = 0 => f * Volts = 0)
        BY <1>a, SMT
      <4> QED  BY <1>a, <4>1, <4>2
    <3>7. now \in Nat /\ rate \in Nat /\ rate < W /\ (rate = 0 <=> f = 0) /\ now # NULL /\ rate # NULL
      <4>1. W \in Nat
        BY WidthAssumption
      <4> DEFINE fv == f * Volts
                 cv == c * Volts
      <4>2. cv \in Nat /\ fv \in Nat /\ f <= fv /\ (fv = 0 <=> f = 0) /\ fv < W
        BY <1>b, <3>6
      <4>3. /\ now = c \/ now = cv
            /\ rate = f \/ rate = fv
        OBVIOUS
      <4> HIDE DEF c, f, cv, fv, now, rate
      <4> QED  BY <1>a, <4>1, <4>2, <4>3
    <3>8. pick(got.charge_now, got.energy_now) = now
      <4>1. got.charge_now = (IF "charge_now" \in w.files THEN c ELSE NULL)
            /\ got.energy_now = (IF "energy_now" \in w.files THEN c * Volts ELSE NULL)
        BY <1>3, <1>6, <3>3
      <4> QED  BY <1>a, <3>1, <4>1, Zenon DEF pick
    <3>9. w.status = "Discharging" => pick(got.current_now, got.power_now) = rate
      <4>1. w.status = "Discharging" =>
               got.current_now = (IF "current_now" \in w.files THEN f ELSE NULL)
               /\ got.power_now = (IF "power_now" \in w.files THEN f * Volts ELSE NULL)
        BY <1>3, <1>6, <3>1, <3>5
      <4> QED  BY <1>a, <3>1, <4>1, Zenon DEF pick
    <3> HIDE DEF now, rate
    <3>10. CASE w.status # "Discharging"
      <4>1. battery_linux(func, got) = <<>>
        BY <2>4, <3>4, <3>7, <3>8, <3>10 DEF battery_linux
      <4>2. battery_truth(os, func, w) = <<>>
        BY <1>8, <2>4, <3>10 DEF battery_truth
      <4> QED  BY <1>2, <2>1, <4>1, <4>2
    <3>11. CASE w.status = "Discharging" /\ w.flow = 0
      <4>1. battery_linux(func, got) = NULL
        BY <2>4, <3>4, <3>7, <3>8, <3>9, <3>11 DEF battery_linux
      <4>2. battery_truth(os, func, w) = NULL
        BY <2>4, <3>11 DEF battery_truth
      <4> QED  BY <1>2, <2>1, <4>1, <4>2
    <3>12. CASE w.status = "Discharging" /\ w.flow # 0
      <4>1. battery_linux(func, got) = hm((60 * now) \div Unsigned(rate, W))
        BY <2>4, <3>4, <3>7, <3>8, <3>9, <3>12 DEF battery_linux
      <4>2. Unsigned(rate, W) = rate
        BY <3>7, WidthAssumption, Kept
      <4>3. (60 * now) \div rate = Minutes(w)
        <5>1. CASE "charge_now" \in w.files
          BY <5>1 DEF now, rate, Minutes
        <5>2. CASE "charge_now" \notin w.files
          <6>0. f # 0
            BY <3>12
          <6>1. 60 * c \in Nat /\ f \in Nat \ {0} /\ Volts \in Nat \ {0}
            <7> HIDE DEF c, f
            <7> QED  BY <1>a, <6>0
          <6>2. 60 * (c * Volts) = (60 * c) * Volts
            <7> HIDE DEF c, f
            <7> QED  BY <1>a, SMT
          <6>3. ((60 * c) * Volts) \div (f * Volts) = (60 * c) \div f
            BY <6>1, Cancels
          <6> QED  BY <5>2, <6>2, <6>3 DEF now, rate, Minutes
        <5> QED  BY <5>1, <5>2
      <4>4. battery_truth(os, func, w) = hm(Minutes(w))
        BY <2>4, <3>12 DEF battery_truth
      <4> QED  BY <1>2, <2>1, <4>1, <4>2, <4>3, <4>4
    <3> QED  BY <3>10, <3>11, <3>12
  <2> QED  BY <2>2, <2>3, <2>4 DEF BatteryFunctions
<1>9. CASE os = "openbsd"
  <2>1. Results = {battery_openbsd(func, got)} /\ Reads = <<{"ac_state", "battery_life", "minutes_left"}>>
    BY <1>2, <1>9 DEF battery, battery_reads
  <2>2. got.ac_state = p.ac_state /\ got.battery_life = p.battery_life /\ got.minutes_left = p.minutes_left
    <3>1. got.ac_state = a.ac_state /\ got.battery_life = a.battery_life /\ got.minutes_left = a.minutes_left
      BY <1>2, <2>1 DEF Tells
    <3> QED  BY <1>6, <3>1
  <2>3. func = "battery_perc" => battery_openbsd(func, got) = battery_truth(os, func, w)
    BY <1>4, <2>2 DEF battery_openbsd, battery_truth
  <2>4. func = "battery_state" => battery_openbsd(func, got) = battery_truth(os, func, w)
    BY <1>1, <1>4, <1>9, <2>2 DEF battery_openbsd, battery_truth
  <2>5. CASE func = "battery_remaining"
    <3>1. w.flow # 0 /\ w.status # "Unknown"
      BY <1>2, <1>9, <2>5 DEF battery_gap
    <3> QED  BY <1>1, <1>2, <1>4, <1>9, <2>1, <2>2, <2>5, <3>1 DEF battery_openbsd, battery_truth
  <2> QED  BY <1>2, <2>1, <2>3, <2>4, <2>5 DEF BatteryFunctions
<1>10. CASE os = "freebsd"
  <2>1. Results = {battery_freebsd(func, got)}
    BY <1>2, <1>10 DEF battery
  <2>2. CASE func = "battery_perc"
    <3>1. Reads = <<{"life"}>>
      BY <1>2, <1>10, <2>2 DEF battery_reads
    <3>2. got.life = 50 * w.charge
      BY <1>2, <1>4, <1>6, <3>1 DEF Tells
    <3>3. battery_freebsd(func, got) = 50 * w.charge /\ battery_truth(os, func, w) = 50 * w.charge
      BY <2>2, <3>2 DEF battery_freebsd, battery_truth
    <3> QED  BY <1>2, <2>1, <3>3
  <2>3. CASE func = "battery_state"
    <3>1. Reads = <<{"state"}>> /\ w.charge # 0
      BY <1>2, <1>10, <2>3 DEF battery_reads, battery_gap
    <3>2. got.state = p.state
      BY <1>2, <1>6, <3>1 DEF Tells
    <3>3. battery_freebsd(func, got) = CASE got.state \in {0, 2} -> "+" [] got.state = 1 -> "-" [] OTHER -> "?"
      BY <2>3 DEF battery_freebsd
    <3>4. CASE w.status = "Discharging"
      BY <1>2, <1>c, <2>1, <2>3, <3>1, <3>2, <3>3, <3>4 DEF battery_truth
    <3>5. CASE w.status = "Charging"
      BY <1>2, <1>c, <2>1, <2>3, <3>1, <3>2, <3>3, <3>5 DEF battery_truth
    <3>6. CASE w.status = "Unknown"
      BY <1>2, <1>c, <2>1, <2>3, <3>1, <3>2, <3>3, <3>6 DEF battery_truth
    <3>7. CASE w.status \in {"Full", "Not charging"}
      <4>1. p.state = 0
        BY <1>c, <3>1, <3>7
      <4>2. battery_freebsd(func, got) = "+"
        BY <3>2, <3>3, <4>1
      <4>3. battery_truth(os, func, w) = "+"
        BY <1>10, <2>3, <3>7 DEF battery_truth
      <4> QED  BY <1>2, <2>1, <4>2, <4>3
    <3> QED  BY <1>1, <3>4, <3>5, <3>6, <3>7
  <2>4. CASE func = "battery_remaining"
    <3>1. Reads = <<{"time"}>>
      BY <1>2, <1>10, <2>4 DEF battery_reads
    <3>2. got.time = p.time
      BY <1>2, <1>6, <3>1 DEF Tells
    <3>3. CASE w.status = "Discharging" /\ w.flow # 0
      BY <1>2, <1>4, <1>7, <1>10, <2>1, <2>4, <3>2, <3>3 DEF battery_freebsd, battery_truth
    <3>4. CASE ~(w.status = "Discharging" /\ w.flow # 0)
      BY <1>2, <1>4, <1>10, <2>1, <2>4, <3>2, <3>4 DEF battery_freebsd, battery_truth
    <3> QED  BY <3>3, <3>4
  <2> QED  BY <2>2, <2>3, <2>4 DEF BatteryFunctions
<1> QED  BY <1>8, <1>9, <1>10 DEF Systems

\* Backlight: backlight.c on Linux and OpenBSD.
LEMMA BacklightRight ==
    ASSUME os \in {"linux", "openbsd"}, func = "backlight_perc", NEW w \in Worlds(func), Tells(w), ~Gap(w)
    PROVE  Results \subseteq Truth(w)
<1> DEFINE m == w.max
           c == w.cur
<1>1. m \in Nat /\ c \in Nat
  BY WorldsAssumption
<1>2. /\ Answers(w) = brightness(w) /\ Results = backlight_perc(os, got)
      /\ Truth(w) = {backlight_truth(w)} /\ ~backlight_gap(os, w) /\ Reads = backlight_reads(os)
  BY Families, ReadsIs
<1>3. got.max = m /\ got.cur = c
  <2>1. Reads = <<{"max"}, {"cur"}>> \/ Reads = <<{"max", "cur"}>>
    BY <1>2 DEF backlight_reads
  <2>2. Answers(w).max = m /\ Answers(w).cur = c
    BY <1>2 DEF brightness
  <2>3. CASE Reads = <<{"max"}, {"cur"}>>
    BY <2>2, <2>3 DEF Tells
  <2>4. CASE Reads = <<{"max", "cur"}>>
    BY <2>2, <2>4 DEF Tells
  <2> QED  BY <2>1, <2>3, <2>4
<1>4. ~(c * 100 >= W32 \div 2) /\ ~(os = "openbsd" /\ m = 0)
  BY <1>2 DEF backlight_gap
<1>5. CASE m = 0
  <2>1. os = "linux"
    BY <1>4, <1>5
  <2> HIDE DEF m
  <2>2. Results = {NULL}
    BY <1>2, <1>3, <1>5, <2>1 DEF backlight_perc
  <2>3. backlight_truth(w) = NULL
    BY <1>5 DEF backlight_truth, m
  <2> QED  BY <1>2, <2>2, <2>3
<1>6. CASE m # 0
  <2>1. Results = {Quotient(x, m) : x \in Overflow(c * 100, W32)}
    BY <1>2, <1>3, <1>6 DEF backlight_perc
  <2>2. backlight_truth(w) = (100 * c) \div m
    BY <1>6 DEF backlight_truth
  <2> DEFINE k == c * 100
  <2>3. m \in Nat \ {0} /\ k \in Nat /\ k = 100 * c /\ k < W32 \div 2 /\ W32 \in Nat
    <3>1. m \in Nat \ {0}
      BY <1>1, <1>6
    <3>2. k \in Nat /\ k = 100 * c
      <4> HIDE DEF c
      <4> QED  BY <1>1
    <3> HIDE DEF m, c, k
    <3>3. ~(k >= W32 \div 2)
      BY <1>4 DEF k
    <3> QED  BY <3>1, <3>2, <3>3, SmallShare
  <2> HIDE DEF m, c, k
  <2>4. Overflow(k, W32) = {k} /\ Quotient(k, m) = k \div m
    BY <2>3, Kept, Whole
  <2>5. Results = {k \div m}
    BY <2>1, <2>4 DEF k
  <2> QED  BY <1>2, <2>2, <2>3, <2>5
<1> QED  BY <1>5, <1>6

\* A common factor does not matter to a quotient that is rounded to zero.
LEMMA CancelsSigned ==
    ASSUME NEW t \in Int, NEW n \in Nat \ {0}, NEW c \in Nat \ {0}
    PROVE  Quotient(c * t, c * n) = Quotient(t, n)
<1>1. c * n \in Nat \ {0} /\ c * n = n * c
  BY SMT
<1>2. CASE t >= 0
  <2>1. c * t \in Nat /\ c * t = t * c
    BY <1>2, SMT
  <2>2. t \in Nat
    BY <1>2
  <2>3. Quotient(c * t, c * n) = (c * t) \div (c * n)
    BY <1>1, <2>1, Whole
  <2>4. Quotient(t, n) = t \div n
    BY <2>2, Whole
  <2>5. (t * c) \div (n * c) = t \div n
    BY <2>2, Cancels
  <2> QED  BY <1>1, <2>1, <2>3, <2>4, <2>5
<1>3. CASE t < 0
  <2> DEFINE p == -t
             ct == c * t
             cn == c * n
  <2>1. p \in Nat /\ p > 0
    BY <1>3
  <2>2. ct \in Int /\ ct < 0 /\ -ct = p * c
    <3>1. c * p \in Nat /\ c * p >= p
      <4>1. p * 1 <= p * c
        BY <2>1, Product
      <4> HIDE DEF p
      <4>2. c * p = p * c /\ c * p \in Nat
        BY <2>1, SMT
      <4> QED  BY <2>1, <4>1, <4>2
    <3>2. ct = -(c * p) /\ c * p = p * c
      BY SMT
    <3> HIDE DEF p, ct
    <3> DEFINE cp == c * p
    <3> HIDE DEF cp
    <3>3. cp \in Nat /\ cp >= p /\ ct = -cp /\ cp = p * c
      BY <3>1, <3>2 DEF cp
    <3> QED  BY <2>1, <3>3
  <2>3. cn \in Nat \ {0} /\ cn = n * c
    BY <1>1
  <2> HIDE DEF p, ct, cn
  <2>4. Quotient(ct, cn) = -((p * c) \div (n * c))
    BY <2>2, <2>3 DEF Quotient
  <2>5. Quotient(t, n) = -(p \div n)
    BY <1>3 DEF Quotient, p
  <2>6. (p * c) \div (n * c) = p \div n
    BY <2>1, Cancels
  <2> QED  BY <2>4, <2>5, <2>6 DEF ct, cn
<1> QED  BY <1>2, <1>3

\* Temperature: temperature.c on the three systems.
LEMMA TempRight ==
    ASSUME os \in Systems, func = "temp", NEW w \in Worlds(func), Tells(w), ~Gap(w)
    PROVE  Results \subseteq Truth(w)
<1> DEFINE t == w.tenths
<1>1. t \in Int /\ 100 * t < W /\ W \in Nat
  BY WorldsAssumption, WidthAssumption
<1>2. /\ Answers(w) = thermal(w) /\ Results = temp(os, got)
      /\ Truth(w) = {temp_truth(os, w)} /\ ~temp_gap(os, w) /\ Reads = temp_reads(os)
  BY Families, ReadsIs
<1>3. /\ os = "linux" => got.millis = 100 * t
      /\ os = "openbsd" => got.micros = 273150000 + 100000 * t
      /\ os = "freebsd" => got.deciK = 2731 + t
  <2>1. Answers(w).millis = 100 * t /\ Answers(w).micros = 273150000 + 100000 * t /\ Answers(w).deciK = 2731 + t
    BY <1>2 DEF thermal
  <2> HIDE DEF t
  <2>2. CASE os = "linux"
    <3>1. Reads = <<{"millis"}>>
      BY <1>2, <2>2 DEF temp_reads
    <3> QED  BY <2>1, <2>2, <3>1 DEF Tells
  <2>3. CASE os = "openbsd"
    <3>1. Reads = <<{"micros"}>>
      BY <1>2, <2>3 DEF temp_reads
    <3> QED  BY <2>1, <2>3, <3>1 DEF Tells
  <2>4. CASE os = "freebsd"
    <3>1. Reads = <<{"deciK"}>>
      BY <1>2, <2>4 DEF temp_reads
    <3> QED  BY <2>1, <2>4, <3>1 DEF Tells
  <2> QED  BY <2>2, <2>3, <2>4 DEF Systems
<1>4. /\ os = "linux" => ~(t < 0)
      /\ os = "freebsd" => t \notin -9 .. -1
  BY <1>2 DEF temp_gap
<1>5. Truth(w) = {IF os = "freebsd" THEN t ELSE Quotient(t, 10)}
  BY <1>2 DEF temp_truth
<1> HIDE DEF t
<1>6. CASE os = "linux"
  <2>1. t \in Nat /\ 100 * t \in Nat
    BY <1>1, <1>4, <1>6
  <2>2. Results = {Unsigned(100 * t, W) \div 1000}
    BY <1>2, <1>3, <1>6 DEF temp
  <2>3. Unsigned(100 * t, W) = 100 * t
    BY <1>1, <2>1, Kept
  <2>4. (t * 100) \div (10 * 100) = t \div 10
    BY <2>1, Cancels
  <2>5. Quotient(t, 10) = t \div 10
    BY <2>1, Whole
  <2>6. t * 100 = 100 * t /\ 10 * 100 = 1000
    BY <1>1
  <2> QED  BY <1>5, <1>6, <2>2, <2>3, <2>4, <2>5, <2>6
<1>7. CASE os = "openbsd"
  <2>1. Results = {Quotient(got.micros - 273150000, 1000000)}
    BY <1>2, <1>7 DEF temp
  <2>2. got.micros - 273150000 = 100000 * t /\ 1000000 = 100000 * 10
    BY <1>1, <1>3, <1>7
  <2>3. Quotient(100000 * t, 100000 * 10) = Quotient(t, 10)
    BY <1>1, CancelsSigned
  <2> QED  BY <1>5, <1>7, <2>1, <2>2, <2>3
<1>8. CASE os = "freebsd"
  <2> DEFINE q == Quotient(t, 10)
             r == Remainder(t, 10)
             v == 10 * q + (IF q < 0 THEN -(IF r < 0 THEN -r ELSE r) ELSE IF r < 0 THEN -r ELSE r)
  <2>1. got.deciK - 2731 = t
    BY <1>1, <1>3, <1>8
  <2>2. Results = {v}
    BY <1>2, <1>8, <2>1 DEF temp
  <2>3. q \in Int /\ r = t - 10 * q /\ (t >= 0 => q >= 0 /\ r >= 0) /\ (t < -9 => q < 0 /\ r <= 0)
    <3>1. r = t - 10 * q
      BY DEF Remainder
    <3>2. CASE t >= 0
      <4>1. q = t \div 10
        BY <1>1, <3>2, Whole
      <4> HIDE DEF q, r
      <4> QED  BY <1>1, <3>1, <3>2, <4>1
    <3>3. CASE t < 0
      <4>1. q = -((-t) \div 10)
        BY <1>1, <3>3 DEF Quotient
      <4> HIDE DEF q, r
      <4> QED  BY <1>1, <3>1, <3>3, <4>1
    <3> HIDE DEF q, r
    <3> QED  BY <1>1, <3>1, <3>2, <3>3
  <2> HIDE DEF q, r
  <2>4. v = t
    BY <1>1, <1>4, <1>8, <2>3
  <2> QED  BY <1>5, <1>8, <2>2, <2>4
<1> QED  BY <1>6, <1>7, <1>8 DEF Systems

\* Disk: disk.c.
LEMMA DiskRight ==
    ASSUME func \in DiskFunctions, NEW w \in Worlds(func), Tells(w), ~Gap(w)
    PROVE  Results \subseteq Truth(w)
<1> DEFINE b == w.blocks
           t == w.taken
           r == w.reserved
           avail == IF b - t < r THEN 0 ELSE b - t - r
           kept == IF t + r > b THEN b ELSE t + r
<1>1. b \in Nat /\ t \in 0 .. b /\ r \in Nat
  BY WorldsAssumption
<1>2. /\ Answers(w) = statvfs(w) /\ Results = disk(func, got) /\ Truth(w) = disk_truth(func, w)
      /\ ~disk_gap(func, w) /\ Reads = <<{"blocks", "bfree", "bavail"}>>
  BY Families, ReadsIs
<1>3. got.blocks = b /\ got.bfree = b - t /\ got.bavail = avail
  <2>1. /\ got.blocks = Answers(w).blocks /\ got.bfree = Answers(w).bfree
        /\ got.bavail = Answers(w).bavail
    BY <1>2 DEF Tells
  <2> QED  BY <1>2, <2>1 DEF statvfs
<1>4. disk_truth(func, w) = CASE func = "disk_free"  -> {b - kept}
                              [] func = "disk_total" -> {b}
                              [] func = "disk_used"  -> {t}
                              [] func = "disk_perc"  -> IF b = 0 THEN {NULL}
                                     ELSE {(100 * kept) \div b - d : d \in {0, 1}}
  BY DEF disk_truth
<1>5. func = "disk_perc" => b # 0
  BY <1>2 DEF disk_gap
<1> HIDE DEF b, t, r
<1>6. avail \in Nat /\ kept \in Nat /\ b - avail = kept /\ avail = b - kept /\ b - (b - t) = t
  BY <1>1
<1> HIDE DEF avail, kept
<1>7. CASE func # "disk_perc"
  <2>1. Results = CASE func = "disk_free" -> {avail} [] func = "disk_total" -> {b} [] func = "disk_used" -> {t}
    BY <1>2, <1>3, <1>6, <1>7 DEF disk, DiskFunctions
  <2> QED  BY <1>2, <1>4, <1>6, <1>7, <2>1 DEF DiskFunctions
<1>8. CASE func = "disk_perc"
  <2> DEFINE q == (100 * kept) \div b
  <2>1. Results = share(kept, b)
    BY <1>2, <1>3, <1>5, <1>6, <1>8 DEF disk
  <2>2. q \in Int
    <3> DEFINE k == 100 * kept
    <3>1. k \in Int /\ b \in Nat \ {0}
      BY <1>1, <1>5, <1>6, <1>8
    <3> HIDE DEF k
    <3>2. k \div b \in Int
      BY <3>1, Division
    <3> QED  BY <3>2 DEF k
  <2>3. share(kept, b) \subseteq {q, q - 1}
    BY Zenon DEF share
  <2>4. disk_truth(func, w) = {q - d : d \in {0, 1}}
    BY <1>4, <1>5, <1>8
  <2> HIDE DEF q
  <2>5. {q, q - 1} \subseteq {q - d : d \in {0, 1}}
    BY <2>2
  <2> QED  BY <1>2, <2>1, <2>3, <2>4, <2>5
<1> QED  BY <1>7, <1>8

\* The percentage that "%.0f" rounds to is the nearest.
LEMMA Nearest ==
    ASSUME NEW k \in Nat, NEW n \in Nat \ {0}, k <= n
    PROVE  /\ Rounded(k * 100, n) \in 0 .. 100
           /\ 2 * (Rounded(k * 100, n) * n - 100 * k) \in -n .. n
<1> DEFINE x == k * 100
           q == x \div n
           r == x % n
           p == Rounded(x, n)
<1>1. x \in Nat /\ x = 100 * k /\ x <= 100 * n
  OBVIOUS
<1> HIDE DEF x
<1>2. r \in 0 .. n - 1 /\ q \in Int /\ x = n * q + r
  <2>1. x % n \in 0 .. n - 1 /\ x \div n \in Int /\ x = n * (x \div n) + (x % n)
    <3>1. x \in Int
      BY <1>1
    <3> QED  BY <3>1, Division
  <2> QED  BY <2>1
<1>3. /\ p = q \/ p = q + 1
      /\ p = q => 2 * r <= n
      /\ p = q + 1 => 2 * r >= n
  <2>1. p = IF 2 * r < n \/ (2 * r = n /\ q % 2 = 0) THEN q ELSE q + 1
    BY DEF Rounded
  <2> HIDE DEF p, q, r
  <2> QED  BY <1>2, <2>1
<1> HIDE DEF p, q, r
<1> DEFINE nq == n * q
<1>4. nq \in Int /\ x = nq + r /\ n * (q + 1) = nq + n
  BY <1>2, SMT
<1>5. q \in 0 .. 100 /\ (q = 100 => r = 0)
  <2>1. q <= 100
    <3> SUFFICES ASSUME 101 <= q PROVE FALSE
      BY <1>2
    <3>1. n * 101 <= nq
      BY <1>2, Product
    <3> HIDE DEF nq
    <3> QED  BY <1>1, <1>2, <1>4, <3>1
  <2>2. q >= 0
    <3> SUFFICES ASSUME q <= -1 PROVE FALSE
      BY <1>2
    <3>1. nq <= n * (-1)
      BY <1>2, Product
    <3> HIDE DEF nq
    <3> QED  BY <1>1, <1>2, <1>4, <3>1
  <2>3. q = 100 => nq = 100 * n
    BY SMT
  <2> HIDE DEF nq
  <2> QED  BY <1>1, <1>2, <1>4, <2>1, <2>2, <2>3
<1>6. CASE p = q
  <2>1. p * n = nq
    BY <1>2, <1>6, SMT
  <2> HIDE DEF nq
  <2>2. 2 * (p * n - 100 * k) = 2 * (nq - x)
    BY <1>1, <2>1
  <2>3. 2 * (nq - x) \in -n .. n
    BY <1>1, <1>2, <1>3, <1>4, <1>6
  <2> QED  BY <1>5, <1>6, <2>2, <2>3 DEF p, x
<1>7. CASE p = q + 1
  <2>1. p * n = nq + n
    BY <1>2, <1>4, <1>7, SMT
  <2> HIDE DEF nq
  <2>2. 2 * (p * n - 100 * k) = 2 * (nq + n - x)
    <3> DEFINE pn == p * n
    <3>1. pn = nq + n
      BY <2>1
    <3> HIDE DEF pn
    <3> QED  BY <1>1, <1>4, <3>1 DEF pn
  <2>3. 2 * (nq + n - x) \in -n .. n
    BY <1>1, <1>2, <1>3, <1>4, <1>7
  <2>4. q # 100
    BY <1>2, <1>3, <1>5, <1>7
  <2> QED  BY <1>5, <1>7, <2>2, <2>3, <2>4 DEF p, x
<1> QED  BY <1>3, <1>6, <1>7

\* Volume: volume.c with ALSA.
LEMMA AlsaRight ==
    ASSUME NEW w, w.lowest \in Int, w.highest \in Int, w.left \in w.lowest .. w.highest, ~alsa_gap(w),
           Tells(w), Answers(w) = mixer(w), Reads = alsa_reads
    PROVE  vol_perc_alsa(got) \subseteq alsa_truth(w)
<1> DEFINE lo == w.lowest
           hi == w.highest
           v  == w.left
<1>1. lo \in Int /\ hi \in Int /\ v \in lo .. hi
  OBVIOUS
<1>3. got.min = lo /\ got.max = hi /\ got.volume = v
  <2>1. Reads = <<{"min", "max"}, {"volume"}>>
    BY DEF alsa_reads
  <2>2. got.min = Answers(w).min /\ got.max = Answers(w).max /\ got.volume = Answers(w).volume
    BY <2>1 DEF Tells
  <2> QED  BY <2>2 DEF mixer
<1>4. v # -1 /\ lo # hi
  BY DEF alsa_gap
<1>5. alsa_truth(w) = {p \in 0 .. 100 : 2 * (p * (hi - lo) - 100 * (v - lo)) \in lo - hi .. hi - lo}
  BY DEF alsa_truth
<1> HIDE DEF lo, hi, v
<1>6. vol_perc_alsa(got) = {Rounded((v - lo) * 100, hi - lo)}
  BY <1>3, <1>4 DEF vol_perc_alsa
<1> DEFINE k == v - lo
           n == hi - lo
           p == Rounded(k * 100, n)
<1>7. k \in Nat /\ n \in Nat \ {0} /\ k <= n /\ lo - hi = -n
  BY <1>1, <1>4
<1>8. alsa_truth(w) = {s \in 0 .. 100 : 2 * (s * n - 100 * k) \in -n .. n}
  BY <1>5, <1>7
<1> HIDE DEF k, n
<1>9. p \in 0 .. 100 /\ 2 * (p * n - 100 * k) \in -n .. n
  BY <1>7, Nearest
<1>10. vol_perc_alsa(got) = {p}
  BY <1>6 DEF k, n
<1> HIDE DEF p
<1> QED  BY <1>8, <1>9, <1>10

\* Volume: volume.c with OSS.
LEMMA OssRight ==
    ASSUME NEW w, w.left \in 0 .. 100, w.right \in 0 .. 100,
           Tells(w), Answers(w) = mixer(w), Reads = oss_reads(got)
    PROVE  vol_perc_oss(got) \subseteq oss_truth(w)
<1> DEFINE x == w.left
           y == w.right
<1>1. x \in 0 .. 100 /\ y \in 0 .. 100
  OBVIOUS
<1>2. got.devmask = w.vol
  <2>1. Reads = <<{"devmask"}>> \/ Reads = <<{"devmask"}, {"v"}>>
    BY DEF oss_reads
  <2>2. got.devmask = Answers(w).devmask
    <3>1. CASE Reads = <<{"devmask"}>>
      BY <3>1 DEF Tells
    <3>2. CASE Reads = <<{"devmask"}, {"v"}>>
      BY <3>2 DEF Tells
    <3> QED  BY <2>1, <3>1, <3>2
  <2> QED  BY <2>2 DEF mixer
<1>3. CASE ~w.vol
  BY <1>2, <1>3 DEF vol_perc_oss, oss_truth
<1>4. CASE w.vol
  <2>1. Reads = <<{"devmask"}, {"v"}>>
    BY <1>2, <1>4 DEF oss_reads
  <2>2. got.v = x + 256 * y
    <3>1. got.v = Answers(w).v
      BY <2>1 DEF Tells
    <3> QED  BY <3>1 DEF mixer
  <2>3. vol_perc_oss(got) = {got.v % 256} /\ oss_truth(w) = {x}
    BY <1>2, <1>4 DEF vol_perc_oss, oss_truth
  <2> DEFINE v == x + 256 * y
  <2> HIDE DEF x, y
  <2>4. v % 256 = x
    <3>1. v \in Int /\ y \in Int /\ x \in 0 .. 256 - 1 /\ v = 256 * y + x
      BY <1>1
    <3> HIDE DEF v
    <3> QED  BY <3>1, Unique
  <2> QED  BY <2>2, <2>3, <2>4
<1> QED  BY <1>3, <1>4

\* The signal in percent is 0 at -100 dBm and 100 at -50.
LEMMA SignalRange ==
    ASSUME NEW n \in Int
    PROVE  /\ RSSI_TO_PERC(n) = IF 2 * (n + 100) < 0 THEN 0 ELSE IF 2 * (n + 100) > 100 THEN 100 ELSE 2 * (n + 100)
           /\ LET c == IF n + 100 < 0 THEN 0 ELSE IF n + 100 > 50 THEN 50 ELSE n + 100
              IN  (c * 100) \div 50 = IF 2 * (n + 100) < 0 THEN 0
                                      ELSE IF 2 * (n + 100) > 100 THEN 100 ELSE 2 * (n + 100)
<1>1. RSSI_TO_PERC(n) = IF 2 * (n + 100) < 0 THEN 0 ELSE IF 2 * (n + 100) > 100 THEN 100 ELSE 2 * (n + 100)
  BY DEF RSSI_TO_PERC
<1> DEFINE c == IF n + 100 < 0 THEN 0 ELSE IF n + 100 > 50 THEN 50 ELSE n + 100
<1>2. c \in Int /\ c * 100 \in Int /\ c * 100 = 50 * (2 * c) + 0 /\ 2 * c \in Int
  OBVIOUS
<1>3. (c * 100) \div 50 = 2 * c
  <2> DEFINE x == c * 100
             d == 2 * c
  <2>1. x \in Int /\ d \in Int /\ x = 50 * d + 0
    BY <1>2
  <2> HIDE DEF x, d, c
  <2>2. x \div 50 = d
    BY <2>1, Unique
  <2> QED  BY <2>2 DEF x, d
<1>4. 2 * c = IF 2 * (n + 100) < 0 THEN 0 ELSE IF 2 * (n + 100) > 100 THEN 100 ELSE 2 * (n + 100)
  OBVIOUS
<1> QED  BY <1>1, <1>3, <1>4, Zenon

\* Half of what is twice as much.
LEMMA Halved ==
    ASSUME NEW n \in Int
    PROVE  Quotient(2 * n, 2) = n
<1>1. Quotient(2 * n, 2 * 1) = Quotient(n, 1)
  BY CancelsSigned
<1>2. Quotient(n, 1) = n
  BY DEF Quotient
<1> QED  BY <1>1, <1>2

\* Wifi: wifi.c on OpenBSD and FreeBSD.
LEMMA WifiRight ==
    ASSUME os \in {"openbsd", "freebsd"}, func \in WifiFunctions, NEW w \in Worlds(func), Tells(w)
    PROVE  Results \subseteq Truth(w)
<1> DEFINE n == w.dbm[w.ap]
           m == w.max_rssi
           clip(x) == CASE x < 0 -> 0 [] x > m -> m [] OTHER -> x
           node(x) == [nwid |-> x, max_rssi |-> m, dbm |-> w.dbm[x],
                       rssi |-> IF m = 0 THEN w.dbm[x] ELSE clip(w.dbm[x] + 100)]
           range(x) == CASE x < 0 -> 0 [] x > 100 -> 100 [] OTHER -> x
<1>1. /\ NULL \notin w.known /\ (w.ap # NULL => w.ap \in w.known) /\ (w.ap # NULL => n \in Int)
      /\ m \in {0, 50} /\ Noise \in Int
  BY WorldsAssumption
<1>2. /\ Answers(w) = net80211(w) /\ Results = wifi(os, func, got) /\ Truth(w) = {wifi_truth(os, func, w)}
      /\ Reads = wifi_reads(os, func, got)
  BY Families, ReadsIs
<1>3. /\ net80211(w).bssid = w.ap /\ net80211(w).ssid = (IF w.ap = NULL THEN "" ELSE w.ap)
      /\ net80211(w).nodes = [x \in w.known |-> node(x)]
  BY DEF net80211
<1> DEFINE signal == IF 2 * (n + 100) < 0 THEN 0 ELSE IF 2 * (n + 100) > 100 THEN 100 ELSE 2 * (n + 100)
<1>4. w.ap # NULL => (func = "wifi_perc" => wifi_truth(os, func, w) = signal)
  <2> SUFFICES ASSUME w.ap # NULL, func = "wifi_perc" PROVE wifi_truth(os, func, w) = signal
    OBVIOUS
  <2>1. wifi_truth(os, func, w) = range(2 * (n + 100))
    BY DEF wifi_truth
  <2>2. range(2 * (n + 100)) = signal
    <3> HIDE DEF n
    <3>1. n \in Int
      BY <1>1
    <3> QED  BY <3>1
  <2> QED  BY <2>1, <2>2
<1>5. w.ap # NULL => (func = "wifi_essid" => wifi_truth(os, func, w) = w.ap)
  BY DEF wifi_truth
<1>6. w.ap = NULL => wifi_truth(os, func, w) = IF os = "freebsd" /\ func = "wifi_essid" THEN "" ELSE NULL
  BY DEF wifi_truth
<1>7. ASSUME w.ap # NULL
      PROVE  /\ node(w.ap).nwid = w.ap /\ node(w.ap).max_rssi = m /\ node(w.ap).dbm = n
             /\ m = 0 => node(w.ap).rssi = n
             /\ m = 50 => node(w.ap).rssi = IF n + 100 < 0 THEN 0 ELSE IF n + 100 > 50 THEN 50 ELSE n + 100
  <2>1. m = 50 => clip(n + 100) = IF n + 100 < 0 THEN 0 ELSE IF n + 100 > 50 THEN 50 ELSE n + 100
    <3> HIDE DEF n, m
    <3> QED  BY <1>1, <1>7
  <2>2. node(w.ap).rssi = IF m = 0 THEN n ELSE clip(n + 100)
    OBVIOUS
  <2>3. m = 50 => m # 0
    <3> HIDE DEF m
    <3> QED  OBVIOUS
  <2> HIDE DEF clip
  <2>4. /\ node(w.ap).nwid = w.ap /\ node(w.ap).max_rssi = m /\ node(w.ap).dbm = n
    OBVIOUS
  <2> HIDE DEF node, n, m
  <2> QED  BY <2>1, <2>2, <2>3, <2>4
<1>8. ASSUME func = "wifi_perc" \/ os = "openbsd"
      PROVE  /\ got.bssid = w.ap
             /\ os = "freebsd" \/ w.ap # NULL => got.nodes = [x \in w.known |-> node(x)]
  <2>1. Reads = <<{"bssid"}>> \/ Reads = <<{"bssid"}, {"nodes"}>>
    BY <1>2, <1>8 DEF wifi_reads
  <2>2. got.bssid = Answers(w).bssid
    <3>1. CASE Reads = <<{"bssid"}>>
      BY <3>1 DEF Tells
    <3>2. CASE Reads = <<{"bssid"}, {"nodes"}>>
      BY <3>2 DEF Tells
    <3> QED  BY <2>1, <3>1, <3>2
  <2>3. got.bssid = w.ap
    BY <1>2, <1>3, <2>2
  <2>4. ASSUME os = "freebsd" \/ w.ap # NULL PROVE got.nodes = Answers(w).nodes
    <3>1. Reads = <<{"bssid"}, {"nodes"}>>
      BY <1>2, <1>8, <2>3, <2>4 DEF wifi_reads
    <3> QED  BY <3>1 DEF Tells
  <2> HIDE DEF node
  <2> QED  BY <1>2, <1>3, <2>3, <2>4
<1> HIDE DEF node
<1>9. w.ap # NULL => /\ w.ap \in DOMAIN [x \in w.known |-> node(x)]
                     /\ [x \in w.known |-> node(x)][w.ap] = node(w.ap)
  BY <1>1
<1>10. w.ap # NULL => RSSI_TO_PERC(n) = signal
  <2> HIDE DEF n
  <2> QED  BY <1>1, SignalRange
<1>11. CASE os = "openbsd"
  <2>1. Results = {wifi_openbsd(func, got)}
    BY <1>2, <1>11 DEF wifi
  <2>2. CASE w.ap = NULL
    BY <1>2, <1>6, <1>8, <1>11, <2>1, <2>2 DEF wifi_openbsd
  <2>3. CASE w.ap # NULL
    <3>1. load_ieee80211_nodereq(got) = node(w.ap)
      BY <1>8, <1>9, <1>11, <2>3 DEF load_ieee80211_nodereq
    <3>2. CASE func = "wifi_essid"
      <4>1. wifi_openbsd(func, got) = node(w.ap).nwid
        BY <1>8, <1>11, <2>3, <3>1, <3>2 DEF wifi_openbsd
      <4> QED  BY <1>2, <1>5, <1>7, <2>1, <2>3, <3>2, <4>1
    <3>3. CASE func = "wifi_perc" /\ m = 0
      <4>1. wifi_openbsd(func, got) = RSSI_TO_PERC(n)
        BY <1>7, <1>8, <1>11, <2>3, <3>1, <3>3, Zenon DEF wifi_openbsd
      <4> HIDE DEF signal
      <4> QED  BY <1>2, <1>4, <1>10, <2>1, <2>3, <3>3, <4>1
    <3>4. CASE func = "wifi_perc" /\ m = 50
      <4> DEFINE c == IF n + 100 < 0 THEN 0 ELSE IF n + 100 > 50 THEN 50 ELSE n + 100
      <4>1. m # 0
        <5> HIDE DEF m
        <5> QED  BY <3>4
      <4>2. wifi_openbsd(func, got) = (node(w.ap).rssi * 100) \div node(w.ap).max_rssi
        BY <1>7, <1>8, <1>11, <2>3, <3>1, <3>4, <4>1, Zenon DEF wifi_openbsd
      <4>3. wifi_openbsd(func, got) = (c * 100) \div 50
        BY <1>7, <2>3, <3>4, <4>2, Zenon
      <4>4. (c * 100) \div 50 = signal
        <5> HIDE DEF n
        <5> QED  BY <1>1, <2>3, SignalRange
      <4> HIDE DEF signal, c
      <4> QED  BY <1>2, <1>4, <2>1, <2>3, <3>4, <4>3, <4>4
    <3> QED  BY <1>1, <3>2, <3>3, <3>4 DEF WifiFunctions
  <2> QED  BY <2>2, <2>3
<1>12. CASE os = "freebsd"
  <2>1. Results = {wifi_freebsd(func, got)}
    BY <1>2, <1>12 DEF wifi
  <2>2. CASE func = "wifi_essid"
    <3>1. Reads = <<{"ssid"}>>
      BY <1>2, <1>12, <2>2 DEF wifi_reads
    <3>2. got.ssid = Answers(w).ssid
      BY <3>1 DEF Tells
    <3>3. wifi_freebsd(func, got) = got.ssid
      BY <2>2 DEF wifi_freebsd
    <3> QED  BY <1>2, <1>3, <1>5, <1>6, <1>12, <2>1, <2>2, <3>2, <3>3
  <2>3. CASE func = "wifi_perc" /\ w.ap = NULL
    <3>1. got.bssid \notin DOMAIN got.nodes
      BY <1>1, <1>8, <1>12, <2>3
    <3>2. wifi_freebsd(func, got) = NULL
      BY <2>3, <3>1 DEF wifi_freebsd
    <3> QED  BY <1>2, <1>6, <1>12, <2>1, <2>3, <3>2
  <2>4. CASE func = "wifi_perc" /\ w.ap # NULL
    <3>1. got.bssid \in DOMAIN got.nodes /\ got.nodes[got.bssid] = node(w.ap)
      BY <1>8, <1>9, <1>12, <2>4
    <3>2. wifi_freebsd(func, got) = RSSI_TO_PERC(Noise + Quotient(2 * (node(w.ap).dbm - Noise), 2))
      BY <2>4, <3>1 DEF wifi_freebsd
    <3>3. node(w.ap).dbm = n
      BY <1>7, <2>4
    <3>4. Noise + Quotient(2 * (n - Noise), 2) = n
      <4> DEFINE d == n - Noise
      <4>1. d \in Int /\ Noise + d = n
        <5> HIDE DEF n
        <5> QED  BY <1>1, <2>4
      <4> HIDE DEF d
      <4>2. Quotient(2 * d, 2) = d
        BY <4>1, Halved
      <4> QED  BY <4>1, <4>2 DEF d
    <3> HIDE DEF n
    <3>5. wifi_freebsd(func, got) = RSSI_TO_PERC(n)
      BY <3>2, <3>3, <3>4
    <3> HIDE DEF signal
    <3> QED  BY <1>2, <1>4, <1>10, <2>1, <2>4, <3>5
  <2> QED  BY <2>2, <2>3, <2>4 DEF WifiFunctions
<1> QED  BY <1>11, <1>12

\* A set of natural numbers that has an element has a least one.
LEMMA Least ==
    ASSUME NEW S, S \subseteq Nat, S # {}
    PROVE  \E k \in S : \A j \in S : k <= j
<1> DEFINE less == OpToRel(<, Nat)
<1>1. IsWellFoundedOn(less, Nat)
  BY NatLessThanWellFounded, Zenon
<1>2. less = {ss \in Nat \X Nat : ss[1] < ss[2]}
  BY Zenon DEF OpToRel
<1> HIDE DEF less
<1>3. \E k \in S : \A j \in S : ~(<<j, k>> \in less)
  BY <1>1, WFMin
<1>4. \A j, k \in S : ~(<<j, k>> \in less) => k <= j
  BY <1>2
<1> QED  BY <1>3, <1>4

-----------------------------------------------------------------------------
(* Sums over a sequence                                                      *)

\* The places of a sequence are finitely many.
LEMMA Places ==
    ASSUME NEW n \in Nat, NEW s \in SUBSET (1 .. n)
    PROVE  IsFiniteSet(s) /\ Cardinality(s) \in Nat /\ Cardinality(s) <= n
<1>1. 1 \in Int /\ n \in Int
  OBVIOUS
<1>2. IsFiniteSet(1 .. n) /\ Cardinality(1 .. n) = IF 1 > n THEN 0 ELSE n - 1 + 1
  BY <1>1, FS_Interval, Zenon
<1>3. Cardinality(1 .. n) = n
  BY <1>2
<1>4. IsFiniteSet(s) /\ Cardinality(s) <= Cardinality(1 .. n)
  BY <1>2, FS_Subset, Zenon
<1>5. Cardinality(s) \in Nat
  BY <1>4, FS_CardinalityType, Zenon
<1> QED  BY <1>3, <1>4, <1>5

\* Some places of a sequence, and what is left of them without the last one.
LEMMA Rest ==
    ASSUME NEW n \in Nat, NEW s \in SUBSET (1 .. n), s # {}
    PROVE  /\ Max(s) \in s /\ s \ {Max(s)} \in SUBSET (1 .. n)
           /\ Cardinality(s) \in Nat \ {0}
           /\ Cardinality(s \ {Max(s)}) = Cardinality(s) - 1
<1>1. PICK x \in s : \A y \in s : x >= y
  <2> DEFINE From == {n - x : x \in s}
  <2>1. From \subseteq Nat /\ From # {}
    <3>1. \A x \in s : n - x \in Nat
      OBVIOUS
    <3> QED  BY <3>1
  <2>2. PICK m \in From : \A y \in From : m <= y
    BY <2>1, Least
  <2>3. PICK x \in s : m = n - x
    BY <2>2
  <2>4. ASSUME NEW y \in s PROVE x >= y
    <3>1. n - y \in From
      OBVIOUS
    <3>2. n - x <= n - y
      BY <2>2, <2>3, <3>1
    <3>3. x \in Nat /\ y \in Nat
      OBVIOUS
    <3> HIDE DEF From
    <3> QED  BY <3>2, <3>3
  <2> QED  BY <2>4
<1>2. Max(s) \in s
  BY <1>1 DEF Max
<1>3. IsFiniteSet(s)
  BY Places
<1>4. Cardinality(s) \in Nat /\ Cardinality(s) # 0
  BY <1>3, FS_CardinalityType, FS_EmptySet
<1>5. Cardinality(s \ {Max(s)}) = Cardinality(s) - 1
  BY <1>2, <1>3, FS_RemoveElement
<1> QED  BY <1>2, <1>4, <1>5

\* f[s] is the sum of the numbers v at the places s, the last of which is added
\* last.
Adds(f, v, s) == f[s] = IF s = {} THEN 0 ELSE f[s \ {Max(s)}] + v[Max(s)]

\* There are such sums, as those of m places yield those of m + 1.
LEMMA SumExists ==
    ASSUME NEW n \in Nat, NEW v
    PROVE  \E f : \A s \in SUBSET (1 .. n) : Adds(f, v, s)
<1> DEFINE Upto(m) == \E f : \A s \in SUBSET (1 .. n) : Cardinality(s) <= m => Adds(f, v, s)
           Bad == {m \in Nat : ~Upto(m)}
<1>1. ASSUME NEW m \in Nat, m = 0 \/ (m - 1 \in Nat /\ Upto(m - 1))
      PROVE  Upto(m)
  <2>1. PICK f : m # 0 => \A s \in SUBSET (1 .. n) : Cardinality(s) <= m - 1 => Adds(f, v, s)
    BY <1>1
  <2> DEFINE h == [s \in SUBSET (1 .. n) |-> IF s = {} THEN 0 ELSE f[s \ {Max(s)}] + v[Max(s)]]
  <2>2. ASSUME NEW s \in SUBSET (1 .. n), Cardinality(s) <= m
        PROVE  Adds(h, v, s)
    <3>1. h[s] = IF s = {} THEN 0 ELSE f[s \ {Max(s)}] + v[Max(s)]
      OBVIOUS
    <3>2. CASE s = {}
      BY <3>1, <3>2 DEF Adds
    <3>3. CASE s # {}
      <4> DEFINE t == s \ {Max(s)}
      <4>1. t \in SUBSET (1 .. n) /\ m # 0 /\ Cardinality(t) <= m - 1
        <5>1. t \in SUBSET (1 .. n) /\ Cardinality(s) \in Nat \ {0} /\ Cardinality(t) = Cardinality(s) - 1
          BY <3>3, Rest
        <5> HIDE DEF t
        <5> QED  BY <2>2, <5>1
      <4>2. h[t] = IF t = {} THEN 0 ELSE f[t \ {Max(t)}] + v[Max(t)]
        BY <4>1
      <4>3. f[t] = IF t = {} THEN 0 ELSE f[t \ {Max(t)}] + v[Max(t)]
        BY <2>1, <4>1 DEF Adds
      <4> HIDE DEF h
      <4>4. h[t] = f[t]
        BY <4>2, <4>3
      <4> QED  BY <3>1, <3>3, <4>4 DEF Adds
    <3> QED  BY <3>2, <3>3
  <2> HIDE DEF h
  <2> QED  BY <2>2
<1>2. Bad = {}
  <2>1. SUFFICES ASSUME Bad # {} PROVE FALSE
    OBVIOUS
  <2> HIDE DEF Upto
  <2>2. Bad \subseteq Nat
    OBVIOUS
  <2>3. PICK m \in Bad : \A k \in Bad : m <= k
    BY <2>1, <2>2, Least
  <2>4. m = 0 \/ (m - 1 \in Nat /\ Upto(m - 1))
    BY <2>3
  <2> QED  BY <1>1, <2>3, <2>4
<1>3. Upto(n)
  BY <1>2
<1>4. \A s \in SUBSET (1 .. n) : Cardinality(s) <= n
  BY Places
<1> QED  BY <1>3, <1>4

\* And a sum defined by that equation is one.
LEMMA SumIs ==
    ASSUME NEW n \in Nat, NEW v, NEW f,
           f = CHOOSE g : g = [s \in SUBSET (1 .. n) |-> IF s = {} THEN 0 ELSE g[s \ {Max(s)}] + v[Max(s)]]
    PROVE  \A s \in SUBSET (1 .. n) : Adds(f, v, s)
<1> DEFINE D == SUBSET (1 .. n)
           Body(g) == [s \in D |-> IF s = {} THEN 0 ELSE g[s \ {Max(s)}] + v[Max(s)]]
<1>1. PICK g : \A s \in D : Adds(g, v, s)
  BY SumExists
<1> DEFINE h == [s \in D |-> g[s]]
<1>2. \A s \in D : h[s] = IF s = {} THEN 0 ELSE h[s \ {Max(s)}] + v[Max(s)]
  <2> SUFFICES ASSUME NEW s \in D PROVE h[s] = IF s = {} THEN 0 ELSE h[s \ {Max(s)}] + v[Max(s)]
    OBVIOUS
  <2>1. h[s] = g[s] /\ h[s \ {Max(s)}] = g[s \ {Max(s)}]
    OBVIOUS
  <2> HIDE DEF h
  <2> QED  BY <1>1, <2>1 DEF Adds
<1>3. h = Body(h)
  <2>1. h = [s \in D |-> h[s]]
    OBVIOUS
  <2> HIDE DEF h, D
  <2> QED  BY <1>2, <2>1
<1> HIDE DEF h
<1>4. f = Body(f)
  BY <1>3
<1>5. ASSUME NEW s \in D PROVE Adds(f, v, s)
  <2>1. Body(f)[s] = IF s = {} THEN 0 ELSE f[s \ {Max(s)}] + v[Max(s)]
    OBVIOUS
  <2> HIDE DEF Body
  <2> QED  BY <1>4, <2>1 DEF Adds
<1> QED  BY <1>5

\* What FoldLeft adds up is such a sum.
Total(v) == FoldLeft(LAMBDA sum, x : sum + x, 0, v)

LEMMA FoldIs ==
    ASSUME NEW n \in Nat, NEW v, DOMAIN v = 1 .. n
    PROVE  \E f : /\ \A s \in SUBSET (1 .. n) : Adds(f, v, s)
                  /\ Total(v) = f[1 .. n]
<1> DEFINE f == CHOOSE g : g = [s \in SUBSET (1 .. n) |-> IF s = {} THEN 0 ELSE g[s \ {Max(s)}] + v[Max(s)]]
<1>1. Total(v) = f[1 .. n]
  BY DEF Total, FoldLeft, MapThenFoldSet
<1>2. f = CHOOSE g : g = [s \in SUBSET (1 .. n) |-> IF s = {} THEN 0 ELSE g[s \ {Max(s)}] + v[Max(s)]]
  OBVIOUS
<1> HIDE DEF f
<1>3. \A s \in SUBSET (1 .. n) : Adds(f, v, s)
  BY <1>2, SumIs
<1> QED  BY <1>1, <1>3

\* The c-fold of each of n numbers.
Multiples(c, n, u, v) ==
    DOMAIN u = 1 .. n /\ DOMAIN v = 1 .. n /\ \A k \in 1 .. n : u[k] \in Nat /\ v[k] = c * u[k]

\* A sum of multiples is a multiple of the sum.
LEMMA FoldScales ==
    ASSUME NEW c \in Nat, NEW n \in Nat, NEW u, NEW v, Multiples(c, n, u, v)
    PROVE  Total(v) = c * Total(u)
<1> USE DEF Multiples
<1>1. PICK f : /\ \A s \in SUBSET (1 .. n) : Adds(f, u, s)
               /\ Total(u) = f[1 .. n]
  BY FoldIs
<1>2. PICK g : /\ \A s \in SUBSET (1 .. n) : Adds(g, v, s)
               /\ Total(v) = g[1 .. n]
  BY FoldIs
<1> DEFINE Right(s) == f[s] \in Nat /\ g[s] = c * f[s]
           Bad == {m \in Nat : \E s \in SUBSET (1 .. n) : Cardinality(s) = m /\ ~Right(s)}
<1>4. Bad = {}
  <2>1. SUFFICES ASSUME Bad # {} PROVE FALSE
    OBVIOUS
  <2>2. PICK m \in Bad : \A k \in Bad : m <= k
    <3>1. Bad \subseteq Nat
      OBVIOUS
    <3> HIDE DEF Bad
    <3> QED  BY <2>1, <3>1, Least
  <2>3. PICK s \in SUBSET (1 .. n) : Cardinality(s) = m /\ ~Right(s)
    BY <2>2
  <2>4. CASE s = {}
    <3>1. f[s] = 0 /\ g[s] = 0
      BY <1>1, <1>2, <2>4 DEF Adds
    <3> QED  BY <2>3, <3>1
  <2>5. CASE s # {}
    <3> DEFINE x == Max(s)
               t == s \ {x}
    <3>1. x \in s /\ t \in SUBSET (1 .. n) /\ Cardinality(t) = m - 1 /\ m - 1 \in Nat
      <4>1. /\ x \in s /\ t \in SUBSET (1 .. n) /\ Cardinality(s) \in Nat \ {0}
            /\ Cardinality(t) = Cardinality(s) - 1
        BY <2>5, Rest
      <4> HIDE DEF x, t
      <4> QED  BY <2>3, <4>1
    <3>2. Right(t)
      <4>1. m - 1 \notin Bad
        <5>1. m \in Nat /\ m - 1 \in Nat /\ \A k \in Bad : m <= k
          BY <2>2, <3>1
        <5> HIDE DEF Bad
        <5> QED  BY <5>1
      <4> HIDE DEF t, Right
      <4> QED  BY <3>1, <4>1
    <3>3. f[s] = f[t] + u[x] /\ g[s] = g[t] + v[x]
      BY <1>1, <1>2, <2>5 DEF Adds
    <3>4. u[x] \in Nat /\ v[x] = c * u[x]
      BY <3>1
    <3> DEFINE ft == f[t]
               ux == u[x]
    <3>5. f[s] = ft + ux /\ g[s] = c * ft + c * ux /\ ft \in Nat /\ ux \in Nat
      BY <3>2, <3>3, <3>4
    <3> HIDE DEF ft, ux
    <3>6. c * ft + c * ux = c * (ft + ux) /\ ft + ux \in Nat
      BY <3>5, SMT
    <3>7. Right(s)
      BY <3>5, <3>6
    <3> QED  BY <2>3, <3>7
  <2> QED  BY <2>4, <2>5
<1>5. Cardinality(1 .. n) \in Nat /\ 1 .. n \in SUBSET (1 .. n)
  BY Places, FS_CardinalityType
<1>6. Right(1 .. n)
  <2> HIDE DEF Right
  <2> QED  BY <1>4, <1>5
<1> QED  BY <1>1, <1>2, <1>6

\* The devices of swap, as the kernel and as swap.c count them.
LEMMA DevicesAddUp ==
    ASSUME NEW w, w.devices \in Seq([size : Nat, used : Nat])
    PROVE  LET e == swapinfo(w).swapent
           IN  /\ Len(e) = Len(w.devices) /\ SubSeq(e, 1, Len(e)) = e
               /\ SumOf(e, LAMBDA d : d.nblks \div 2) = PageKb * size(w)
               /\ SumOf(e, LAMBDA d : d.inuse \div 2) = PageKb * used(w)
<1> DEFINE ds == w.devices
           n == Len(ds)
           e == [k \in 1 .. n |-> [nblks |-> 2 * PageKb * ds[k].size, inuse |-> 2 * PageKb * ds[k].used]]
           sizes == [k \in 1 .. n |-> ds[k].size]
           useds == [k \in 1 .. n |-> ds[k].used]
           blocks == [k \in 1 .. n |-> e[k].nblks \div 2]
           inuses == [k \in 1 .. n |-> e[k].inuse \div 2]
<1>1. n \in Nat /\ DOMAIN ds = 1 .. n /\ \A k \in 1 .. n : ds[k].size \in Nat /\ ds[k].used \in Nat
  <2>1. ds \in Seq([size : Nat, used : Nat])
    OBVIOUS
  <2> HIDE DEF ds
  <2>2. n \in Nat /\ DOMAIN ds = 1 .. n /\ \A k \in 1 .. n : ds[k] \in [size : Nat, used : Nat]
    <3> DEFINE R == [size : Nat, used : Nat]
    <3>1. ds \in Seq(R)
      BY <2>1
    <3> HIDE DEF R
    <3>2. n \in Nat /\ DOMAIN ds = 1 .. n /\ \A k \in 1 .. n : ds[k] \in R
      BY <3>1
    <3> QED  BY <3>2 DEF R
  <2> HIDE DEF n
  <2> QED  BY <2>2
<1>2. swapinfo(w).swapent = e
  BY <1>1 DEF swapinfo
<1>3. Len(e) = n /\ SubSeq(e, 1, n) = e
  OBVIOUS
<1>4. PageKb \in Nat /\ \A k \in Nat : (2 * PageKb * k) \div 2 = PageKb * k
  <2>1. PageKb \in Nat
    BY WidthAssumption
  <2>2. ASSUME NEW k \in Nat PROVE (2 * PageKb * k) \div 2 = PageKb * k
    <3> DEFINE p == PageKb * k
    <3>1. p \in Nat /\ 2 * PageKb * k = 2 * p
      BY <2>1, SMT
    <3> HIDE DEF p
    <3>2. (2 * p) \div 2 = p
      BY <3>1
    <3> QED  BY <3>1, <3>2 DEF p
  <2> QED  BY <2>1, <2>2
<1>5. \A k \in 1 .. n : /\ sizes[k] \in Nat /\ useds[k] \in Nat
                        /\ blocks[k] = PageKb * sizes[k] /\ inuses[k] = PageKb * useds[k]
  <2> SUFFICES ASSUME NEW k \in 1 .. n
               PROVE  /\ sizes[k] \in Nat /\ useds[k] \in Nat
                      /\ blocks[k] = PageKb * sizes[k] /\ inuses[k] = PageKb * useds[k]
    OBVIOUS
  <2>1. blocks[k] = (2 * PageKb * ds[k].size) \div 2 /\ inuses[k] = (2 * PageKb * ds[k].used) \div 2
    OBVIOUS
  <2>2. sizes[k] = ds[k].size /\ useds[k] = ds[k].used
    OBVIOUS
  <2> HIDE DEF blocks, inuses, sizes, useds, n, ds
  <2> QED  BY <1>1, <1>4, <2>1, <2>2
<1>6. /\ size(w) = Total(sizes)
      /\ used(w) = Total(useds)
  BY <1>1 DEF size, used, SumOf, Total
<1>7. /\ SumOf(e, LAMBDA d : d.nblks \div 2) = Total(blocks)
      /\ SumOf(e, LAMBDA d : d.inuse \div 2) = Total(inuses)
  BY DEF SumOf, Total
<1>8. DOMAIN sizes = 1 .. n /\ DOMAIN useds = 1 .. n /\ DOMAIN blocks = 1 .. n /\ DOMAIN inuses = 1 .. n
  OBVIOUS
<1> HIDE DEF sizes, useds, blocks, inuses, e, n, ds
<1>9. \A k \in 1 .. n : sizes[k] \in Nat /\ blocks[k] = PageKb * sizes[k]
  BY <1>5
<1>10. \A k \in 1 .. n : useds[k] \in Nat /\ inuses[k] = PageKb * useds[k]
  BY <1>5
<1>13. n \in Nat /\ PageKb \in Nat
  BY <1>1, <1>4
<1>14. Multiples(PageKb, n, sizes, blocks) /\ Multiples(PageKb, n, useds, inuses)
  BY <1>8, <1>9, <1>10 DEF Multiples
<1>15. Total(blocks) = PageKb * Total(sizes)
  BY <1>13, <1>14, FoldScales
<1>16. Total(inuses) = PageKb * Total(useds)
  BY <1>13, <1>14, FoldScales
<1>11. SumOf(e, LAMBDA d : d.nblks \div 2) = PageKb * size(w)
  BY <1>6, <1>7, <1>15, <1>16
<1>12. SumOf(e, LAMBDA d : d.inuse \div 2) = PageKb * used(w)
  BY <1>6, <1>7, <1>15, <1>16
<1> QED  BY <1>2, <1>3, <1>11, <1>12 DEF n, ds

\* Swap on OpenBSD, of any number of devices: swap.c:66-182.
LEMMA DevicesRight ==
    ASSUME os = "openbsd", func \in SwapFunctions, NEW w \in Worlds(func), Tells(w), ~Gap(w)
    PROVE  Results \subseteq Truth(w)
<1> DEFINE n == Len(w.devices)
           A == size(w)
           U == used(w)
           e == swapinfo(w).swapent
           AK == PageKb * A
           UK == PageKb * U
<1>1. A \in Nat /\ U \in 0 .. A /\ A * Page < W /\ w.devices \in Seq([size : Nat, used : Nat])
  BY WorldsAssumption
<1>2. /\ Answers(w) = swapinfo(w) /\ Results = swap_openbsd(func, got) /\ Truth(w) = {swap_truth(os, func, w)}
      /\ ~swap_gap(os, func, w) /\ Reads = getstats(got)
  BY Families, ReadsIs DEF swap, swap_reads
<1>3. n \in Nat /\ (n = 0 <=> w.devices = <<>>)
  <2> DEFINE R == [size : Nat, used : Nat]
  <2>1. w.devices \in Seq(R)
    BY <1>1
  <2> HIDE DEF R
  <2> QED  BY <2>1
<1>4. /\ Len(e) = n /\ SubSeq(e, 1, n) = e
      /\ SumOf(e, LAMBDA d : d.nblks \div 2) = AK /\ SumOf(e, LAMBDA d : d.inuse \div 2) = UK
  BY <1>1, DevicesAddUp
<1>5. swapinfo(w).nswap = n
  BY DEF swapinfo
<1>6. got.nswap = n
  <2>1. Len(Reads) \in Nat \ {0} /\ Reads[1] = {"nswap"}
    BY <1>2 DEF getstats
  <2>2. got.nswap = Answers(w).nswap
    BY <2>1 DEF Tells
  <2> QED  BY <1>2, <1>5, <2>2
<1> HIDE DEF n, A, U, e
<1>7. CASE n = 0
  <2>1. got.nswap < 1 /\ ~(got.nswap >= 1)
    BY <1>6, <1>7
  <2>2. swap_openbsd(func, got) = {NULL}
    BY <2>1, Zenon DEF swap_openbsd
  <2>3. swap_truth(os, func, w) = NULL
    BY <1>3, <1>7 DEF swap_truth
  <2> QED  BY <1>2, <2>2, <2>3
<1>8. CASE n # 0
  <2>1. n >= 1 /\ ~(n < 1) /\ ~(n < n)
    BY <1>3, <1>8
  <2>2. got.swapent = e
    <3>1. Reads = <<{"nswap"}, {"swapent"}>>
      BY <1>2, <1>6, <2>1 DEF getstats
    <3>2. got.swapent = Answers(w).swapent
      BY <3>1 DEF Tells
    <3> QED  BY <1>2, <3>2 DEF e
  <2> DEFINE bytes(m) == {Unsigned(x, W) : x \in Overflow(m * Kilo, W32)}
             shown == CASE func = "swap_free"  -> bytes(AK - UK)
                        [] func = "swap_total" -> bytes(AK)
                        [] func = "swap_used"  -> bytes(UK)
                        [] func = "swap_perc"  -> IF AK = 0 THEN {NULL}
                                                  ELSE {Quotient(x, AK) : x \in Overflow(100 * UK, W32)}
  <2>3. swap_openbsd(func, got) = shown
    <3>1. (IF Len(got.swapent) < got.nswap THEN Len(got.swapent) ELSE got.nswap) = n
      BY <1>4, <1>6, <2>1, <2>2
    <3>2. SubSeq(got.swapent, 1, n) = e
      BY <1>4, <2>2
    <3> HIDE DEF AK, UK
    <3> QED  BY <1>4, <1>6, <2>1, <3>1, <3>2 DEF swap_openbsd
  <2>4. PageKb \in Nat \ {0} /\ Kilo \in Nat \ {0} /\ W \in Nat /\ W32 \in Nat /\ W32 \div 2 \in Int
    BY WidthAssumption, SmallShare
  <2>5. w.devices # <<>>
    BY <1>3, <1>8
  <2>6. ASSUME func # "swap_perc", NEW m \in 0 .. A
        PROVE  bytes(PageKb * m) = {m * Page}
    <3> DEFINE mk == PageKb * m * Kilo
               mp == m * Page
               ap == A * Page
    <3>1. mk = mp
      <4>1. PageKb * m * Kilo = m * (PageKb * Kilo)
        BY <1>1, <2>4, SMT
      <4> QED  BY <4>1 DEF Page
    <3>2. mp \in Nat /\ ap \in Nat /\ mp <= ap
      <4>1. m \in Nat /\ Page \in Nat
        BY <1>1, <2>4, SMT DEF Page
      <4>2. Page * m <= Page * A /\ Page * m \in Int /\ Page * A \in Int
        BY <1>1, <4>1, Product
      <4>3. Page * m = m * Page /\ Page * A = A * Page
        BY <1>1, <4>1, SMT
      <4>4. m * Page \in Nat /\ A * Page \in Nat
        BY <1>1, <4>1, Bytes
      <4> QED  BY <4>2, <4>3, <4>4
    <3>3. ap < W /\ ~(ap >= W32 \div 2)
      BY <1>1, <1>2, <2>6 DEF swap_gap, A
    <3> HIDE DEF mk, mp, ap
    <3>4. mp < W32 \div 2 /\ mp < W
      BY <2>4, <3>2, <3>3
    <3>5. Overflow(mp, W32) = {mp} /\ Unsigned(mp, W) = mp
      BY <2>4, <3>2, <3>4, Kept
    <3>6. {Unsigned(x, W) : x \in Overflow(mk, W32)} = {mp}
      BY <3>1, <3>5, Zenon
    <3> QED  BY <3>6 DEF mk, mp
  <2>7. AK - UK = PageKb * (A - U) /\ A - U \in 0 .. A /\ A \in 0 .. A /\ U \in 0 .. A
    BY <1>1, <2>4, SMT
  <2>8. U - 0 = U
    BY <1>1
  <2>9. swap_truth(os, func, w) = amount(func, A, A - U, U, NULL)
    BY <2>5, <2>8 DEF swap_truth, A, U
  <2>10. CASE func = "swap_free"
    <3>1. shown = bytes(PageKb * (A - U))
      BY <2>7, <2>10
    <3>2. bytes(PageKb * (A - U)) = {(A - U) * Page}
      BY <2>6, <2>7, <2>10
    <3> QED  BY <1>2, <2>3, <2>9, <2>10, <3>1, <3>2 DEF amount
  <2>11. CASE func = "swap_total"
    <3>1. shown = bytes(PageKb * A)
      BY <2>11
    <3>2. bytes(PageKb * A) = {A * Page}
      BY <2>6, <2>7, <2>11
    <3> QED  BY <1>2, <2>3, <2>9, <2>11, <3>1, <3>2 DEF amount
  <2>12. CASE func = "swap_used"
    <3>1. shown = bytes(PageKb * U)
      BY <2>12
    <3>2. bytes(PageKb * U) = {U * Page}
      BY <2>6, <2>7, <2>12
    <3> QED  BY <1>2, <2>3, <2>9, <2>12, <3>1, <3>2 DEF amount
  <2>13. CASE func = "swap_perc" /\ A = 0
    <3>1. AK = 0
      BY <2>4, <2>13
    <3>2. shown = {NULL}
      BY <2>13, <3>1
    <3>3. swap_truth(os, func, w) = NULL
      BY <2>9, <2>13 DEF amount
    <3> QED  BY <1>2, <2>3, <3>2, <3>3
  <2>14. CASE func = "swap_perc" /\ A # 0
    <3>1. A \in Nat \ {0} /\ U \in Nat
      BY <1>1, <2>14
    <3>2. AK \in Nat \ {0} /\ AK = A * PageKb
      BY <2>4, <3>1, SMT
    <3>3. 100 * UK = (100 * U) * PageKb /\ 100 * UK \in Nat
      BY <2>4, <3>1, SMT
    <3>4. 100 * UK < W32 \div 2
      <4>1. ~(A * (100 * PageKb) >= W32 \div 2)
        BY <1>2, <2>14 DEF swap_gap, A
      <4>2. PageKb * U <= PageKb * A
        BY <1>1, <2>4, <3>1, Product
      <4>3. A * (100 * PageKb) = 100 * (PageKb * A)
        BY <2>4, <3>1, SMT
      <4> DEFINE pu == PageKb * U
                 pa == PageKb * A
      <4>4. pu \in Int /\ pa \in Int
        BY <2>4, <3>1, SMT
      <4>5. pu <= pa /\ ~(100 * pa >= W32 \div 2)
        BY <4>1, <4>2, <4>3
      <4> HIDE DEF pu, pa
      <4>6. 100 * pu < W32 \div 2
        BY <2>4, <4>4, <4>5
      <4> QED  BY <4>6 DEF pu
    <3> HIDE DEF AK, UK
    <3>5. Overflow(100 * UK, W32) = {100 * UK}
      BY <2>4, <3>3, <3>4, Kept
    <3>6. Quotient(100 * UK, AK) = (100 * UK) \div AK
      BY <3>2, <3>3, Whole
    <3>7. ((100 * U) * PageKb) \div (A * PageKb) = (100 * U) \div A
      BY <2>4, <3>1, Cancels
    <3>8. Quotient(100 * UK, AK) = (100 * U) \div A
      BY <3>2, <3>3, <3>6, <3>7
    <3>9. shown = {Quotient(x, AK) : x \in Overflow(100 * UK, W32)}
      BY <2>14, <3>2
    <3>10. {Quotient(x, AK) : x \in Overflow(100 * UK, W32)} = {(100 * U) \div A}
      <4>1. \A k : {Quotient(x, AK) : x \in {k}} = {Quotient(k, AK)}
        BY Zenon
      <4>2. {Quotient(x, AK) : x \in {100 * UK}} = {Quotient(100 * UK, AK)}
        BY <4>1, Zenon
      <4> QED  BY <3>5, <3>8, <4>2
    <3>11. swap_truth(os, func, w) = (100 * U) \div A
      BY <2>9, <2>14 DEF amount
    <3> QED  BY <1>2, <2>3, <3>9, <3>10, <3>11
  <2> QED  BY <2>10, <2>11, <2>12, <2>13, <2>14 DEF SwapFunctions
<1> QED  BY <1>7, <1>8

\* Addresses: ip.c.  What up shows of an interface with an address is a gap.
LEMMA IpRight ==
    ASSUME func \in IpFunctions, NEW w \in Worlds(func), Tells(w), ~Gap(w)
    PROVE  Results \subseteq Truth(w)
<1> DEFINE list == w.list
           its(family) == {k \in DOMAIN list : list[k].name = Interface /\ list[k].family = family}
           addrs(ks) == IF ks = {} THEN {NULL} ELSE {list[k].addr : k \in ks}
<1>1. \A k \in DOMAIN list : k \in Nat
  BY WorldsAssumption
<1>3. /\ Answers(w) = ifaddrs(w) /\ Results = ip_or_up(func, got, Interface)
      /\ Truth(w) = ip_truth(func, w, Interface) /\ Reads = <<{"list"}>>
      /\ ~ip_gap(func, w, Interface)
  BY Families, ReadsIs
<1>4. got.list = list
  <2>1. got.list = Answers(w).list
    BY <1>3 DEF Tells
  <2> QED  BY <1>3, <2>1 DEF ifaddrs
<1> HIDE DEF list
<1>5. ASSUME NEW ks, ks \subseteq DOMAIN list, ks # {}
      PROVE  (CHOOSE k \in ks : \A j \in ks : k <= j) \in ks
  <2>1. ks \subseteq Nat
    BY <1>1, <1>5
  <2>2. \E k \in ks : \A j \in ks : k <= j
    BY <1>5, <2>1, Least
  <2> QED  BY <2>2, Zenon
<1>6. ASSUME NEW family PROVE ip(list, Interface, family) \in addrs(its(family))
  <2> DEFINE ks == its(family)
             k0 == CHOOSE k \in ks : \A j \in ks : k <= j
  <2>1. ip(list, Interface, family) = IF ks = {} THEN NULL ELSE list[k0].addr
    BY Zenon DEF ip
  <2>2. ks \subseteq DOMAIN list
    OBVIOUS
  <2> HIDE DEF ks
  <2>3. CASE ks = {}
    BY <2>1, <2>3, Zenon DEF ks
  <2>4. CASE ks # {}
    <3>1. k0 \in ks
      BY <1>5, <2>2, <2>4
    <3> HIDE DEF k0
    <3>2. ip(list, Interface, family) = list[k0].addr
      BY <2>1, <2>4, Zenon
    <3>3. list[k0].addr \in {list[k].addr : k \in ks}
      BY <3>1, Zenon
    <3>4. addrs(ks) = {list[k].addr : k \in ks}
      BY <2>4, Zenon
    <3> QED  BY <3>2, <3>3, <3>4, Zenon DEF ks
  <2> QED  BY <2>3, <2>4
<1>8. CASE func = "ipv4"
  <2>1. Results = {ip(list, Interface, "inet")}
    BY <1>3, <1>4, <1>8 DEF ip_or_up
  <2>2. Truth(w) = addrs(its("inet"))
    BY <1>3, <1>8, Zenon DEF ip_truth, list
  <2> HIDE DEF its, addrs
  <2> QED  BY <1>6, <2>1, <2>2
<1>9. CASE func = "ipv6"
  <2>1. Results = {ip(list, Interface, "inet6")}
    BY <1>3, <1>4, <1>9 DEF ip_or_up
  <2>2. func # "ipv4"
    BY <1>9
  <2>3. ip_truth(func, w, Interface) = addrs(its("inet6"))
    BY <1>9 DEF ip_truth, list
  <2> HIDE DEF its, addrs
  <2> QED  BY <1>3, <1>6, <2>1, <2>3
<1>10. CASE func = "up"
  <2>1. ~listed(list, Interface)
    BY <1>3, <1>10 DEF ip_gap, list
  <2>2. Results = {NULL}
    BY <1>3, <1>4, <1>10, <2>1 DEF ip_or_up, up
  <2>3. Truth(w) = {NULL}
    BY <1>3, <1>10 DEF ip_truth
  <2> QED  BY <2>2, <2>3
<1> QED  BY <1>8, <1>9, <1>10 DEF IpFunctions

-----------------------------------------------------------------------------
(* What is returned was right at some moment                                 *)

\* What a mixer is like, of which vol_perc asks first, does not change.
MixerSettled ==
    func \in Volumes =>
        \A v \in Moments : v.vol = world.vol /\ v.lowest = world.lowest /\ v.highest = world.highest

\* The fields of a mixer.
LEMMA MixerFields ==
    ASSUME NEW w \in [vol : BOOLEAN, lowest : Int, highest : Int, left : Int, right : Int]
    PROVE  /\ w.vol \in BOOLEAN /\ w.lowest \in Int /\ w.highest \in Int
           /\ {"vol", "lowest", "highest"} \subseteq DOMAIN w
  OBVIOUS

\* Whatever list of moments there is to come, it is of worlds seen so far.
LEMMA Later ==
    ASSUME NEW set, NEW list \in Seq(set), NEW w, NEW v \in {Append(list, w)[k] : k \in DOMAIN Append(list, w)}
    PROVE  v \in {list[k] : k \in DOMAIN list} \/ v = w
  OBVIOUS

\* Only what may move moves.
LEMMA NextMixerSettled == Types /\ MixerSettled /\ [Next]_vars => MixerSettled'
<1> SUFFICES ASSUME Types, MixerSettled, [Next]_vars, func' \in Volumes, NEW v \in Moments'
             PROVE  v.vol = world'.vol /\ v.lowest = world'.lowest /\ v.highest = world'.highest
  BY DEF MixerSettled
<1>1. func' = func /\ func \in Volumes
  BY DEF Next, vars, Begin, OpenFails, Read, ReadFails, ReadFailsUnheard, Return, Move
<1>2. CASE Begin \/ OpenFails
  <2>1. world' = world /\ (moments' = <<world>> \/ moments' = <<>>)
    BY <1>2 DEF Begin, OpenFails
  <2>2. v = world
    BY <2>1 DEF Moments
  <2> QED  BY <2>1, <2>2
<1>3. CASE Read \/ ReadFails \/ ReadFailsUnheard \/ Return \/ UNCHANGED vars
  <2>1. world' = world /\ moments' = moments
    BY <1>3 DEF Read, ReadFails, ReadFailsUnheard, Return, vars
  <2>2. v \in Moments
    BY <2>1 DEF Moments
  <2> QED  BY <1>1, <2>1, <2>2 DEF MixerSettled
<1>4. CASE Move
  <2>1. func \notin RamFunctions
    BY <1>1, Zenon DEF Volumes, RamFunctions
  <2>2. Differs(world, world') \cap Settled = {} /\ moments' = Append(moments, world')
    BY <1>4, <2>1, Zenon DEF Move
  <2>3. world \in [vol : BOOLEAN, lowest : Int, highest : Int, left : Int, right : Int]
    BY <1>1, WorldsAssumption, Zenon DEF Types
  <2>4. world'.vol = world.vol /\ world'.lowest = world.lowest /\ world'.highest = world.highest
    <3>1. \A name \in {"vol", "lowest", "highest"} : world[name] = world'[name]
      BY <2>2, <2>3, MixerFields, Zenon DEF Differs, Settled
    <3> QED  BY <3>1
  <2>5. v \in Moments \/ v = world'
    <3>1. moments \in Seq(Worlds(func))
      BY DEF Types
    <3>2. v \in {moments'[k] : k \in DOMAIN moments'}
      BY DEF Moments
    <3>3. v \in {Append(moments, world')[k] : k \in DOMAIN Append(moments, world')}
      BY <2>2, <3>2
    <3> HIDE DEF Moments
    <3>4. v \in {moments[k] : k \in DOMAIN moments} \/ v = world'
      BY <3>1, <3>3, Later
    <3> QED  BY <3>4 DEF Moments
  <2> QED  BY <1>1, <2>4, <2>5 DEF MixerSettled
<1> QED  BY <1>2, <1>3, <1>4 DEF Next

\* A directory: num_files.c.
LEMMA NumFilesRight ==
    ASSUME func = "num_files", NEW w \in Worlds(func), Tells(w)
    PROVE  Results \subseteq Truth(w)
<1> DEFINE Held == {place \in {"third", "fourth", "fifth"} : w[place] # NULL}
           counts(d_name) == IF d_name \in {NULL, ".", ".."} THEN 0 ELSE 1
<1>1. /\ DOMAIN w = {"first", "second", "third", "fourth", "fifth"} /\ w.first = "." /\ w.second = ".."
      /\ \A place \in {"third", "fourth", "fifth"} : w[place] \notin {".", ".."}
      /\ NULL \notin {".", ".."}
  BY WorldsAssumption
<1>2. Answers(w) = w /\ Results = num_files(got) /\ Truth(w) = num_files_truth(w) /\ Reads = num_files_reads
  BY Families, ReadsIs DEF readdir
<1>3. /\ got.first = w.first /\ got.second = w.second /\ got.third = w.third /\ got.fourth = w.fourth
      /\ got.fifth = w.fifth
  <2>1. Reads = <<{"first"}, {"second"}, {"third"}, {"fourth"}, {"fifth"}>>
    BY <1>2 DEF num_files_reads
  <2> QED  BY <1>2, <2>1 DEF Tells
<1>4. num_files_truth(w) = {Cardinality(Held)}
  <2>1. {place \in DOMAIN w : w[place] # NULL} \ {"first", "second"} = Held
    BY <1>1
  <2> HIDE DEF Held
  <2> QED  BY <2>1 DEF num_files_truth
<1>5. num_files(got) = {counts(w.third) + counts(w.fourth) + counts(w.fifth)}
  <2>1. counts(w.first) = 0 /\ counts(w.second) = 0
    BY <1>1
  <2>2. \A d_name : counts(d_name) \in 0 .. 1
    OBVIOUS
  <2> DEFINE a == counts(w.third)
             b == counts(w.fourth)
             c == counts(w.fifth)
  <2>3. num_files(got) = {counts(w.first) + counts(w.second) + a + b + c}
    BY <1>3 DEF num_files
  <2>4. a \in 0 .. 1 /\ b \in 0 .. 1 /\ c \in 0 .. 1
    BY <2>2
  <2> HIDE DEF a, b, c, counts
  <2>5. counts(w.first) + counts(w.second) + a + b + c = a + b + c
    BY <2>1, <2>4
  <2> QED  BY <2>3, <2>5 DEF a, b, c
<1>6. \A place \in {"third", "fourth", "fifth"} : counts(w[place]) = IF place \in Held THEN 1 ELSE 0
  BY <1>1
<1> HIDE DEF counts, Held
<1>7. Held \subseteq {"third", "fourth", "fifth"}
  BY DEF Held
<1>8. \A S : S \subseteq {"third", "fourth", "fifth"} => IsFiniteSet(S)
  <2>1. IsFiniteSet({"third", "fourth", "fifth"})
    <3>1. IsFiniteSet({}) /\ {"third", "fourth", "fifth"} = (({} \cup {"third"}) \cup {"fourth"}) \cup {"fifth"}
      BY FS_EmptySet
    <3>2. IsFiniteSet({} \cup {"third"})
      BY <3>1, FS_AddElement
    <3>3. IsFiniteSet(({} \cup {"third"}) \cup {"fourth"})
      BY <3>2, FS_AddElement
    <3>4. IsFiniteSet((({} \cup {"third"}) \cup {"fourth"}) \cup {"fifth"})
      BY <3>3, FS_AddElement
    <3> QED  BY <3>1, <3>4
  <2> QED  BY <2>1, FS_Subset
<1>9. ASSUME NEW S, NEW x, S \subseteq {"third", "fourth", "fifth"}, x \in {"third", "fourth", "fifth"}, x \notin S
      PROVE  Cardinality(S \cup {x}) = Cardinality(S) + 1
  BY <1>8, <1>9, FS_AddElement
<1> DEFINE H3 == Held \cap {"third"}
           H4 == Held \cap {"third", "fourth"}
<1>10. Cardinality(H3) = IF "third" \in Held THEN 1 ELSE 0
  <2>1. H3 = IF "third" \in Held THEN {} \cup {"third"} ELSE {}
    OBVIOUS
  <2>2. Cardinality({}) = 0 /\ Cardinality({} \cup {"third"}) = 0 + 1
    BY <1>9, FS_EmptySet
  <2> QED  BY <2>1, <2>2
<1>11. Cardinality(H4) = Cardinality(H3) + (IF "fourth" \in Held THEN 1 ELSE 0)
  <2>1. H4 = IF "fourth" \in Held THEN H3 \cup {"fourth"} ELSE H3
    OBVIOUS
  <2>2. Cardinality(H3 \cup {"fourth"}) = Cardinality(H3) + 1
    BY <1>9
  <2> HIDE DEF H3, H4
  <2> QED  BY <1>10, <2>1, <2>2
<1>12. Cardinality(Held) = Cardinality(H4) + (IF "fifth" \in Held THEN 1 ELSE 0)
  <2>1. Held = IF "fifth" \in Held THEN H4 \cup {"fifth"} ELSE H4
    BY <1>7
  <2>2. Cardinality(H4 \cup {"fifth"}) = Cardinality(H4) + 1
    BY <1>9
  <2> HIDE DEF H3, H4
  <2> QED  BY <1>10, <1>11, <2>1, <2>2
<1> HIDE DEF H3, H4
<1> QED  BY <1>2, <1>4, <1>5, <1>6, <1>10, <1>11, <1>12

\* The functions that put together a sequence of their own: keymap.c and
\* keyboard_indicators.c.
Folding == {"keymap", "keyboard_indicators"}

\* What the others are about.
LEMMA Unfolding ==
    ASSUME os \in Systems, func \in Functions(os), func \notin Folding
    PROVE  \/ func \in RamFunctions
           \/ func \in SwapFunctions
           \/ func \in BatteryFunctions
           \/ func \in DiskFunctions
           \/ func \in IpFunctions
           \/ func \in WifiFunctions /\ os # "linux"
           \/ func = "backlight_perc" /\ os # "freebsd"
           \/ func \in {"temp", "num_files"}
           \/ func \in Volumes
<1>1. func \notin {"keymap", "keyboard_indicators"}
  BY DEF Folding
<1>2. func \in {"temp", "keymap", "keyboard_indicators", "num_files"} => func \in {"temp", "num_files"}
  BY <1>1
<1> QED  BY <1>2, FunctionKinds

\* All others ask once, but for those that are known to ask several times and
\* the mixers.
LEMMA AsksOnce ==
    ASSUME os \in Systems, func \in Functions(os), func \notin Composed, func \notin Folding,
           func \notin Volumes
    PROVE  Len(Reads) = 1
<1>1. CASE func \in RamFunctions
  <2>1. Reads = ram_reads(os, func)
    BY <1>1, ReadsIs
  <2>2. /\ os = "linux" => func \in {"ram_free", "ram_total"}
        /\ os = "freebsd" => func # "ram_perc"
    BY <1>1 DEF Composed, RamFunctions
  <2> QED  BY <1>1, <2>1, <2>2 DEF ram_reads, RamFunctions, Systems
<1>2. CASE func \in SwapFunctions
  <2>1. Reads = swap_reads(os, func, got) /\ os # "openbsd"
    BY <1>2, ReadsIs DEF Composed
  <2> QED  BY <1>2, <2>1 DEF swap_reads, get_swap_info, SwapFunctions, Systems
<1>3. CASE func \in BatteryFunctions
  <2>1. Reads = battery_reads(os, func, got)
    BY <1>3, ReadsIs
  <2>2. os = "linux" => func # "battery_remaining"
    BY DEF Composed
  <2> QED  BY <1>3, <2>1, <2>2 DEF battery_reads, BatteryFunctions, Systems
<1>4. CASE func = "backlight_perc"
  <2>1. Reads = backlight_reads(os)
    BY <1>4, ReadsIs
  <2>2. os # "linux"
    BY <1>4 DEF Composed
  <2> QED  BY <2>1, <2>2 DEF backlight_reads
<1>5. CASE func \in WifiFunctions /\ os # "linux"
  <2>1. Reads = wifi_reads(os, func, got)
    BY <1>5, ReadsIs
  <2>2. os = "freebsd" /\ func = "wifi_essid"
    <3>1. os # "openbsd"
      BY <1>5 DEF Composed
    <3>2. os = "freebsd"
      BY <1>5, <3>1 DEF Systems
    <3> QED  BY <1>5, <3>2 DEF Composed, WifiFunctions
  <2> QED  BY <2>1, <2>2 DEF wifi_reads
<1>6. CASE func = "temp"
  <2>1. Reads = temp_reads(os)
    BY <1>6, ReadsIs
  <2> QED  BY <2>1 DEF temp_reads
<1>7. CASE func \in DiskFunctions \/ func \in IpFunctions
  <2>1. Reads = <<{"blocks", "bfree", "bavail"}>> \/ Reads = <<{"list"}>>
    BY <1>7, ReadsIs, Zenon
  <2> QED  BY <2>1
<1>8. \/ func \in RamFunctions
      \/ func \in SwapFunctions
      \/ func \in BatteryFunctions
      \/ func \in DiskFunctions
      \/ func \in IpFunctions
      \/ func \in WifiFunctions /\ os # "linux"
      \/ func = "backlight_perc" /\ os # "freebsd"
      \/ func = "temp"
      \/ func \in Volumes
  <2>1. func # "num_files"
    <3>1. os = "linux" => func # "num_files"
      BY DEF Composed
    <3>2. os # "linux" => func # "num_files"
      BY DEF Functions, Everywhere, RamFunctions, SwapFunctions, BatteryFunctions, WifiFunctions
    <3> QED  BY <3>1, <3>2
  <2> QED  BY <2>1, Unfolding
<1> QED  BY <1>1, <1>2, <1>3, <1>4, <1>5, <1>6, <1>7, <1>8

\* What asks once is answered at one moment, and so is a mixer.
LEMMA IsSteady ==
    ASSUME Types, Answered, MixerSettled, pc = "answered", func \notin Folding, func \notin Composed
    PROVE  Steady
<1> DEFINE Moving(k) == \E name \in Reads[k], v, w \in Moments : Answers(v)[name] # Answers(w)[name]
           C == {k \in 1 .. step : Moving(k)}
<1>1. os \in Systems /\ func \in Functions(os) /\ step \in Nat /\ step = Len(Reads)
  BY DEF Types, TypeOK, Answered
<1>2. \A k \in 1 .. step : Moving(k) => k = step
  <2>1. CASE func \notin Volumes
    <3>1. step = 1
      BY <1>1, <2>1, AsksOnce
    <3> HIDE DEF Moving
    <3> QED  BY <3>1
  <2>2. CASE func \in Volumes
    <3>1. /\ Len(Reads) \in 1 .. 2
          /\ Len(Reads) = 2 => Reads[1] \in {{"min", "max"}, {"devmask"}}
      <4>1. \/ Reads = <<{"min", "max"}, {"volume"}>>
            \/ Reads = <<{"devmask"}>>
            \/ Reads = <<{"devmask"}, {"v"}>>
        BY <2>2, ReadsIs, Zenon DEF alsa_reads, oss_reads, Volumes
      <4> HIDE DEF Moving, C
      <4> QED  BY <4>1
    <3>2. \A w : Answers(w) = mixer(w)
      BY <2>2, Families, Zenon DEF Volumes
    <3>3. \A w : mixer(w).min = w.lowest /\ mixer(w).max = w.highest /\ mixer(w).devmask = w.vol
      BY DEF mixer
    <3>4. \A v, w \in Moments : \A name \in {"min", "max", "devmask"} : Answers(v)[name] = Answers(w)[name]
      BY <2>2, <3>2, <3>3 DEF MixerSettled
    <3>5. Len(Reads) = 2 => ~Moving(1)
      BY <3>1, <3>4
    <3>6. step \in 1 .. 2 /\ (step = 2 => ~Moving(1))
      BY <1>1, <3>1, <3>5, Zenon
    <3> HIDE DEF Moving
    <3>7. ASSUME NEW k \in 1 .. step, k # step PROVE ~Moving(k)
      <4>1. k = 1 /\ step = 2
        BY <3>6, <3>7
      <4> QED  BY <3>6, <4>1
    <3> QED  BY <3>7
  <2> QED  BY <2>1, <2>2
<1> HIDE DEF Moving
<1>3. C \subseteq {step}
  BY <1>2
<1> HIDE DEF C
<1>4. Cardinality(C) <= 1
  <2>1. IsFiniteSet({step}) /\ Cardinality({step}) = 1
    BY FS_Singleton
  <2>2. IsFiniteSet(C) /\ Cardinality(C) <= Cardinality({step})
    BY <1>3, <2>1, FS_Subset
  <2>3. Cardinality(C) \in Nat
    BY <2>2, FS_CardinalityType
  <2> QED  BY <2>1, <2>2, <2>3
<1> QED  BY <1>4 DEF Steady, C, Moving

\* What is told of a world outside the gaps is what is to be shown of it.
LEMMA RightIfTold ==
    ASSUME os \in Systems, func \in Functions(os), func \notin Folding,
           NEW w \in Worlds(func), Tells(w), ~Gap(w)
    PROVE  Results \subseteq Truth(w)
<1>1. CASE func \in RamFunctions
  BY <1>1, RamRight
<1>2. CASE func \in SwapFunctions
  <2>1. os \in {"linux", "freebsd"} \/ os = "openbsd"
    BY DEF Systems
  <2> QED  BY <1>2, <2>1, SwapRight, DevicesRight
<1>3. CASE func \in BatteryFunctions
  BY <1>3, BatteryRight
<1>4. CASE func = "backlight_perc" /\ os # "freebsd"
  <2>1. os \in {"linux", "openbsd"}
    BY <1>4 DEF Systems
  <2> QED  BY <1>4, <2>1, BacklightRight
<1>5. CASE func = "temp"
  BY <1>5, TempRight
<1>6. CASE func \in DiskFunctions
  BY <1>6, DiskRight
<1>7. CASE func \in WifiFunctions /\ os # "linux"
  <2>1. os \in {"openbsd", "freebsd"}
    BY <1>7 DEF Systems
  <2> QED  BY <1>7, <2>1, WifiRight
<1>8. CASE func \in IpFunctions
  BY <1>8, IpRight
<1>9. CASE func \in Volumes
  <2>1. w \in [vol : BOOLEAN, lowest : Int, highest : Int, left : Int, right : Int]
    BY <1>9, WorldsAssumption, Zenon
  <2>2. CASE func = "vol_perc (ALSA)"
    <3>1. w.left \in w.lowest .. w.highest
      BY <1>9, <2>2, WorldsAssumption, Zenon
    <3>2. /\ Answers(w) = mixer(w) /\ Results = vol_perc_alsa(got) /\ Truth(w) = alsa_truth(w)
          /\ ~alsa_gap(w) /\ Reads = alsa_reads
      BY <2>2, Families, ReadsIs, Zenon
    <3>3. w.lowest \in Int /\ w.highest \in Int
      BY <2>1, MixerFields, Zenon
    <3>4. vol_perc_alsa(got) \subseteq alsa_truth(w)
      BY <3>1, <3>2, <3>3, AlsaRight, Zenon
    <3> QED  BY <3>2, <3>4, Zenon
  <2>3. CASE func = "vol_perc (OSS)"
    <3>1. w.left \in 0 .. 100 /\ w.right \in 0 .. 100
      BY <1>9, <2>3, WorldsAssumption, Zenon
    <3>2. /\ Answers(w) = mixer(w) /\ Results = vol_perc_oss(got) /\ Truth(w) = oss_truth(w)
          /\ Reads = oss_reads(got)
      BY <2>3, Families, ReadsIs, Zenon
    <3>3. vol_perc_oss(got) \subseteq oss_truth(w)
      BY <3>1, <3>2, OssRight, Zenon
    <3> QED  BY <3>2, <3>3, Zenon
  <2> QED  BY <1>9, <2>2, <2>3, Zenon DEF Volumes
<1>10. \/ func \in RamFunctions
       \/ func \in SwapFunctions
       \/ func \in BatteryFunctions
       \/ func \in DiskFunctions
       \/ func \in IpFunctions
       \/ func \in WifiFunctions /\ os # "linux"
       \/ func = "backlight_perc" /\ os # "freebsd"
       \/ func \in {"temp", "num_files"}
       \/ func \in Volumes
  BY Unfolding
<1>11. CASE func = "num_files"
  BY <1>11, NumFilesRight
<1> QED  BY <1>1, <1>2, <1>3, <1>4, <1>5, <1>6, <1>7, <1>8, <1>9, <1>10, <1>11

\* What a call returns was right at some moment of it, on each of the three
\* systems and whatever the world is, but for numbers that do not fit, memory
\* that is read after it is freed, the oddities listed with each function, and
\* errors the function does not look at; where it is put together of several
\* answers (ram.c:38-43, battery.c:88-99, backlight.c:20-25, wifi.c:270-299),
\* if no more than one of them changes meanwhile.
THEOREM RightAtOneMoment == Spec => [](func \notin Folding => OneMoment)
<1> DEFINE I == Types /\ Answered /\ Heard /\ MixerSettled
<1>1. Init => I
  <2>1. Init => Answered /\ Heard /\ MixerSettled
    BY DEF Init, Answered, Heard, MixerSettled, Moments
  <2> QED  BY <2>1, InitTypes
<1>2. I /\ [Next]_vars => I'
  BY NextTypes, NextAnswered, NextHeard, NextMixerSettled
<1>3. I => (func \notin Folding => OneMoment)
  <2> SUFFICES ASSUME I, func \notin Folding, pc = "answered", ~unheard, func \in Composed => Steady,
                      \A w \in Moments : ~Gap(w)
               PROVE  \E w \in Moments : result \in Truth(w)
    BY DEF OneMoment
  <2>1. Steady /\ unheard = FALSE
    BY IsSteady DEF Types, TypeOK
  <2>2. PICK w \in Moments : \A name \in DOMAIN got : got[name] = Answers(w)[name]
    BY <2>1, OneMomentIsEnough DEF AtOnce
  <2>3. Tells(w)
    <3>1. DOMAIN got = UNION {Reads[k] : k \in 1 .. Len(Reads)}
      BY DEF Types, TypeOK, Answered
    <3> QED  BY <2>2, <3>1 DEF Tells
  <2>4. w \in Worlds(func) /\ os \in Systems /\ func \in Functions(os)
    BY DEF Types, TypeOK, Moments
  <2>5. Results \subseteq Truth(w)
    BY <2>3, <2>4, RightIfTold
  <2> QED  BY <2>5 DEF Answered
<1> QED  BY <1>1, <1>2, <1>3, PTL DEF Spec
===============================================================================
