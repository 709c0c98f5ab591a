-------------------------------- MODULE Power --------------------------------
(* battery.c, backlight.c and temperature.c on Linux, OpenBSD and FreeBSD:   *)
(* what each function asks for, in which order, and what it makes of the     *)
(* answers.                                                                  *)
EXTENDS CInts, Sequences

CONSTANTS
    W, W32,     \* number of values of a uintmax_t and of an int
    Volts,      \* what a battery's energy is to its charge
    NULL, CRASH \* no value, and a division by zero

BatteryFunctions == {"battery_perc", "battery_state", "battery_remaining"}

-----------------------------------------------------------------------------
(* battery.c                                                                 *)

\* The power supply class of Linux.  A battery has some of the files, NULL is
\* what cannot be read; drivers differ in the sign of a current.  The battery
\* of the model is full at a charge of 2.
power_supply(w) ==
    LET file(name, val) == IF name \in w.files THEN val ELSE NULL
        flow == IF w.negative /\ w.status = "Discharging" THEN -w.flow ELSE w.flow
    IN  [capacity    |-> 50 * w.charge,
         status      |-> w.status,
         charge_now  |-> file("charge_now", w.charge),
         energy_now  |-> file("energy_now", w.charge * Volts),
         current_now |-> file("current_now", flow),
         power_now   |-> file("power_now", flow * Volts)]

Minutes(w) == (60 * w.charge) \div w.flow

\* APM of OpenBSD, of which minutes_left is -1 if it is not known, and ACPI of
\* FreeBSD, where bit 0 of the state is discharging, 1 charging, 2 critical.
apm_acpi(w) ==
    [ac_state     |-> CASE w.status = "Discharging" -> "off" [] w.status = "Unknown" -> "unknown"
                        [] OTHER -> "on",
     battery_life |-> 50 * w.charge,
     minutes_left |-> IF w.flow = 0 THEN W32 - 1 ELSE Minutes(w),
     life         |-> 50 * w.charge,
     state        |-> (CASE w.status = "Discharging" -> 1 [] w.status = "Charging" -> 2
                         [] w.status = "Unknown" -> 7 [] OTHER -> 0)
                      + (IF w.charge = 0 /\ w.status \in {"Charging", "Discharging"} THEN 4 ELSE 0),
     time         |-> IF w.status = "Discharging" /\ w.flow # 0 THEN Minutes(w) ELSE -1]

\* OpenBSD's APM_IOC_GETPOWER answers all at once.
battery_reads(os, f, g) ==
    CASE os = "openbsd"                            -> <<{"ac_state", "battery_life", "minutes_left"}>>
      [] os = "freebsd" /\ f = "battery_perc"      -> <<{"life"}>>
      [] os = "freebsd" /\ f = "battery_state"     -> <<{"state"}>>
      [] os = "freebsd" /\ f = "battery_remaining" -> <<{"time"}>>
      [] os = "linux" /\ f = "battery_perc"        -> <<{"capacity"}>>
      [] os = "linux" /\ f = "battery_state"       -> <<{"status"}>>
      [] os = "linux" /\ f = "battery_remaining"   ->
            IF "charge_now" \in DOMAIN g /\ g.status # "Discharging"
            THEN <<{"status"}, {"charge_now", "energy_now"}>>
            ELSE <<{"status"}, {"charge_now", "energy_now"}, {"current_now", "power_now"}>>

\* The first of two files that is there.
pick(f1, f2) == IF f1 # NULL THEN f1 ELSE f2

\* A text of so many minutes, laid out as hours and minutes; <<>> is the empty one.
hm(minutes) == <<minutes>>

\* charge_now is read, and missed, whatever the state.  "%ju" makes a huge
\* number of a negative one; the quotient of doubles is taken as exact.
battery_linux(f, g) ==
    CASE f = "battery_perc"  -> g.capacity
      [] f = "battery_state" ->
            CASE g.status = "Charging" -> "+" [] g.status = "Discharging" -> "-"
              [] g.status \in {"Full", "Not charging"} -> "o" [] OTHER -> "?"
      [] f = "battery_remaining" ->
            LET now == pick(g.charge_now, g.energy_now)
            IN  CASE now = NULL                               -> NULL
                  [] now # NULL /\ g.status # "Discharging"   -> <<>>
                  [] now # NULL /\ g.status = "Discharging"   ->
                        LET rate == pick(g.current_now, g.power_now)
                        IN  IF rate \in {NULL, 0} THEN NULL ELSE hm((60 * now) \div Unsigned(rate, W))

battery_openbsd(f, g) ==
    CASE f = "battery_perc"      -> g.battery_life
      [] f = "battery_state"     -> CASE g.ac_state = "on" -> "+" [] g.ac_state = "off" -> "-" [] OTHER -> "?"
      [] f = "battery_remaining" -> IF g.ac_state = "on" THEN <<>> ELSE hm(g.minutes_left)

battery_freebsd(f, g) ==
    CASE f = "battery_perc"      -> g.life
      [] f = "battery_state"     -> CASE g.state \in {0, 2} -> "+" [] g.state = 1 -> "-" [] OTHER -> "?"
      [] f = "battery_remaining" -> IF g.time < 0 THEN NULL ELSE hm(g.time)

battery(os, f, g) ==
    {CASE os = "linux" -> battery_linux(f, g) [] os = "openbsd" -> battery_openbsd(f, g)
       [] os = "freebsd" -> battery_freebsd(f, g)}

-----------------------------------------------------------------------------
(* backlight.c and temperature.c                                             *)

brightness(w) == [max |-> w.max, cur |-> w.cur]

backlight_reads(os) == IF os = "linux" THEN <<{"max"}, {"cur"}>> ELSE <<{"max", "cur"}>>

\* Only Linux asks whether max is 0.
backlight_perc(os, g) ==
    CASE g.max # 0                 -> {Quotient(x, g.max) : x \in Overflow(g.cur * 100, W32)}
      [] g.max = 0 /\ os = "linux" -> {NULL}
      [] g.max = 0 /\ os # "linux" -> {CRASH}

\* Of tenths of a degree Celsius: Linux has thousandths of one, OpenBSD
\* millionths of a Kelvin, FreeBSD tenths.
thermal(w) == [millis |-> 100 * w.tenths, micros |-> 273150000 + 100000 * w.tenths,
               deciK |-> 2731 + w.tenths]

temp_reads(os) == <<{CASE os = "linux" -> "millis" [] os = "openbsd" -> "micros" [] os = "freebsd" -> "deciK"}>>

\* "%d.%d" of FreeBSD is the number that is read off it, in tenths.
temp(os, g) ==
    {CASE os = "linux"   -> Unsigned(g.millis, W) \div 1000
       [] os = "openbsd" -> Quotient(g.micros - 273150000, 1000000)
       [] os = "freebsd" -> LET whole == Quotient(g.deciK - 2731, 10)
                                rest  == Remainder(g.deciK - 2731, 10)
                                tenth == IF rest < 0 THEN -rest ELSE rest
                            IN  10 * whole + (IF whole < 0 THEN -tenth ELSE tenth)}

-----------------------------------------------------------------------------
(* What they are to show, of the battery, the lamp and the sensor.           *)

\* A battery neither charged nor discharged has a sign of its own on Linux
\* only; OpenBSD's sign is that of the mains.
battery_truth(os, f, w) ==
    CASE f = "battery_perc"  -> 50 * w.charge
      [] f = "battery_state" ->
            CASE w.status = "Charging" -> "+" [] w.status = "Discharging" -> "-"
              [] w.status = "Unknown" -> "?" [] OTHER -> IF os = "linux" THEN "o" ELSE "+"
      [] f = "battery_remaining" ->
            CASE w.status = "Discharging" /\ w.flow = 0 -> NULL
              [] w.status = "Discharging" /\ w.flow # 0 -> hm(Minutes(w))
              [] w.status # "Discharging"               -> IF os = "freebsd" THEN NULL ELSE <<>>

\* Where battery_remaining goes wrong: charge and current, energy and power are
\* not picked as pairs, a current may be negative, OpenBSD's -1 is shown as a
\* number, also while the state of the mains is not known; and a FreeBSD
\* battery is in no state it knows when it is critical.
battery_gap(os, f, w) ==
    \/ /\ os = "linux" /\ f = "battery_remaining"
       /\ \/ w.negative
          \/ w.files \cap {"charge_now", "energy_now"} = {}
          \/ ("charge_now" \in w.files) # ("current_now" \in w.files)
          \/ w.files \cap {"current_now", "power_now"} = {}
    \/ os = "openbsd" /\ f = "battery_remaining" /\ (w.flow = 0 \/ w.status = "Unknown")
    \/ os = "freebsd" /\ f = "battery_state" /\ w.charge = 0

backlight_truth(w) == IF w.max = 0 THEN NULL ELSE (100 * w.cur) \div w.max
backlight_gap(os, w) == (os = "openbsd" /\ w.max = 0) \/ w.cur * 100 >= W32 \div 2

temp_truth(os, w) == IF os = "freebsd" THEN w.tenths ELSE Quotient(w.tenths, 10)

\* Below zero Linux shows a huge number, and FreeBSD no sign above -1 degree.
temp_gap(os, w) ==
    \/ os = "linux" /\ w.tenths < 0
    \/ os = "freebsd" /\ w.tenths \in -9 .. -1
=============================================================================
