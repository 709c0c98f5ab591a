------------------------------- MODULE Desktop -------------------------------
(* keymap.c and keyboard_indicators.c (X11), disk.c (statvfs), num_files.c,  *)
(* and volume.c with ALSA and with OSS: what is asked for, in which order,   *)
(* and what is made of it.                                                   *)
EXTENDS Integers, Sequences, SequencesExt, FiniteSets

CONSTANTS NULL, UNDEFINED   \* no value, and what an undefined conversion yields

DiskFunctions == {"disk_free", "disk_perc", "disk_total", "disk_used"}

-----------------------------------------------------------------------------
(* keymap.c                                                                  *)

\* The keyboard: its layouts, one of which is active.  Its symbols are tokens
\* "pc", the layouts, from the second on each with its number, and "inet".
Number(n) == <<"1", "2", "3", "4">>[n]
xkb(w) ==
    [symbols |-> <<"pc">> \o FlattenSeq([k \in DOMAIN w.layouts |->
                                 IF k = 1 THEN <<w.layouts[1]>> ELSE <<w.layouts[k], Number(k)>>])
                 \o <<"inet">>,
     group   |-> w.active - 1]

\* XkbGetNames, then XkbGetState; XGetAtomName adds nothing that changes.
keymap_reads == <<{"symbols"}, {"group"}>>

valid_layout_or_variant(sym) == sym \notin {"evdev", "inet", "pc", "base"}

\* The layout of a group, or the last one if there are not so many.
get_layout(syms, grp_num) ==
    LET layouts == SelectSeq(syms, LAMBDA tok : valid_layout_or_variant(tok)
                                                /\ tok \notin {Number(n) : n \in 2 .. 4})
    IN  layouts[IF grp_num < Len(layouts) THEN grp_num + 1 ELSE Len(layouts)]

keymap(g) == {get_layout(g.symbols, g.group)}
keymap_truth(w) == {w.layouts[w.active]}

-----------------------------------------------------------------------------
(* keyboard_indicators.c                                                     *)

\* A format is a sequence of items: a letter, and whether '?' follows it.  The
\* lights that are on are those of the lower case letters in leds.
Lower(char) == CASE char = "C" -> "c" [] char = "N" -> "n" [] OTHER -> char
Upper(key)  == IF key = "c" THEN "C" ELSE "N"
Format(items) == FlattenSeq([k \in DOMAIN items |->
                     IF items[k].optional THEN <<items[k].letter, "?">> ELSE <<items[k].letter>>])

\* strnlen(fmt, 4)
keyboard_indicators(fmt, leds) ==
    LET fmtlen == IF Len(fmt) < 4 THEN Len(fmt) ELSE 4
        key(i) == Lower(fmt[i])
        togglecase(i) == i + 1 > fmtlen \/ fmt[i + 1] # "?"
    IN  {FlattenSeq([i \in 1 .. fmtlen |->
            CASE key(i) \notin {"c", "n"} -> <<>>
              [] key(i) \in {"c", "n"} /\ togglecase(i) -> <<IF key(i) \in leds THEN Upper(key(i)) ELSE key(i)>>
              [] key(i) \in {"c", "n"} /\ ~togglecase(i) -> IF key(i) \in leds THEN <<fmt[i]>> ELSE <<>>])}

\* Lines 10 to 16: an item with '?' is there as it is written if its light is
\* on; any other is always there, in upper case if its light is on.
indicators_truth(w) ==
    {FlattenSeq([k \in DOMAIN w.items |->
        LET item == w.items[k] on == Lower(item.letter) \in w.leds
        IN  CASE item.optional /\ ~on -> <<>>
              [] item.optional /\ on  -> <<item.letter>>
              [] ~item.optional /\ on -> <<Upper(Lower(item.letter))>>
              [] OTHER                -> <<Lower(item.letter)>>])}
indicators_gap(w) == Len(Format(w.items)) > 4

-----------------------------------------------------------------------------
(* disk.c, in units of f_frsize.                                             *)

\* Some of the blocks that are free are kept for the administrator.
statvfs(w) ==
    LET free == w.blocks - w.taken
    IN  [blocks |-> w.blocks, bfree |-> free, bavail |-> IF free < w.reserved THEN 0 ELSE free - w.reserved]

\* A share of 100 in doubles, where a whole number may come out just below,
\* and an empty file system makes NaN, which is converted to an int.
share(part, all) ==
    LET perc == (100 * part) \div all
    IN  IF (100 * part) % all = 0 /\ part \notin {0, all} THEN {perc, perc - 1} ELSE {perc}

disk(f, g) ==
    CASE f = "disk_free"  -> {g.bavail}
      [] f = "disk_total" -> {g.blocks}
      [] f = "disk_used"  -> {g.blocks - g.bfree}
      [] f = "disk_perc"  -> IF g.blocks = 0 THEN {UNDEFINED} ELSE share(g.blocks - g.bavail, g.blocks)

\* What users can have no more of counts as gone; a percent less is right.
disk_truth(f, w) ==
    LET kept == IF w.taken + w.reserved > w.blocks THEN w.blocks ELSE w.taken + w.reserved
    IN  CASE f = "disk_free"  -> {w.blocks - kept}
          [] f = "disk_total" -> {w.blocks}
          [] f = "disk_used"  -> {w.taken}
          [] f = "disk_perc"  -> IF w.blocks = 0 THEN {NULL}
                                 ELSE {(100 * kept) \div w.blocks - d : d \in {0, 1}}
disk_gap(f, w) == f = "disk_perc" /\ w.blocks = 0

-----------------------------------------------------------------------------
(* num_files.c: readdir goes over the places of a directory, which are empty *)
(* or hold a name, one by one.                                               *)

readdir(w) == w
num_files_reads == <<{"first"}, {"second"}, {"third"}, {"fourth"}, {"fifth"}>>
num_files(g) ==
    LET counts(d_name) == IF d_name \in {NULL, ".", ".."} THEN 0 ELSE 1
    IN  {counts(g.first) + counts(g.second) + counts(g.third) + counts(g.fourth) + counts(g.fifth)}
num_files_truth(w) == {Cardinality({place \in DOMAIN w : w[place] # NULL} \ {"first", "second"})}

-----------------------------------------------------------------------------
(* volume.c on Linux: ALSA has a range of its own, OSS left and right in one *)
(* int.                                                                      *)

mixer(w) == [devmask |-> w.vol, min |-> w.lowest, max |-> w.highest, volume |-> w.left,
             v |-> w.left + 256 * w.right]

alsa_reads == <<{"min", "max"}, {"volume"}>>
oss_reads(g) ==
    IF "devmask" \in DOMAIN g /\ ~g.devmask THEN <<{"devmask"}>> ELSE <<{"devmask"}, {"v"}>>

\* "%.0f" rounds, a half to the even number; 0 by 0 is NaN.
Rounded(part, all) ==
    LET down == part \div all
        twice == 2 * (part % all)
    IN  IF twice < all \/ (twice = all /\ down % 2 = 0) THEN down ELSE down + 1

vol_perc_alsa(g) ==
    {CASE g.volume = -1                        -> NULL
       [] g.volume # -1 /\ g.max = g.min       -> UNDEFINED
       [] g.volume # -1 /\ g.max # g.min       -> Rounded((g.volume - g.min) * 100, g.max - g.min)}
vol_perc_oss(g) == {IF g.devmask THEN g.v % 256 ELSE NULL}

\* The percentage that is nearest, or the left channel's.  An ALSA volume of -1
\* is taken for none.
alsa_truth(w) ==
    {p \in 0 .. 100 : LET d == p * (w.highest - w.lowest) - 100 * (w.left - w.lowest)
                      IN  2 * d \in w.lowest - w.highest .. w.highest - w.lowest}
alsa_gap(w) == w.left = -1 \/ w.lowest = w.highest
oss_truth(w) == {IF w.vol THEN w.left ELSE NULL}
=============================================================================
