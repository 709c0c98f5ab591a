------------------------------- MODULE Memory --------------------------------
(* Memory and swap (src/components/ram.c, swap.c) on Linux, OpenBSD and      *)
(* FreeBSD: what each function asks the kernel for, in which order, and what *)
(* it makes of the answers.  What it returns is the number that fmt_human or *)
(* "%d" is given.                                                            *)
EXTENDS CInts, Sequences, SequencesExt

CONSTANTS
    Kilo,       \* 1024
    PageKb,     \* kilobytes of a page
    W, W32,     \* number of values of a uintmax_t (or long), and of an int
    NULL, CRASH \* no value, and a division by zero

Page == PageKb * Kilo
RamFunctions  == {"ram_free", "ram_perc", "ram_total", "ram_used"}
SwapFunctions == {"swap_free", "swap_perc", "swap_total", "swap_used"}

-----------------------------------------------------------------------------
(* The kernel.  Of the memory it knows how many pages serve what: rest are   *)
(* those of programs, which the BSDs count as active.  Swap is a sequence of *)
(* devices; cached are the pages that are in swap and in memory.             *)

SumOf(s, Val(_)) == FoldLeft(LAMBDA sum, x : sum + x, 0, [k \in DOMAIN s |-> Val(s[k])])
pages(w) == w.free + w.buffers + w.file + w.shmem + w.slab + w.rest
size(w)  == SumOf(w.devices, LAMBDA d : d.size)
used(w)  == SumOf(w.devices, LAMBDA d : d.used)

meminfo(w) ==
    [MemTotal |-> pages(w) * PageKb, MemFree |-> w.free * PageKb,
     Buffers |-> w.buffers * PageKb, Cached |-> (w.file + w.shmem) * PageKb,
     Shmem |-> w.shmem * PageKb, SReclaimable |-> w.slab * PageKb]
vmstat(w) ==
    [npages |-> pages(w), active |-> w.rest, t_free |-> w.free]
swapinfo(w) ==
    [SwapTotal |-> size(w) * PageKb, SwapFree |-> (size(w) - used(w)) * PageKb,
     SwapCached |-> w.cached * PageKb,
     nswap |-> Len(w.devices),
     swapent |-> [k \in DOMAIN w.devices |-> [nblks |-> 2 * PageKb * w.devices[k].size,
                                              inuse |-> 2 * PageKb * w.devices[k].used]],
     ksw_total |-> size(w), ksw_used |-> used(w)]

-----------------------------------------------------------------------------
(* ram.c                                                                     *)

\* lscanf rewinds the file: /proc/meminfo is made anew for every key.
ram_reads(os, f) ==
    CASE f = "ram_total"                                -> <<{IF os = "linux" THEN "MemTotal" ELSE "npages"}>>
      [] os = "linux" /\ f = "ram_free"                 -> <<{"MemFree"}>>
      [] os = "linux" /\ f \in {"ram_perc", "ram_used"} ->
            <<{"MemTotal"}, {"MemFree"}, {"Buffers"}, {"Cached"}, {"Shmem"}, {"SReclaimable"}>>
      [] os = "openbsd" /\ f # "ram_total"              -> <<{"npages", "active"}>>
      [] os = "freebsd" /\ f = "ram_free"               -> <<{"t_free"}>>
      [] os = "freebsd" /\ f = "ram_perc"               -> <<{"npages"}, {"active"}>>
      [] os = "freebsd" /\ f = "ram_used"               -> <<{"active"}>>

\* Mutant of busy: reclaimable slabs count as used.
busySlab(g) ==
    Unsigned(g.MemTotal - g.MemFree - g.Buffers - g.Cached + g.Shmem, W)

\* total - free - buffers - cached - sreclaimable + shmem, of uintmax_t
busy(g) ==
    Unsigned(g.MemTotal - g.MemFree - g.Buffers - g.Cached - g.SReclaimable + g.Shmem, W)

ram_linux(f, g) ==
    {CASE f = "ram_free"  -> g.MemFree * Kilo
       [] f = "ram_total" -> g.MemTotal * Kilo
       [] f = "ram_used"  -> Unsigned(busy(g) * Kilo, W)
       [] f = "ram_perc"  -> IF g.MemTotal = 0 THEN NULL
                             ELSE Signed(Unsigned(100 * busy(g), W) \div g.MemTotal, W32)}

\* pagetok shifts an int, and its kilobytes become a size_t.
ram_openbsd(f, g) ==
    LET bytes(n) == {Unsigned(Unsigned(x, W) * Kilo, W) : x \in Overflow(n * PageKb, W32)}
    IN  CASE f = "ram_free"  -> bytes(g.npages - g.active)
          [] f = "ram_total" -> bytes(g.npages)
          [] f = "ram_used"  -> bytes(g.active)
          [] f = "ram_perc"  -> IF g.npages = 0 THEN {CRASH}
                                ELSE {Quotient(x, g.npages) : x \in Overflow(g.active * 100, W32)}

\* A product of unsigned ints wraps, that of t_free does not.
ram_freebsd(f, g) ==
    {CASE f = "ram_free"  -> g.t_free * Page
       [] f = "ram_total" -> Unsigned(g.npages * Page, W32)
       [] f = "ram_used"  -> Unsigned(g.active * Page, W32)
       [] f = "ram_perc"  -> IF g.npages = 0 THEN CRASH ELSE Unsigned(g.active * 100, W32) \div g.npages}

ram(os, f, g) ==
    CASE os = "linux" -> ram_linux(f, g) [] os = "openbsd" -> ram_openbsd(f, g)
      [] os = "freebsd" -> ram_freebsd(f, g)

-----------------------------------------------------------------------------
(* swap.c                                                                    *)

\* Mutant of get_swap_info: the keys are looked up one by one, with lscanf.
get_swap_infoRewinds(f) == <<{"SwapTotal"}, {"SwapFree"}, {"SwapCached"}>>

\* One pass over /proc/meminfo finds all that is wanted.
get_swap_info(f) ==
    <<CASE f = "swap_free" -> {"SwapFree"} [] f = "swap_total" -> {"SwapTotal"}
        [] OTHER -> {"SwapTotal", "SwapFree", "SwapCached"}>>

\* getstats asks for the number of devices, and then, if there are any, for
\* so many of them.
getstats(g) ==
    IF "nswap" \in DOMAIN g /\ g.nswap < 1 THEN <<{"nswap"}>> ELSE <<{"nswap"}, {"swapent"}>>

swap_reads(os, f, g) ==
    CASE os = "linux"   -> get_swap_info(f)
      [] os = "openbsd" -> getstats(g)
      [] os = "freebsd" -> <<{"ksw_total", "ksw_used"}>>

swap_linux(f, g) ==
    {CASE f = "swap_free"  -> g.SwapFree * Kilo
       [] f = "swap_total" -> g.SwapTotal * Kilo
       [] f = "swap_used"  -> Unsigned((g.SwapTotal - g.SwapFree - g.SwapCached) * Kilo, W)
       [] f = "swap_perc"  -> IF g.SwapTotal = 0 THEN NULL
                              ELSE Signed(Quotient(100 * (g.SwapTotal - g.SwapFree - g.SwapCached),
                                                   g.SwapTotal), W32)}

\* Of the devices swapctl returns no more than it was asked for.  The products
\* are those of ints, and then converted to uintmax_t.
swap_openbsd(f, g) ==
    LET rnswap  == IF Len(g.swapent) < g.nswap THEN Len(g.swapent) ELSE g.nswap
        sep     == SubSeq(g.swapent, 1, rnswap)
        total   == SumOf(sep, LAMBDA d : d.nblks \div 2)
        inuse   == SumOf(sep, LAMBDA d : d.inuse \div 2)
        bytes(n) == {Unsigned(x, W) : x \in Overflow(n * Kilo, W32)}
    IN  CASE g.nswap < 1 -> {NULL}
          [] g.nswap >= 1 /\ rnswap # g.nswap -> {NULL}
          [] OTHER ->
               CASE f = "swap_free"  -> bytes(total - inuse)
                 [] f = "swap_total" -> bytes(total)
                 [] f = "swap_used"  -> bytes(inuse)
                 [] f = "swap_perc"  -> IF total = 0 THEN {NULL}
                                        ELSE {Quotient(x, total) : x \in Overflow(100 * inuse, W32)}

swap_freebsd(f, g) ==
    {CASE f = "swap_free"  -> (g.ksw_total - g.ksw_used) * Page
       [] f = "swap_total" -> g.ksw_total * Page
       [] f = "swap_used"  -> g.ksw_used * Page
       [] f = "swap_perc"  -> IF g.ksw_total = 0 THEN CRASH ELSE (g.ksw_used * 100) \div g.ksw_total}

swap(os, f, g) ==
    CASE os = "linux" -> swap_linux(f, g) [] os = "openbsd" -> swap_openbsd(f, g)
      [] os = "freebsd" -> swap_freebsd(f, g)

-----------------------------------------------------------------------------
(* What the functions are to show, of the pages themselves: their number,    *)
(* and which of them are free, in use and cached.                            *)

amount(f, all, free, busyPages, none) ==
    CASE f \in {"ram_free", "swap_free"}   -> free * Page
      [] f \in {"ram_total", "swap_total"} -> all * Page
      [] f \in {"ram_used", "swap_used"}   -> busyPages * Page
      [] f \in {"ram_perc", "swap_perc"}   -> IF all = 0 THEN none ELSE (100 * busyPages) \div all

\* Linux counts shared memory as used, and OpenBSD's ram_free all that is not
\* active as free.
ram_truth(os, f, w) ==
    amount(f, pages(w), IF os = "openbsd" THEN pages(w) - w.rest ELSE w.free,
           IF os = "linux" THEN w.rest + w.shmem ELSE w.rest, NULL)

\* What is cached is not missing from memory and not counted as used on Linux;
\* OpenBSD has nothing to show without a device.
swap_truth(os, f, w) ==
    IF os = "openbsd" /\ w.devices = <<>> THEN NULL
    ELSE amount(f, size(w), size(w) - used(w), used(w) - (IF os = "linux" THEN w.cached ELSE 0), NULL)

\* What does not fit an int (OpenBSD) or an unsigned int (FreeBSD's memory):
\* kilobytes or bytes, and a hundred times what is active; and FreeBSD's
\* division by the size of no swap.
ram_gap(os, f, w) ==
    \/ os = "openbsd" /\ f # "ram_perc" /\ pages(w) * PageKb >= W32 \div 2
    \/ os = "openbsd" /\ f = "ram_perc" /\ w.rest * 100 >= W32 \div 2
    \/ os = "freebsd" /\ f \in {"ram_total", "ram_used"} /\ pages(w) * Page >= W32
    \/ os = "freebsd" /\ f = "ram_perc" /\ w.rest * 100 >= W32
swap_gap(os, f, w) ==
    \/ os = "openbsd" /\ size(w) * (IF f = "swap_perc" THEN 100 * PageKb ELSE Page) >= W32 \div 2
    \/ os = "freebsd" /\ f = "swap_perc" /\ size(w) = 0
=============================================================================
