--------------------------- MODULE SamplersProofs ----------------------------
(* Theorems about the components that remember a counter of the kernel, for  *)
(* any configuration, interfaces and devices, and any width of the integers  *)
(* that holds the products.                                                  *)
EXTENDS Samplers, FiniteSetTheorems, TLAPS

-----------------------------------------------------------------------------
(* Sums over sets.  The library's induction takes an operator, which no      *)
(* prover here can instantiate; that some set is the smallest counterexample *)
(* says the same of sets.                                                    *)

\* Of the finite sets with a property some has no proper subset with it.
LEMMA SmallestSubset ==
    ASSUME NEW S, IsFiniteSet(S), NEW Bad \in SUBSET SUBSET S, Bad # {}
    PROVE  \E s \in Bad : \A t \in Bad : t \subseteq s => t = s
  <1> DEFINE R == StrictSubsetOrdering(S)
  <1>1. IsWellFoundedOn(R, SUBSET S)
    BY FS_StrictSubsetOrderingWellFounded, FS_FiniteSubsetsOfFinite
  <1>2. \A s, t \in SUBSET S : t \subseteq s /\ t # s => <<t, s>> \in R
    BY DEF StrictSubsetOrdering
  <1> HIDE DEF R
  <1>3. \E s \in Bad : \A t \in Bad : <<t, s>> \notin R
    BY <1>1, WFMin
  <1> QED BY <1>2, <1>3

\* The element that the sum over s takes first, and what the sums over the
\* subsets of S are.
Pick(s) == CHOOSE x \in s : TRUE
Sums(f, S, g) == g = [s \in SUBSET S |-> IF s = {} THEN 0 ELSE f[Pick(s)] + g[s \ {Pick(s)}]]
Partial(f, S) == CHOOSE g : Sums(f, S, g)

LEMMA SumIsPartial == \A f, S : SumFunctionOnSet(f, S) = Partial(f, S)[S]
  BY DEF SumFunctionOnSet, FoldFunctionOnSet, MapThenFoldSet, Sums, Pick, Partial

LEMMA PickIn == \A s : s # {} => Pick(s) \in s
  BY DEF Pick

\* A finite set less the element that is taken first.
LEMMA Rest ==
    ASSUME NEW S, IsFiniteSet(S), NEW s \in SUBSET S, s # {}
    PROVE  /\ Pick(s) \in S /\ s \ {Pick(s)} \in SUBSET S /\ s \ {Pick(s)} # s
           /\ Cardinality(s) \in Nat \ {0}
           /\ Cardinality(s \ {Pick(s)}) = Cardinality(s) - 1
  <1>1. IsFiniteSet(s)
    BY FS_Subset
  <1>2. Pick(s) \in s
    BY PickIn
  <1>3. Cardinality(s) \in Nat /\ Cardinality(s) # 0
    BY <1>1, FS_CardinalityType, FS_EmptySet
  <1>4. Cardinality(s \ {Pick(s)}) = Cardinality(s) - 1
    BY <1>1, <1>2, FS_RemoveElement
  <1> QED BY <1>2, <1>3, <1>4

\* A set of numbers has a smallest one.
LEMMA LeastNumber ==
    ASSUME NEW S \in SUBSET Nat, S # {}
    PROVE  \E n \in S : \A m \in S : n <= m
  <1> DEFINE R == {ss \in Nat \X Nat : ss[1] < ss[2]}
  <1>1. IsWellFoundedOn(R, Nat)
    BY NatLessThanWellFounded DEF OpToRel
  <1>2. \A m, n \in Nat : m < n => <<m, n>> \in R
    OBVIOUS
  <1> HIDE DEF R
  <1>3. PICK n \in S : \A m \in S : <<m, n>> \notin R
    BY <1>1, WFMin
  <1>4. ASSUME NEW m \in S PROVE n <= m
    <2>1. m \in Nat /\ n \in Nat /\ ~(m < n)
      BY <1>2, <1>3
    <2> QED BY <2>1
  <1> QED BY <1>4

\* The recursion has a solution: the one that is right for sets of n elements
\* yields one that is right for sets of n + 1.
LEMMA PartialEquation ==
    ASSUME NEW S, IsFiniteSet(S), NEW f
    PROVE  \A s \in SUBSET S :
               Partial(f, S)[s] = IF s = {} THEN 0 ELSE f[Pick(s)] + Partial(f, S)[s \ {Pick(s)}]
  <1> DEFINE Body(g, s) == IF s = {} THEN 0 ELSE f[Pick(s)] + g[s \ {Pick(s)}]
             Upto(n) == \E g : \A s \in SUBSET S : Cardinality(s) <= n => g[s] = Body(g, s)
             Bad == {n \in Nat : ~Upto(n)}
  <1>0. \A s \in SUBSET S : Cardinality(s) \in Nat /\ Cardinality(s) <= Cardinality(S)
    BY FS_Subset, FS_CardinalityType
  <1>1. ASSUME NEW n \in Nat, n = 0 \/ (n - 1 \in Nat /\ Upto(n - 1))
        PROVE  Upto(n)
    <2>1. PICK g : n # 0 => \A s \in SUBSET S : Cardinality(s) <= n - 1 => g[s] = Body(g, s)
      BY <1>1
    <2> DEFINE h == [s \in SUBSET S |-> Body(g, s)]
    <2>2. ASSUME NEW s \in SUBSET S, Cardinality(s) <= n, s # {}
          PROVE  h[s \ {Pick(s)}] = g[s \ {Pick(s)}]
      <3>1. s \ {Pick(s)} \in SUBSET S /\ n # 0 /\ Cardinality(s \ {Pick(s)}) <= n - 1
        BY <1>0, <2>2, Rest
      <3> QED BY <2>1, <3>1
    <2>3. \A s \in SUBSET S : Cardinality(s) <= n => h[s] = Body(h, s)
      BY <2>2
    <2> HIDE DEF h
    <2> QED BY <2>3
  <1>2. Bad = {}
    <2>1. SUFFICES ASSUME Bad # {} PROVE FALSE
      OBVIOUS
    <2> HIDE DEF Upto
    <2>2. PICK n \in Bad : \A m \in Bad : n <= m
      BY <2>1, LeastNumber
    <2>3. n = 0 \/ (n - 1 \in Nat /\ Upto(n - 1))
      BY <2>2
    <2> QED BY <1>1, <2>2, <2>3
  <1>3. PICK g : \A s \in SUBSET S : g[s] = Body(g, s)
    <2>1. Cardinality(S) \in Nat /\ Upto(Cardinality(S))
      BY <1>0, <1>2
    <2> QED BY <1>0, <2>1
  <1> DEFINE h == [s \in SUBSET S |-> g[s]]
  <1>4. \A s \in SUBSET S : s \ {Pick(s)} \in SUBSET S
    OBVIOUS
  <1>5. Sums(f, S, h)
    <2>1. \A s \in SUBSET S : h[s] = IF s = {} THEN 0 ELSE f[Pick(s)] + h[s \ {Pick(s)}]
      BY <1>3, <1>4
    <2>2. h = [s \in SUBSET S |-> h[s]]
      OBVIOUS
    <2> HIDE DEF h
    <2>3. h = [s \in SUBSET S |-> IF s = {} THEN 0 ELSE f[Pick(s)] + h[s \ {Pick(s)}]]
      BY <2>1, <2>2
    <2> QED BY <2>3 DEF Sums
  <1>6. Sums(f, S, Partial(f, S))
    BY <1>5 DEF Partial
  <1> DEFINE p == Partial(f, S)
  <1>7. p = [s \in SUBSET S |-> IF s = {} THEN 0 ELSE f[Pick(s)] + p[s \ {Pick(s)}]]
    BY <1>6 DEF Sums
  <1> HIDE DEF p
  <1>8. \A s \in SUBSET S : p[s] = IF s = {} THEN 0 ELSE f[Pick(s)] + p[s \ {Pick(s)}]
    BY <1>7
  <1> QED BY <1>8 DEF p

\* A sum of numbers that are not above M.
LEMMA SumBound ==
    ASSUME NEW S, IsFiniteSet(S), NEW f, NEW M \in Nat, \A x \in S : f[x] \in 0 .. M
    PROVE  SumFunctionOnSet(f, S) \in 0 .. M * Cardinality(S)
  <1> DEFINE p == Partial(f, S)
             Fits(s) == p[s] \in 0 .. M * Cardinality(s)
             Bad == {s \in SUBSET S : ~Fits(s)}
  <1>1. SUFFICES ASSUME Bad # {} PROVE FALSE
    BY SumIsPartial
  <1>2. PICK s \in Bad : \A t \in Bad : t \subseteq s => t = s
    <2>1. Bad \in SUBSET SUBSET S
      OBVIOUS
    <2> HIDE DEF Bad
    <2> QED BY <1>1, <2>1, SmallestSubset
  <1>3. s # {}
    <2>1. Fits({})
      BY PartialEquation, FS_EmptySet
    <2> QED BY <1>2, <2>1
  <1>4. DEFINE t == s \ {Pick(s)}
  <1>5. t \in SUBSET S /\ t # s /\ t \subseteq s /\ f[Pick(s)] \in 0 .. M
    BY <1>3, Rest
  <1>6. Cardinality(s) \in Nat \ {0} /\ Cardinality(t) = Cardinality(s) - 1
    BY <1>3, Rest
  <1>7. p[s] = f[Pick(s)] + p[t]
    BY <1>3, PartialEquation
  <1>8. p[t] \in 0 .. M * Cardinality(t)
    BY <1>2, <1>5
  <1>9. M * Cardinality(s) = M * Cardinality(t) + M
    BY <1>6
  <1> HIDE DEF p, t
  <1>10. p[s] \in 0 .. M * Cardinality(s)
    <2> DEFINE mt == M * Cardinality(t)
               ms == M * Cardinality(s)
    <2>1. mt \in Nat /\ ms \in Nat /\ ms = mt + M
      BY <1>6, <1>9
    <2> HIDE DEF mt, ms
    <2>2. p[s] \in 0 .. ms
      BY <1>5, <1>7, <1>8, <2>1 DEF mt
    <2> QED BY <2>2 DEF ms
  <1> QED BY <1>2, <1>10

\* A sum of differences is the difference of the sums.
LEMMA SumDifference ==
    ASSUME NEW S, IsFiniteSet(S), NEW f, NEW g, NEW h,
           \A x \in S : f[x] \in Int /\ g[x] \in Int /\ h[x] = f[x] - g[x]
    PROVE  SumFunctionOnSet(h, S) = SumFunctionOnSet(f, S) - SumFunctionOnSet(g, S)
  <1> DEFINE Fits(s) == /\ Partial(f, S)[s] \in Int /\ Partial(g, S)[s] \in Int
                        /\ Partial(h, S)[s] = Partial(f, S)[s] - Partial(g, S)[s]
             Bad == {s \in SUBSET S : ~Fits(s)}
  <1>1. SUFFICES ASSUME Bad # {} PROVE FALSE
    BY SumIsPartial
  <1>2. PICK s \in Bad : \A t \in Bad : t \subseteq s => t = s
    <2>1. Bad \in SUBSET SUBSET S
      OBVIOUS
    <2> HIDE DEF Bad
    <2> QED BY <1>1, <2>1, SmallestSubset
  <1>3. s # {}
    <2>1. \A e : Partial(e, S)[{}] = 0
      BY PartialEquation
    <2>2. Fits({})
      BY <2>1
    <2> QED BY <1>2, <2>2
  <1> DEFINE t == s \ {Pick(s)}
  <1>4. t \in SUBSET S /\ t # s /\ t \subseteq s /\ Pick(s) \in S
    BY <1>3, Rest
  <1>5. Fits(t)
    BY <1>2, <1>4
  <1>6. /\ Partial(f, S)[s] = f[Pick(s)] + Partial(f, S)[t]
        /\ Partial(g, S)[s] = g[Pick(s)] + Partial(g, S)[t]
        /\ Partial(h, S)[s] = h[Pick(s)] + Partial(h, S)[t]
    BY <1>3, PartialEquation
  <1> HIDE DEF t
  <1>7. Fits(s)
    BY <1>4, <1>5, <1>6
  <1> QED BY <1>2, <1>7

\* A sum of integers is an integer.
LEMMA SumInt ==
    ASSUME NEW S, IsFiniteSet(S), NEW f, \A x \in S : f[x] \in Int
    PROVE  SumFunctionOnSet(f, S) \in Int
  <1> DEFINE Fits(s) == Partial(f, S)[s] \in Int
             Bad == {s \in SUBSET S : ~Fits(s)}
  <1>1. SUFFICES ASSUME Bad # {} PROVE FALSE
    BY SumIsPartial
  <1>2. PICK s \in Bad : \A t \in Bad : t \subseteq s => t = s
    <2>1. Bad \in SUBSET SUBSET S
      OBVIOUS
    <2> HIDE DEF Bad
    <2> QED BY <1>1, <2>1, SmallestSubset
  <1>3. s # {}
    <2>1. Partial(f, S)[{}] = 0
      BY PartialEquation
    <2>2. Fits({})
      BY <2>1
    <2> QED BY <1>2, <2>2
  <1> DEFINE t == s \ {Pick(s)}
  <1>4. t \in SUBSET S /\ t # s /\ t \subseteq s /\ f[Pick(s)] \in Int
    BY <1>3, Rest
  <1>5. Partial(f, S)[t] \in Int
    BY <1>2, <1>4
  <1>6. Partial(f, S)[s] = f[Pick(s)] + Partial(f, S)[t]
    BY <1>3, PartialEquation
  <1> HIDE DEF t
  <1>7. Fits(s)
    BY <1>4, <1>5, <1>6
  <1> QED BY <1>2, <1>7

\* What is summed up decides the sum.
LEMMA SumSame ==
    ASSUME NEW S, IsFiniteSet(S), NEW f, NEW g, \A x \in S : f[x] \in Int /\ g[x] = f[x]
    PROVE  SumFunctionOnSet(f, S) = SumFunctionOnSet(g, S)
  <1> DEFINE h == [x \in S |-> 0]
  <1>1. SumFunctionOnSet(h, S) = SumFunctionOnSet(f, S) - SumFunctionOnSet(g, S)
    BY SumDifference
  <1>2. SumFunctionOnSet(h, S) \in 0 .. 0 * Cardinality(S)
    BY SumBound
  <1>3. 0 * Cardinality(S) = 0
    BY FS_CardinalityType
  <1>4. SumFunctionOnSet(f, S) \in Int /\ SumFunctionOnSet(g, S) \in Int
    BY SumInt
  <1> QED BY <1>1, <1>2, <1>3, <1>4

-----------------------------------------------------------------------------
(* Numbers *)

\* A quotient is bounded as its dividend is.
LEMMA DivBound ==
    ASSUME NEW x \in Nat, NEW n \in Nat \ {0}, NEW k \in Nat, x <= k * n
    PROVE  x \div n \in 0 .. k
  <1> DEFINE q == x \div n
             r == x % n
  <1>1. q \in Nat /\ x = n * q + r /\ r \in 0 .. n - 1
    BY SMT
  <1> HIDE DEF q, r
  <1>2. ASSUME q > k PROVE FALSE
    <2>1. PICK d \in Nat : q = k + 1 + d
      <3>1. q - k - 1 \in Nat /\ q = k + 1 + (q - k - 1)
        BY <1>1, <1>2
      <3> QED BY <3>1
    <2>2. n * q = k * n + n + n * d
      BY <2>1
    <2>3. n * d \in Nat /\ k * n \in Nat /\ n * q \in Nat
      BY <1>1, <2>1
    <2> QED BY <1>1, <2>2, <2>3
  <1> QED BY <1>1, <1>2 DEF q

\* What fits is not changed by the width.
LEMMA Small == \A x, w \in Nat : x < w => x % w = x
  OBVIOUS

\* The shares that the three systems compute of what fits.
LEMMA ShareRange ==
    ASSUME NEW busy \in Nat, NEW sum \in Nat \ {0}, busy <= sum, 100 * sum < W, W \in Nat
    PROVE  /\ Quotient(100 * busy, sum) \in 0 .. 100
           /\ Unsigned(100 * Unsigned(busy, W), W) \div Unsigned(sum, W) \in 0 .. 100
  <1>1. (100 * busy) \div sum \in 0 .. 100
    BY DivBound
  <1>2. Quotient(100 * busy, sum) = (100 * busy) \div sum
    BY DEF Quotient
  <1>3. Unsigned(busy, W) = busy /\ Unsigned(100 * busy, W) = 100 * busy /\ Unsigned(sum, W) = sum
    BY Small DEF Unsigned
  <1> QED BY <1>1, <1>2, <1>3

-----------------------------------------------------------------------------
(* The invariant *)

USE ConfigurationsAssumption, IntervalsAssumption, WidthAssumption, DevicesAssumption

AllFuncs == Rates \cup Bytes \cup {"io_perc", "cpu_perc"}

Types ==
    /\ os \in {"linux", "openbsd", "freebsd"}
    /\ modules \in Seq(Entry) /\ interval \in Nat
    /\ i \in 0 .. Len(modules) + 1 /\ (i = 0 => interval = 0)
    /\ loop_count \in 0 .. LoopLimit - 1
    /\ counter \in [Counters -> 0 .. MaxCount]
    /\ static \in [Rates \cup Bytes \cup {"io_perc"} -> 0 .. W - 1]
    /\ a \in [Counters -> 0 .. MaxCount]
    /\ who \in {0} \cup Indices
    /\ DOMAIN mine = Indices

\* What a module read last, as long as nothing has gone back, is still below
\* its counters, is what its static variable holds if the module is alone, and
\* no reading that another cpu_perc took since is above the counters.
Kept(m) ==
    mine[m] # NULL =>
        LET e == modules[m]
        IN  /\ mine[m] \in [Reads(e) -> 0 .. MaxCount]
            /\ \A c \in Reads(e) : mine[m][c] <= counter[c]
            /\ (e.func \in Rates \cup Bytes /\ Alone(m)) => static[e.func] = mine[m][Source(e)]
            /\ (e.func = "io_perc" /\ Alone(m)) => static["io_perc"] = SumFunction(mine[m])
            /\ e.func = "cpu_perc" => \A c \in Reads(e) : a[c] <= counter[c]

Answered == (who # 0 /\ modules[who].func # "cpu_perc") => result \in 0 .. W - 1 \cup {NULL}

IInv == Types /\ (\A m \in Indices : Kept(m)) /\ Answered /\ OwnTraffic /\ BusyTime /\ PercRange

\* The counters of an entry.
LEMMA ReadsType ==
    ASSUME NEW e \in Entry
    PROVE  /\ e.func \in AllFuncs /\ e.every \in Nat \ {0}
           /\ Reads(e) \subseteq Counters
           /\ e.func \in Rates \cup Bytes => Reads(e) = {Source(e)}
           /\ e.func = "io_perc" => Reads(e) = {"io_ticks"} \X Devices
           /\ e.func = "cpu_perc" => Reads(e) = {<<"user", NULL>>, <<"system", NULL>>, Idle}
  <1>1. /\ e.func \in AllFuncs /\ e.every \in Nat \ {0}
        /\ e.func \in Rates => e.arg \in Ifaces
    BY DEF Entry, AllFuncs, Rates, Bytes
  <1>2. /\ e.func = "netspeed_rx" => Reads(e) = {<<"rx_bytes", e.arg>>}
        /\ e.func = "netspeed_tx" => Reads(e) = {<<"tx_bytes", e.arg>>}
        /\ e.func = "io_in" => Reads(e) = {<<"pgpgin", NULL>>}
        /\ e.func = "io_out" => Reads(e) = {<<"pgpgout", NULL>>}
        /\ e.func = "io_perc" => Reads(e) = {"io_ticks"} \X Devices
        /\ e.func = "cpu_perc" => Reads(e) = {"user", "system", "idle"} \X {NULL}
    BY DEF Reads
  <1>3. {"user", "system", "idle"} \X {NULL} = {<<"user", NULL>>, <<"system", NULL>>, Idle}
    BY DEF Idle
  <1>4. \A c : Reads(e) = {c} => Source(e) = c
    BY DEF Source
  <1>5. e.func \in Rates \cup Bytes => Reads(e) = {Source(e)}
    BY <1>2, <1>4 DEF Rates, Bytes
  <1>6. e.func \in Rates => Reads(e) \subseteq {"rx_bytes", "tx_bytes"} \X Ifaces
    BY <1>1, <1>2 DEF Rates
  <1>7. e.func \in Bytes => Reads(e) \subseteq {<<"pgpgin", NULL>>, <<"pgpgout", NULL>>}
    BY <1>2 DEF Bytes
  <1>8. Reads(e) \subseteq Counters
    BY <1>1, <1>2, <1>6, <1>7 DEF AllFuncs, Counters
  <1> QED BY <1>1, <1>2, <1>3, <1>5, <1>8

\* The devices are finitely many.
LEMMA TicksFinite ==
    /\ IsFiniteSet({"io_ticks"} \X Devices)
    /\ Cardinality({"io_ticks"} \X Devices) = Cardinality(Devices)
    /\ Cardinality(Devices) \in Nat
  <1>1. IsFiniteSet({"io_ticks"}) /\ Cardinality({"io_ticks"}) = 1
    BY FS_Singleton
  <1>2. Cardinality(Devices) \in Nat
    BY FS_CardinalityType
  <1>3. /\ IsFiniteSet({"io_ticks"} \X Devices)
        /\ Cardinality({"io_ticks"} \X Devices) = 1 * Cardinality(Devices)
    BY <1>1, FS_Product
  <1> QED BY <1>2, <1>3

LEMMA InitInv == Init => IInv
  <1> SUFFICES ASSUME Init PROVE IInv
    OBVIOUS
  <1>1. modules \in Seq(Entry) /\ interval \in Nat /\ Len(modules) \in Nat
    BY DEF Init
  <1>2. Types
    BY <1>1 DEF Init, Types
  <1>3. \A m \in Indices : Kept(m)
    BY DEF Init, Kept
  <1> QED BY <1>2, <1>3 DEF Init, IInv, Answered, OwnTraffic, BusyTime, NoWrap, PercRange, Known

-----------------------------------------------------------------------------
(* The steps *)

\* A counter is below W, and so is what all devices add up to.
LEMMA Widths ==
    /\ MaxCount < W
    /\ \A n \in 0 .. MaxCount : n * MsPerSec < W /\ n * Kilo < W
    /\ \A n \in 0 .. MaxCount * Cardinality(Devices) : n < W /\ 100 * n < W
  <1>1. /\ MaxCount \in Nat /\ Cardinality(Devices) \in Nat
        /\ MsPerSec \in Nat \ {0} /\ Kilo \in Nat \ {0} /\ W \in Nat \ {0}
    BY TicksFinite
  <1>2. ASSUME NEW k \in Nat \ {0}, MaxCount * k < W, NEW n \in 0 .. MaxCount
        PROVE  n * k < W
    <2>1. PICK d \in Nat : MaxCount = n + d
      <3>1. MaxCount - n \in Nat /\ MaxCount = n + (MaxCount - n)
        BY <1>1
      <3> QED BY <3>1
    <2>2. MaxCount * k = n * k + d * k
      BY <2>1
    <2>3. n * k \in Nat /\ d * k \in Nat
      BY <1>1, <2>1
    <2> QED BY <1>1, <1>2, <2>2, <2>3
  <1>3. MaxCount < W
    BY <1>1, ProductAssumption
  <1>4. ASSUME NEW n \in 0 .. MaxCount * Cardinality(Devices) PROVE n < W /\ 100 * n < W
    <2> DEFINE b == MaxCount * Cardinality(Devices)
    <2>1. b \in Nat /\ 100 * b < W
      BY <1>1, ProductAssumption
    <2> HIDE DEF b
    <2>2. n \in 0 .. b
      BY <1>4 DEF b
    <2> QED BY <1>1, <2>1, <2>2
  <1> QED BY <1>1, <1>2, <1>3, <1>4, ProductAssumption

\* Kept stays true of a module that does not answer, whatever the one that
\* answers, at i, keeps.
LEMMA OthersKept ==
    ASSUME Types, NEW m \in Indices, Kept(m), UNCHANGED <<modules, counter>>, mine'[m] = mine[m],
           \A f \in DOMAIN static :
               static'[f] = static[f] \/ (i \in Indices \ {m} /\ f = modules[i].func),
           a' = a \/ \A c \in Reads(modules[m]) : a'[c] = counter[c] \/ a'[c] = 0
    PROVE  Kept(m)'
  <1>1. SUFFICES ASSUME mine[m] # NULL PROVE Kept(m)'
    BY DEF Kept
  <1> DEFINE e == modules[m]
  <1>2. e \in Entry
    BY DEF Types, Indices
  <1>3. /\ mine[m] \in [Reads(e) -> 0 .. MaxCount]
        /\ \A c \in Reads(e) : mine[m][c] <= counter[c]
        /\ (e.func \in Rates \cup Bytes /\ Alone(m)) => static[e.func] = mine[m][Source(e)]
        /\ (e.func = "io_perc" /\ Alone(m)) => static["io_perc"] = SumFunction(mine[m])
        /\ e.func = "cpu_perc" => \A c \in Reads(e) : a[c] <= counter[c]
    BY <1>1 DEF Kept
  <1>4. Alone(m)' => Alone(m)
    BY DEF Alone, Indices
  <1>5. (Alone(m) /\ e.func \in DOMAIN static) => static'[e.func] = static[e.func]
    BY DEF Alone
  <1>6. DOMAIN static = Rates \cup Bytes \cup {"io_perc"}
    BY DEF Types
  <1>7. e.func = "cpu_perc" => \A c \in Reads(e) : a'[c] <= counter[c]
    <2>1. \A c \in Reads(e) : counter[c] \in Nat
      BY <1>2, ReadsType DEF Types
    <2> QED BY <1>3, <2>1
  <1> QED BY <1>3, <1>4, <1>5, <1>6, <1>7 DEF Kept

\* What the ghosts of a call that read its counters are.
LEMMA NotedFacts ==
    ASSUME Types, \A m \in Indices : Kept(m), i \in Indices, Noted, UNCHANGED <<modules, counter>>
    PROVE  /\ DOMAIN mine' = Indices
           /\ \A m \in Indices \ {i} : mine'[m] = mine[m]
           /\ mine'[i] = [c \in Reads(modules[i]) |-> counter[c]]
           /\ mine'[i] \in [Reads(modules[i]) -> 0 .. MaxCount]
           /\ truth' # NULL =>
                 /\ truth' = [c \in Reads(modules[i]) |-> counter[c] - mine[i][c]]
                 /\ mine[i] # NULL /\ mine[i] \in [Reads(modules[i]) -> 0 .. MaxCount]
                 /\ \A c \in Reads(modules[i]) : mine[i][c] <= counter[c]
  <1>1. modules[i] \in Entry
    BY DEF Types, Indices
  <1>2. \A c \in Reads(modules[i]) : counter[c] \in 0 .. MaxCount
    BY <1>1, ReadsType DEF Types
  <1>3. truth' # NULL => mine[i] # NULL /\ truth' = [c \in Reads(modules[i]) |-> counter[c] - mine[i][c]]
    BY DEF Noted
  <1>4. mine[i] # NULL => /\ mine[i] \in [Reads(modules[i]) -> 0 .. MaxCount]
                          /\ \A c \in Reads(modules[i]) : mine[i][c] <= counter[c]
    BY DEF Kept
  <1> QED BY <1>2, <1>3, <1>4 DEF Noted, Types

\* A call of a function that reads one counter, up to what it answers.
LEMMA OneCounter ==
    ASSUME IInv, NEW f \in Rates \cup Bytes, Calls(f), Answer(result'), Noted, UNCHANGED a,
           static' = [static EXCEPT ![f] = counter[Source(modules[i])]]
    PROVE  /\ (result' \in 0 .. W - 1 \cup {NULL}) => Types' /\ Answered'
           /\ \A m \in Indices' : Kept(m)'
           /\ BusyTime' /\ PercRange'
           /\ static[f] \in 0 .. W - 1 /\ static'[f] \in 0 .. W - 1
           /\ (truth' # NULL /\ Alone(i)) =>
                 /\ static'[f] \in 0 .. MaxCount /\ static[f] \in 0 .. static'[f]
                 /\ Moved' = static'[f] - static[f]
  <1> DEFINE e == modules[i]
             c == Source(e)
  <1>1. /\ Types /\ (\A m \in Indices : Kept(m)) /\ i \in Indices /\ e \in Entry /\ e.func = f
        /\ f \notin {"io_perc", "cpu_perc"}
    <2>1. Types /\ (\A m \in Indices : Kept(m)) /\ i \in Indices /\ e.func = f
      BY DEF IInv, Calls
    <2>2. e \in Entry
      BY <2>1 DEF Types, Indices
    <2>3. f \notin {"io_perc", "cpu_perc"}
      BY DEF Rates, Bytes
    <2> QED BY <2>1, <2>2, <2>3
  <1>2. Reads(e) = {c} /\ c \in Counters
    BY <1>1, ReadsType
  <1>3. counter[c] \in 0 .. MaxCount /\ MaxCount < W
    BY <1>1, <1>2, Widths DEF Types
  <1>4. static \in [Rates \cup Bytes \cup {"io_perc"} -> 0 .. W - 1]
    BY <1>1 DEF Types
  <1>5. /\ static' \in [Rates \cup Bytes \cup {"io_perc"} -> 0 .. W - 1]
        /\ static'[f] = counter[c]
        /\ \A g \in DOMAIN static : static'[g] = static[g] \/ g = f
    BY <1>3, <1>4
  <1>6. UNCHANGED <<modules, counter, os, interval, loop_count>> /\ who' = i /\ i' = i + 1
    BY DEF Answer
  <1>7. /\ DOMAIN mine' = Indices
        /\ \A m \in Indices \ {i} : mine'[m] = mine[m]
        /\ mine'[i] = [k \in Reads(e) |-> counter[k]]
        /\ mine'[i] \in [Reads(e) -> 0 .. MaxCount]
        /\ truth' # NULL =>
              /\ truth' = [k \in Reads(e) |-> counter[k] - mine[i][k]]
              /\ mine[i] # NULL /\ mine[i] \in [Reads(e) -> 0 .. MaxCount]
              /\ \A k \in Reads(e) : mine[i][k] <= counter[k]
    BY <1>1, <1>6, NotedFacts
  <1>8. (result' \in 0 .. W - 1 \cup {NULL}) => Types' /\ Answered'
    <2>1. i' \in 0 .. Len(modules) + 1 /\ i' # 0
      BY <1>1, <1>6 DEF Types, Indices
    <2>2. /\ os' \in {"linux", "openbsd", "freebsd"}
          /\ modules' \in Seq(Entry) /\ interval' \in Nat /\ i' \in 0 .. Len(modules') + 1
          /\ loop_count' \in 0 .. LoopLimit - 1 /\ Indices' = Indices
      BY <1>1, <1>6, <2>1 DEF Types, Indices
    <2>3. /\ counter' \in [Counters -> 0 .. MaxCount] /\ a' \in [Counters -> 0 .. MaxCount]
          /\ who' \in {0} \cup Indices' /\ DOMAIN mine' = Indices'
      BY <1>1, <1>6, <1>7, <2>2 DEF Types
    <2>4. Types'
      BY <1>5, <2>1, <2>2, <2>3 DEF Types
    <2> QED BY <2>4 DEF Answered
  <1>9. ASSUME NEW m \in Indices' PROVE Kept(m)'
    <2>1. m \in Indices
      BY <1>6 DEF Indices
    <2>2. CASE m # i
      <3>1. \A g \in DOMAIN static :
                static'[g] = static[g] \/ (i \in Indices \ {m} /\ g = modules[i].func)
        BY <1>1, <1>5, <2>2
      <3> QED BY <1>1, <1>6, <1>7, <2>1, <2>2, <3>1, OthersKept
    <2>3. CASE m = i
      <3>1. \A k \in Reads(e) : mine'[i][k] <= counter[k]
        <4>1. \A k \in Reads(e) : mine'[i][k] = counter[k]
          BY <1>7
        <4> QED BY <1>2, <1>3, <4>1
      <3>2. static'[f] = mine'[i][c]
        BY <1>2, <1>5, <1>7
      <3> QED BY <1>1, <1>6, <1>7, <2>3, <3>1, <3>2 DEF Kept
    <2> QED BY <2>2, <2>3
  <1>10. BusyTime' /\ PercRange'
    BY <1>1, <1>6 DEF BusyTime, NoWrap, PercRange, Known
  <1>11. ASSUME truth' # NULL, Alone(i)
         PROVE  /\ static'[f] \in 0 .. MaxCount /\ static[f] \in 0 .. static'[f]
                /\ Moved' = static'[f] - static[f]
    <2>1. static[f] = mine[i][c]
      BY <1>1, <1>7, <1>11 DEF Kept
    <2>2. mine[i][c] \in 0 .. counter[c]
      BY <1>2, <1>3, <1>7, <1>11
    <2>3. truth'[c] = counter[c] - mine[i][c]
      BY <1>2, <1>7, <1>11
    <2>4. Moved' = truth'[c]
      BY <1>1, <1>6 DEF Moved
    <2> QED BY <1>3, <1>5, <2>1, <2>2, <2>3, <2>4
  <1> QED BY <1>1, <1>4, <1>5, <1>8, <1>9, <1>10, <1>11

\* The difference of two counters, as uintmax_t.
LEMMA MinusRange ==
    /\ \A new, old \in 0 .. W - 1 : Minus(new, old) \in 0 .. W - 1
    /\ \A new \in 0 .. MaxCount : \A old \in 0 .. new : Minus(new, old) = new - old
  <1>1. W \in Nat \ {0} /\ MaxCount \in Nat /\ MaxCount < W
    BY Widths
  <1>2. ASSUME NEW new \in 0 .. W - 1, NEW old \in 0 .. W - 1
        PROVE  Minus(new, old) \in 0 .. W - 1
    <2>1. new - old \in Int
      OBVIOUS
    <2>2. \A d \in Int : d % W \in 0 .. W - 1
      BY <1>1
    <2> QED BY <2>1, <2>2 DEF Minus
  <1>3. ASSUME NEW new \in 0 .. MaxCount, NEW old \in 0 .. new
        PROVE  Minus(new, old) = new - old
    <2>1. new - old \in Nat /\ new - old < W
      BY <1>1
    <2> QED BY <1>1, <2>1, Small DEF Minus
  <1> QED BY <1>2, <1>3

\* The speed that is shown is within uintmax_t, and exact while the counter
\* did not go back.
LEMMA RateRange ==
    ASSUME interval \in Nat \ {0}
    PROVE  /\ \A new, old \in 0 .. W - 1 : Rate(new, old) \in 0 .. W - 1
           /\ \A new \in 0 .. MaxCount : \A old \in 0 .. new :
                  Rate(new, old) = ((new - old) * MsPerSec) \div interval
  <1>1. ASSUME NEW new \in 0 .. W - 1, NEW old \in 0 .. W - 1
        PROVE  Rate(new, old) \in 0 .. W - 1
    <2> DEFINE x == Minus(new, old) * MsPerSec % W
    <2>1. Minus(new, old) \in Nat
      BY MinusRange
    <2>2. Minus(new, old) * MsPerSec \in Nat
      BY <2>1
    <2>3. x \in 0 .. W - 1
      BY <2>2
    <2> HIDE DEF x
    <2>4. x <= (W - 1) * interval
      <3>1. (W - 1) * interval = (W - 1) + (W - 1) * (interval - 1)
        OBVIOUS
      <3>2. (W - 1) * (interval - 1) \in Nat
        OBVIOUS
      <3> QED BY <2>3, <3>1, <3>2
    <2>5. x \div interval \in 0 .. W - 1
      <3>1. x \in Nat /\ W - 1 \in Nat
        BY <2>3
      <3> QED BY <2>4, <3>1, DivBound
    <2> QED BY <2>5 DEF Rate, x
  <1>2. ASSUME NEW new \in 0 .. MaxCount, NEW old \in 0 .. new
        PROVE  Rate(new, old) = ((new - old) * MsPerSec) \div interval
    <2>1. Minus(new, old) = new - old /\ new - old \in 0 .. MaxCount
      BY MinusRange
    <2>2. (new - old) * MsPerSec \in Nat /\ (new - old) * MsPerSec < W
      BY <2>1, Widths
    <2>3. (new - old) * MsPerSec % W = (new - old) * MsPerSec
      BY <2>2, Small
    <2> QED BY <2>1, <2>3 DEF Rate
  <1> QED BY <1>1, <1>2

\* A speed or a number of bytes, computed from what was kept.
LEMMA OneCounterInv ==
    ASSUME IInv, NEW f \in Rates \cup Bytes, Calls(f), Noted, UNCHANGED a,
           static' = [static EXCEPT ![f] = counter[Source(modules[i])]],
           \/ /\ f \in Rates /\ (static[f] = 0 \/ interval # 0)
              /\ Answer(IF static[f] = 0 THEN NULL ELSE Rate(static'[f], static[f]))
           \/ /\ f \in Bytes
              /\ Answer(IF static[f] = 0 THEN NULL ELSE Minus(static'[f], static[f]) * Kilo % W)
    PROVE  IInv'
  <1>1. /\ Answer(result') /\ UNCHANGED <<modules, interval>> /\ who' = i /\ modules[i].func = f
        /\ interval \in Nat /\ W \in Nat \ {0} /\ Kilo \in Nat
    BY DEF Answer, Calls, IInv, Types
  <1>2. /\ (result' \in 0 .. W - 1 \cup {NULL}) => Types' /\ Answered'
        /\ \A m \in Indices' : Kept(m)'
        /\ BusyTime' /\ PercRange'
        /\ static[f] \in 0 .. W - 1 /\ static'[f] \in 0 .. W - 1
        /\ (truth' # NULL /\ Alone(i)) =>
              /\ static'[f] \in 0 .. MaxCount /\ static[f] \in 0 .. static'[f]
              /\ Moved' = static'[f] - static[f]
    BY <1>1, OneCounter
  <1>3. /\ f \in Rates /\ static[f] # 0 => result' = Rate(static'[f], static[f]) /\ interval # 0
        /\ f \in Bytes /\ static[f] # 0 => result' = Minus(static'[f], static[f]) * Kilo % W
        /\ static[f] = 0 => result' = NULL
        /\ Rates \cap Bytes = {}
    BY DEF Answer, Rates, Bytes
  <1>4. result' \in 0 .. W - 1 \cup {NULL}
    <2>1. CASE f \in Rates /\ static[f] # 0
      BY <1>1, <1>2, <1>3, <2>1, RateRange
    <2>2. CASE f \in Bytes /\ static[f] # 0
      <3>1. Minus(static'[f], static[f]) \in Nat
        BY <1>2, MinusRange
      <3>2. Minus(static'[f], static[f]) * Kilo \in Nat
        BY <1>1, <3>1
      <3> QED BY <1>1, <1>3, <2>2, <3>2
    <2> QED BY <1>3, <2>1, <2>2
  <1>5. OwnTraffic'
    <2>1. SUFFICES ASSUME truth' # NULL, Alone(i)
          PROVE  result' = CASE First' -> NULL
                             [] ~First' /\ f \in Rates -> (Moved' * MsPerSec) \div interval
                             [] ~First' /\ f \in Bytes -> Moved' * Kilo
      <3>1. Alone(who)' => Alone(i)
        BY <1>1 DEF Alone, Indices
      <3> QED BY <1>1, <3>1 DEF OwnTraffic, Known
    <2>2. /\ static'[f] \in 0 .. MaxCount /\ static[f] \in 0 .. static'[f]
          /\ Moved' = static'[f] - static[f]
      BY <1>2, <2>1
    <2>3. First' <=> static[f] = 0
      BY <1>1, <2>2 DEF First
    <2>4. CASE f \in Rates /\ static[f] # 0
      <3>1. result' = (Moved' * MsPerSec) \div interval
        BY <1>1, <1>3, <2>2, <2>4, RateRange
      <3> QED BY <1>3, <2>3, <2>4, <3>1
    <2>5. CASE f \in Bytes /\ static[f] # 0
      <3>1. Minus(static'[f], static[f]) = Moved' /\ Moved' \in 0 .. MaxCount
        BY <2>2, MinusRange
      <3>2. Moved' * Kilo \in Nat /\ Moved' * Kilo < W
        <4>1. \A n \in Nat : n * Kilo \in Nat
          BY <1>1
        <4>2. \A n \in 0 .. MaxCount : n * Kilo < W
          BY Widths
        <4> QED BY <3>1, <4>1, <4>2
      <3>3. result' = Moved' * Kilo
        BY <1>1, <1>3, <2>5, <3>1, <3>2, Small
      <3> QED BY <1>3, <2>3, <2>5, <3>3
    <2> QED BY <1>3, <2>3, <2>4, <2>5
  <1> QED BY <1>2, <1>4, <1>5 DEF IInv

\* A call that notes nothing leaves everything that is promised of the others.
LEMMA NotNotedInv ==
    ASSUME IInv, i \in Indices, Answer(result'), NotNoted, UNCHANGED a,
           result' \in 0 .. W - 1 \cup {NULL},
           modules[i].func = "io_perc" /\ result' # NULL => result' <= 100 * static'["io_perc"],
           static' \in [Rates \cup Bytes \cup {"io_perc"} -> 0 .. W - 1],
           \A f \in DOMAIN static : static'[f] = static[f] \/ f = modules[i].func
    PROVE  IInv'
  <1>1. /\ UNCHANGED <<os, modules, interval, loop_count, counter>> /\ who' = i /\ i' = i + 1
        /\ Types /\ \A m \in Indices : Kept(m)
    BY DEF Answer, IInv
  <1>2. DOMAIN mine' = Indices /\ mine'[i] = NULL /\ \A m \in Indices \ {i} : mine'[m] = mine[m]
    BY <1>1 DEF NotNoted, Types
  <1>3. Types' /\ Answered'
    <2>1. i' \in 0 .. Len(modules) + 1 /\ i' # 0
      BY <1>1 DEF Types, Indices
    <2> QED BY <1>1, <1>2, <2>1 DEF Types, Answered, Indices
  <1>4. ASSUME NEW m \in Indices' PROVE Kept(m)'
    <2>1. m \in Indices
      BY <1>1 DEF Indices
    <2>2. CASE m # i
      <3>1. \A f \in DOMAIN static :
                static'[f] = static[f] \/ (i \in Indices \ {m} /\ f = modules[i].func)
        BY <2>2
      <3> QED BY <1>1, <1>2, <2>1, <2>2, <3>1, OthersKept
    <2> QED BY <1>2, <2>2 DEF Kept
  <1>5. OwnTraffic' /\ BusyTime' /\ PercRange'
    BY <1>1 DEF NotNoted, OwnTraffic, BusyTime, NoWrap, PercRange, Known
  <1> QED BY <1>3, <1>4, <1>5 DEF IInv

LEMMA NetspeedInv ==
    ASSUME IInv, NEW f \in Rates, netspeed(f) \/ netspeed_bsd(f)
    PROVE  IInv'
  <1>1. CASE netspeed(f)
    BY <1>1, OneCounterInv DEF netspeed
  <1>2. CASE netspeed_bsd(f)
    <2>1. PICK if_ok \in BOOLEAN :
              /\ (if_ok /\ static[f] # 0) => interval # 0
              /\ static' = [static EXCEPT ![f] = IF if_ok THEN counter[Source(modules[i])] ELSE 0]
              /\ Answer(IF ~if_ok \/ static[f] = 0 THEN NULL ELSE Rate(static'[f], static[f]))
              /\ IF if_ok THEN Noted ELSE NotNoted
      BY <1>2 DEF netspeed_bsd
    <2>2. Calls(f) /\ UNCHANGED a
      BY <1>2 DEF netspeed_bsd
    <2>3. CASE if_ok = TRUE
      BY <2>1, <2>2, <2>3, OneCounterInv
    <2>4. CASE if_ok = FALSE
      <3>1. Answer(result') /\ result' = NULL /\ NotNoted /\ i \in Indices /\ modules[i].func = f
        BY <2>1, <2>2, <2>4 DEF Answer, Calls
      <3>2. static' = [static EXCEPT ![f] = 0]
        BY <2>1, <2>4
      <3>3. static \in [Rates \cup Bytes \cup {"io_perc"} -> 0 .. W - 1] /\ 0 \in 0 .. W - 1
        BY DEF IInv, Types
      <3>4. /\ static' \in [Rates \cup Bytes \cup {"io_perc"} -> 0 .. W - 1]
            /\ \A g \in DOMAIN static : static'[g] = static[g] \/ g = modules[i].func
        BY <3>1, <3>2, <3>3
      <3> QED BY <2>2, <3>1, <3>4, NotNotedInv
    <2> QED BY <2>3, <2>4
  <1> QED BY <1>1, <1>2

LEMMA IoInv ==
    ASSUME IInv, NEW f \in Bytes, io(f)
    PROVE  IInv'
  BY OneCounterInv DEF io

LEMMA ReadFailsInv ==
    ASSUME IInv, ReadFails
    PROVE  IInv'
  <1>1. /\ i \in Indices /\ Answer(result') /\ result' = NULL /\ NotNoted
        /\ UNCHANGED <<static, a>> /\ static \in [Rates \cup Bytes \cup {"io_perc"} -> 0 .. W - 1]
    BY DEF ReadFails, Calls, Answer, IInv, Types
  <1> QED BY <1>1, NotNotedInv

\* The time the devices were busy: what is not found is not added up.
LEMMA io_percInv ==
    ASSUME IInv, io_perc
    PROVE  IInv'
  <1> DEFINE e == modules[i]
             Old == static["io_perc"]
  <1>1. /\ Types /\ (\A m \in Indices : Kept(m)) /\ i \in Indices /\ e.func = "io_perc" /\ e \in Entry
        /\ UNCHANGED a /\ W \in Nat \ {0} /\ MaxCount \in Nat
    BY DEF IInv, io_perc, Calls, Types, Indices
  <1>2. Reads(e) = {"io_ticks"} \X Devices /\ Reads(e) \subseteq Counters
    BY <1>1, ReadsType
  <1>3. \A c \in Reads(e) : counter[c] \in 0 .. MaxCount
    BY <1>1, <1>2 DEF Types
  <1>4. PICK found \in SUBSET Reads(e) :
            /\ static' = [static EXCEPT !["io_perc"] = SumFunctionOnSet(counter, found)]
            /\ Answer(Percent(SumFunctionOnSet(counter, found), Old))
            /\ IF found = Reads(e) THEN Noted ELSE NotNoted
    BY DEF io_perc
  <1> DEFINE new == SumFunctionOnSet(counter, found)
  <1>5. new \in 0 .. MaxCount * Cardinality(Devices)
    <2>1. IsFiniteSet(found) /\ Cardinality(found) \in Nat /\ Cardinality(found) <= Cardinality(Devices)
      BY <1>2, TicksFinite, FS_Subset, FS_CardinalityType
    <2>2. new \in 0 .. MaxCount * Cardinality(found)
      BY <1>1, <1>3, <2>1, SumBound
    <2>3. MaxCount * Cardinality(found) <= MaxCount * Cardinality(Devices)
      <3>1. PICK d \in Nat : Cardinality(Devices) = Cardinality(found) + d
        <4>1. /\ Cardinality(Devices) - Cardinality(found) \in Nat
              /\ Cardinality(Devices) = Cardinality(found) + (Cardinality(Devices) - Cardinality(found))
          BY <2>1, TicksFinite
        <4> QED BY <4>1
      <3>2. MaxCount * Cardinality(Devices) = MaxCount * Cardinality(found) + MaxCount * d
        BY <1>1, <2>1, <3>1
      <3>3. MaxCount * d \in Nat /\ MaxCount * Cardinality(found) \in Nat
        BY <1>1, <2>1, <3>1
      <3> QED BY <3>2, <3>3
    <2>4. MaxCount * Cardinality(found) \in Nat /\ MaxCount * Cardinality(Devices) \in Nat
      BY <1>1, <2>1, TicksFinite
    <2> HIDE DEF new
    <2> QED BY <2>2, <2>3, <2>4
  <1>6. new \in Nat /\ new < W /\ 100 * new < W
    <2> HIDE DEF new
    <2>1. MaxCount * Cardinality(Devices) \in Nat
      BY <1>1, TicksFinite
    <2> QED BY <1>5, <2>1, Widths
  <1> HIDE DEF new
  <1>7. static \in [Rates \cup Bytes \cup {"io_perc"} -> 0 .. W - 1] /\ Old \in 0 .. W - 1
    BY <1>1 DEF Types
  <1>8. /\ static' \in [Rates \cup Bytes \cup {"io_perc"} -> 0 .. W - 1] /\ static'["io_perc"] = new
        /\ \A f \in DOMAIN static : static'[f] = static[f] \/ f = e.func
    BY <1>1, <1>4, <1>6, <1>7 DEF new
  <1>9. /\ UNCHANGED <<os, modules, interval, loop_count, counter>> /\ who' = i /\ i' = i + 1
        /\ result' = Percent(new, Old) /\ Answer(result')
    BY <1>4 DEF Answer, new
  <1>10. result' \in 0 .. W - 1 \cup {NULL}
    <2>1. (Old # 0 /\ ~(new < Old)) => 100 * (new - Old) \in Nat /\ 100 * (new - Old) < W
      BY <1>6, <1>7
    <2> QED BY <1>1, <1>9, <2>1, Small DEF Percent
  <1>w. result' # NULL => result' <= 100 * static'["io_perc"]
    <2>1. Old # 0 /\ ~(new < Old) => 100 * (new - Old) \in Nat /\ 100 * (new - Old) < W
                                    /\ 100 * (new - Old) <= 100 * new
      BY <1>6, <1>7
    <2> QED BY <1>1, <1>8, <1>9, <2>1, Small DEF Percent
  <1>11. CASE found # Reads(e)
    BY <1>1, <1>4, <1>8, <1>9, <1>10, <1>11, <1>w, NotNotedInv
  <1>12. CASE found = Reads(e)
    <2>1. Noted /\ new = SumFunctionOnSet(counter, Reads(e))
      BY <1>4, <1>12 DEF new
    <2>2. /\ DOMAIN mine' = Indices
          /\ \A m \in Indices \ {i} : mine'[m] = mine[m]
          /\ mine'[i] = [c \in Reads(e) |-> counter[c]]
          /\ mine'[i] \in [Reads(e) -> 0 .. MaxCount]
          /\ truth' # NULL =>
                /\ truth' = [c \in Reads(e) |-> counter[c] - mine[i][c]]
                /\ mine[i] # NULL /\ mine[i] \in [Reads(e) -> 0 .. MaxCount]
                /\ \A c \in Reads(e) : mine[i][c] <= counter[c]
      BY <1>1, <1>9, <2>1, NotedFacts
    <2>3. Types' /\ Answered'
      <3>1. i' \in 0 .. Len(modules) + 1 /\ i' # 0
        BY <1>1, <1>9 DEF Types, Indices
      <3> QED BY <1>1, <1>8, <1>9, <1>10, <2>2, <3>1 DEF Types, Answered, Indices
    <2>4. ASSUME NEW m \in Indices' PROVE Kept(m)'
      <3>1. m \in Indices
        BY <1>9 DEF Indices
      <3>2. CASE m # i
        <4>1. \A f \in DOMAIN static :
                  static'[f] = static[f] \/ (i \in Indices \ {m} /\ f = modules[i].func)
          BY <1>1, <1>8, <3>2
        <4> QED BY <1>1, <1>9, <2>2, <3>1, <3>2, <4>1, OthersKept
      <3>3. CASE m = i
        <4>1. SumFunction(mine'[i]) = new
          <5>1. DOMAIN mine'[i] = Reads(e) /\ \A c \in Reads(e) : counter[c] \in Int /\ mine'[i][c] = counter[c]
            BY <1>3, <2>2
          <5> QED BY <1>2, <2>1, <5>1, TicksFinite, SumSame DEF SumFunction
        <4>2. \A c \in Reads(e) : mine'[i][c] <= counter[c]
          BY <1>3, <2>2
        <4>3. e.func \notin Rates \cup Bytes \cup {"cpu_perc"}
          BY <1>1 DEF Rates, Bytes
        <4> QED BY <1>1, <1>8, <1>9, <2>2, <3>3, <4>1, <4>2, <4>3 DEF Kept
      <3> QED BY <3>2, <3>3
    <2>5. OwnTraffic' /\ PercRange'
      BY <1>1, <1>9 DEF OwnTraffic, PercRange, Known, Rates, Bytes
    <2>6. BusyTime'
      <3>1. SUFFICES ASSUME truth' # NULL, Alone(i)
            PROVE  result' = IF First' THEN NULL ELSE 100 * Moved'
        <4>1. Alone(who)' => Alone(i)
          BY <1>9 DEF Alone, Indices
        <4>2. NoWrap'
          BY <1>w DEF NoWrap
        <4> QED BY <1>1, <1>9, <4>1, <4>2 DEF BusyTime, Known
      <3>2. Old = SumFunctionOnSet(mine[i], Reads(e))
        BY <1>1, <2>2, <3>1 DEF Kept, SumFunction
      <3>3. Moved' = SumFunctionOnSet(truth', Reads(e))
        BY <1>1, <1>9, <2>2, <3>1 DEF Moved, SumFunction
      <3>4. \A c \in Reads(e) : /\ counter[c] \in Int /\ mine[i][c] \in Int
                                /\ truth'[c] = counter[c] - mine[i][c] /\ truth'[c] \in 0 .. MaxCount
        BY <1>1, <1>3, <2>2, <3>1
      <3>5. Moved' = new - Old
        BY <1>2, <2>1, <3>2, <3>3, <3>4, TicksFinite, SumDifference
      <3>6. Moved' \in Nat
        <4>1. Moved' \in 0 .. MaxCount * Cardinality(Reads(e))
          BY <1>1, <1>2, <3>3, <3>4, TicksFinite, SumBound
        <4> QED BY <4>1
      <3>7. First' <=> Old = 0
        BY <1>1, <1>6, <1>7, <1>8, <1>9, <3>5 DEF First
      <3>8. Old # 0 => result' = 100 * Moved'
        <4>1. Old # 0 => ~(new < Old)
          BY <1>6, <1>7, <3>5, <3>6
        <4>2. 100 * (new - Old) \in Nat /\ 100 * (new - Old) < W
          BY <1>6, <1>7, <3>5, <3>6
        <4> QED BY <1>1, <1>9, <3>5, <4>1, <4>2, Small DEF Percent
      <3> QED BY <1>9, <3>7, <3>8 DEF Percent
    <2> QED BY <2>3, <2>4, <2>5, <2>6 DEF IInv
  <1> QED BY <1>11, <1>12

\* The differences that cpu_perc takes while nothing has gone back, and the
\* two sums of them.
LEMMA SharesFit ==
    ASSUME NEW moved, Idle \in DOMAIN moved,
           moved[<<"user", NULL>>] \in 0 .. MaxCount, moved[<<"system", NULL>>] \in 0 .. MaxCount,
           moved[Idle] \in 0 .. MaxCount, Whole(moved) # 0
    PROVE  /\ Quotient(100 * Busy(moved), Whole(moved)) \in 0 .. 100
           /\ Unsigned(100 * Unsigned(Busy(moved), W), W) \div Unsigned(Whole(moved), W) \in 0 .. 100
  <1> DEFINE busy == Busy(moved)
             sum == Whole(moved)
  <1>1. busy \in Nat /\ sum \in Nat \ {0} /\ busy <= sum /\ sum <= 3 * MaxCount
    BY DEF Busy, Whole
  <1>2. W \in Nat /\ 300 * MaxCount < W
    BY ProductAssumption
  <1> HIDE DEF busy, sum
  <1>3. 100 * sum < W
    BY <1>1, <1>2
  <1>4. /\ Quotient(100 * busy, sum) \in 0 .. 100
        /\ Unsigned(100 * Unsigned(busy, W), W) \div Unsigned(sum, W) \in 0 .. 100
    BY <1>1, <1>2, <1>3, ShareRange
  <1> QED BY <1>4 DEF busy, sum

\* cpu_perc, on the three systems: what another module read last is as good as
\* the own reading.
LEMMA cpu_percInv ==
    ASSUME IInv, cpu_perc \/ cpu_perc_openbsd \/ cpu_perc_freebsd
    PROVE  IInv'
  <1> DEFINE e == modules[i]
             moved == [c \in Reads(e) |-> a'[c] - a[c]]
             First7 == a[<<"user", NULL>>] = 0 \/ Whole(moved) = 0
             Result(v) == result' = IF First7 THEN NULL ELSE v
  <1>1. /\ Calls("cpu_perc") /\ Answer(result') /\ Noted /\ UNCHANGED static
        /\ a' = [c \in Counters |-> IF c \in Reads(e) THEN counter[c] ELSE 0]
        /\ \/ Result(Quotient(100 * Busy(moved), Whole(moved)))
           \/ Result(Unsigned(100 * Unsigned(Busy(moved), W), W) \div Unsigned(Whole(moved), W))
    BY DEF cpu_perc, cpu_perc_openbsd, cpu_perc_freebsd, Sample, Answer
  <1> HIDE DEF moved
  <1>2. /\ Types /\ (\A m \in Indices : Kept(m)) /\ i \in Indices /\ e.func = "cpu_perc" /\ e \in Entry
        /\ W \in Nat \ {0} /\ MaxCount \in Nat
    BY <1>1 DEF IInv, Calls, Types, Indices
  <1>3. UNCHANGED <<os, modules, interval, loop_count, counter>> /\ who' = i /\ i' = i + 1
    BY <1>1 DEF Answer
  <1>4. /\ DOMAIN mine' = Indices
        /\ \A m \in Indices \ {i} : mine'[m] = mine[m]
        /\ mine'[i] = [c \in Reads(e) |-> counter[c]]
        /\ mine'[i] \in [Reads(e) -> 0 .. MaxCount]
        /\ truth' # NULL => mine[i] # NULL
    BY <1>1, <1>2, <1>3, NotedFacts
  <1>5. Reads(e) = {<<"user", NULL>>, <<"system", NULL>>, Idle} /\ Reads(e) \subseteq Counters
    BY <1>2, ReadsType
  <1>6. \A c \in Counters : counter[c] \in 0 .. MaxCount /\ a[c] \in 0 .. MaxCount
    BY <1>2 DEF Types
  <1>7. a' \in [Counters -> 0 .. MaxCount] /\ \A c \in Reads(e) : a'[c] = counter[c]
    BY <1>1, <1>2, <1>5, <1>6
  <1>8. Types' /\ Answered'
    <2>1. i' \in 0 .. Len(modules) + 1 /\ i' # 0
      BY <1>2, <1>3 DEF Types, Indices
    <2> QED BY <1>1, <1>2, <1>3, <1>4, <1>7, <2>1 DEF Types, Answered, Indices
  <1>9. ASSUME NEW m \in Indices' PROVE Kept(m)'
    <2>1. m \in Indices
      BY <1>3 DEF Indices
    <2>2. CASE m # i
      <3>1. \A f \in DOMAIN static :
                static'[f] = static[f] \/ (i \in Indices \ {m} /\ f = modules[i].func)
        BY <1>1
      <3>2. \A c \in Reads(modules[m]) : a'[c] = counter[c] \/ a'[c] = 0
        <4>1. modules[m] \in Entry
          BY <1>2, <2>1 DEF Types, Indices
        <4> QED BY <1>1, <4>1, ReadsType
      <3> QED BY <1>2, <1>3, <1>4, <2>1, <2>2, <3>1, <3>2, OthersKept
    <2>3. CASE m = i
      <3>1. \A c \in Reads(e) : mine'[i][c] <= counter[c] /\ a'[c] <= counter[c]
        <4>1. \A c \in Reads(e) : mine'[i][c] = counter[c] /\ counter[c] \in Nat
          BY <1>4, <1>5, <1>6
        <4> QED BY <1>7, <4>1
      <3>2. e.func \notin Rates \cup Bytes \cup {"io_perc"}
        BY <1>2 DEF Rates, Bytes
      <3> QED BY <1>2, <1>3, <1>4, <2>3, <3>1, <3>2 DEF Kept
    <2> QED BY <2>2, <2>3
  <1>10. OwnTraffic' /\ BusyTime'
    BY <1>2, <1>3 DEF OwnTraffic, BusyTime, NoWrap, Known, Rates, Bytes
  <1>11. PercRange'
    <2>1. SUFFICES ASSUME truth' # NULL, ~First7 PROVE result' \in 0 .. 100
      BY <1>1 DEF PercRange, Known
    <2>2. \A c \in Reads(e) : a[c] <= counter[c]
      BY <1>2, <1>4, <2>1 DEF Kept
    <2>3. \A c \in Reads(e) : moved[c] \in 0 .. MaxCount
      <3>1. ASSUME NEW c \in Reads(e) PROVE counter[c] - a[c] \in 0 .. MaxCount
        <4>1. c \in Counters /\ a[c] <= counter[c]
          BY <1>5, <2>2
        <4>2. counter[c] \in 0 .. MaxCount /\ a[c] \in 0 .. MaxCount /\ MaxCount \in Nat
          BY <1>2, <1>6, <4>1
        <4> QED  BY <4>1, <4>2
      <3> QED BY <1>7, <3>1 DEF moved
    <2>4. Idle \in DOMAIN moved
      BY <1>5 DEF moved
    <2> QED BY <1>1, <1>5, <2>1, <2>3, <2>4, SharesFit
  <1> QED BY <1>8, <1>9, <1>10, <1>11 DEF IInv

-----------------------------------------------------------------------------
(* The other steps *)

LEMMA WatchedCounters == Types => Watched \subseteq Counters
  <1>1. Types => \A m \in Indices : modules[m] \in Entry
    BY DEF Types, Indices
  <1> QED BY <1>1, ReadsType DEF Watched

LEMMA NextInv == IInv /\ [Next]_vars => IInv'
  <1> SUFFICES ASSUME IInv, [Next]_vars PROVE IInv'
    OBVIOUS
  <1> USE DEF IInv
  <1>1. /\ Types /\ \A m \in Indices : Kept(m)
        /\ Len(modules) \in Nat /\ LoopLimit \in Nat \ {0}
    BY DEF Types
  \* A step of none of the functions, which leaves what they keep and say.
  <1>2. ASSUME UNCHANGED <<os, modules, interval, counter, static, a, result, who, ghosts>>,
               i' \in 0 .. Len(modules) + 1, i' = 0 => interval = 0, loop_count' \in 0 .. LoopLimit - 1
        PROVE  IInv'
    <2>1. Types'
      BY <1>1, <1>2 DEF Types, Indices, ghosts
    <2>2. \A m \in Indices' : Kept(m)'
      BY <1>1, <1>2 DEF Kept, Indices, Alone, ghosts
    <2> QED BY <1>2, <2>1, <2>2
          DEF Answered, OwnTraffic, BusyTime, NoWrap, PercRange, Known, Alone, Indices, First, Moved, ghosts
  <1>3. CASE ReadFails
    BY <1>3, ReadFailsInv
  <1>4. CASE Crash
    BY <1>1, <1>2, <1>4 DEF Crash, Types
  <1>5. CASE io_perc
    BY <1>5, io_percInv
  <1>6. CASE SkipModule
    <2>1. i' \in 0 .. Len(modules) + 1 /\ i' # 0
      BY <1>1, <1>6 DEF SkipModule, Types, Indices
    <2> QED BY <1>1, <1>2, <1>6, <2>1 DEF SkipModule, Types
  <1>7. CASE EndRound
    <2>1. loop_count' \in 0 .. LoopLimit - 1 /\ i' = 1
      BY <1>1, <1>7 DEF EndRound, Types
    <2> QED BY <1>1, <1>2, <1>7, <2>1 DEF EndRound
  <1>8. CASE cpu_perc \/ cpu_perc_openbsd \/ cpu_perc_freebsd
    BY <1>8, cpu_percInv
  <1>9. CASE \E f \in Rates : netspeed(f) \/ netspeed_bsd(f)
    BY <1>9, NetspeedInv
  <1>10. CASE \E f \in Bytes : io(f)
    BY <1>10, IoInv
  <1>11. ASSUME NEW c \in Watched, Grow(c) PROVE IInv'
    <2>1. /\ UNCHANGED <<os, modules, interval, loop_count, i, static, a, result, who, ghosts>>
          /\ counter' = [counter EXCEPT ![c] = @ + 1] /\ counter[c] < MaxCount
      BY <1>11 DEF Grow
    <2>2. \A d \in Counters : counter[d] \in 0 .. MaxCount
      BY <1>1 DEF Types
    <2>3. counter' \in [Counters -> 0 .. MaxCount] /\ \A d \in Counters : counter'[d] >= counter[d]
      <3>1. c \in Counters /\ counter[c] + 1 \in 0 .. MaxCount
        BY <1>1, <2>1, <2>2, WatchedCounters
      <3>2. counter \in [Counters -> 0 .. MaxCount]
        BY <1>1 DEF Types
      <3>3. counter' \in [Counters -> 0 .. MaxCount]
        BY <2>1, <3>1, <3>2
      <3>4. counter'[c] = counter[c] + 1 /\ \A d \in Counters \ {c} : counter'[d] = counter[d]
        BY <2>1, <3>1, <3>2
      <3> QED BY <2>2, <3>3, <3>4
    <2>4. Types'
      BY <1>1, <2>1, <2>3 DEF Types, Indices, ghosts
    <2>5. ASSUME NEW m \in Indices' PROVE Kept(m)'
      <3>1. m \in Indices /\ Kept(m) /\ modules[m] \in Entry
        BY <1>1, <2>1 DEF Indices, Types
      <3>2. Reads(modules[m]) \subseteq Counters
        BY <3>1, ReadsType
      <3>3. a \in [Counters -> 0 .. MaxCount]
        BY <1>1 DEF Types
      <3> QED BY <2>1, <2>2, <2>3, <3>1, <3>2, <3>3 DEF Kept, Alone, Indices, ghosts
    <2> QED BY <2>1, <2>4, <2>5
          DEF Answered, OwnTraffic, BusyTime, NoWrap, PercRange, Known, Alone, Indices, First, Moved, ghosts
  <1>12. ASSUME NEW c \in Watched, GoBack(c) PROVE IInv'
    <2>1. /\ UNCHANGED <<os, modules, interval, loop_count, i, static, a, result, who>> /\ counter[c] > 0
          /\ counter' = [counter EXCEPT ![c] = IF c = Idle THEN @ - 1 ELSE 0] /\ truth' = NULL
          /\ mine' = [m \in Indices |-> IF c \in Reads(modules[m]) THEN NULL ELSE mine[m]]
      BY <1>12 DEF GoBack
    <2>2. \A d \in Counters : counter[d] \in 0 .. MaxCount
      BY <1>1 DEF Types
    <2>3. counter' \in [Counters -> 0 .. MaxCount] /\ \A d \in Counters \ {c} : counter'[d] = counter[d]
      <3>1. c \in Counters /\ counter[c] - 1 \in 0 .. MaxCount /\ 0 \in 0 .. MaxCount
        BY <1>1, <2>1, <2>2, WatchedCounters
      <3>2. counter \in [Counters -> 0 .. MaxCount]
        BY <1>1 DEF Types
      <3> QED BY <2>1, <3>1, <3>2
    <2>4. Types'
      BY <1>1, <2>1, <2>3 DEF Types, Indices
    <2>5. ASSUME NEW m \in Indices' PROVE Kept(m)'
      <3>1. m \in Indices /\ Kept(m) /\ modules[m] \in Entry
        BY <1>1, <2>1 DEF Indices, Types
      <3>2. Reads(modules[m]) \subseteq Counters
        BY <3>1, ReadsType
      <3>3. mine'[m] # NULL => c \notin Reads(modules[m]) /\ mine'[m] = mine[m]
        BY <2>1, <3>1
      <3> QED BY <2>1, <2>3, <3>1, <3>2, <3>3 DEF Kept, Alone, Indices
    <2> QED BY <2>1, <2>4, <2>5
          DEF Answered, OwnTraffic, BusyTime, NoWrap, PercRange, Known
  <1>13. CASE UNCHANGED vars
    BY <1>1, <1>2, <1>13 DEF vars, Types
  <1> QED BY <1>3, <1>4, <1>5, <1>6, <1>7, <1>8, <1>9, <1>10, <1>11, <1>12, <1>13 DEF Next

LEMMA Invariance == Spec => []IInv
  BY InitInv, NextInv, PTL DEF Spec

-----------------------------------------------------------------------------
(* The theorems *)

\* Types, and what the functions keep and answer is within uintmax_t.
THEOREM SamplersTypes == Spec => []TypeOK
  <1>1. IInv => TypeOK
    BY DEF IInv, Types, Answered, TypeOK
  <1> QED BY <1>1, Invariance, PTL

\* A module that is the only one of its function shows the traffic of its own
\* counter between its last two calls (netspeeds.c:18-33, 66-94; iocheck.c:
\* 67-76, 85-94).
THEOREM TrafficIsItsOwn == Spec => []OwnTraffic
  <1>1. IInv => OwnTraffic
    BY DEF IInv
  <1> QED BY <1>1, Invariance, PTL

\* The same of io_perc for any finite set of devices, however many of them are
\* found at each call (iocheck.c:106-149).
THEOREM BusyTimeIsItsOwn == Spec => []BusyTime
  <1>1. IInv => BusyTime
    BY DEF IInv
  <1> QED BY <1>1, Invariance, PTL

\* cpu_perc shows a percentage, although all its modules share a[7] (cpu.c:
\* 30-48, 88-106, 137-155).
THEOREM PercentageInRange == Spec => []PercRange
  <1>1. IInv => PercRange
    BY DEF IInv
  <1> QED BY <1>1, Invariance, PTL
=============================================================================
