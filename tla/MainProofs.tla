----------------------------- MODULE MainProofs -----------------------------
(* Theorems about what main() does around the rounds of its loop: the lock    *)
(* file, for any number of processes and files; the configuration, of which   *)
(* there is one whatever is in the file, and if it cannot be read at all; and *)
(* the pacing, for every interval and every number of nanoseconds a second.   *)
EXTENDS InstanceLock, Config, Pacing, TLAPS

USE NoneAssumption

\* Without a race every process that has the lock file open has the file that
\* the path names, and so all compete for one lock.
OneFile == ~raced => \A p \in Procs : fd[p] # None => fd[p] = path

IInv == TypeOK /\ NoStaleLock /\ OneFile

\* Two holders of the lock of one file are the same process.
LEMMA Excludes == IInv => ExclusiveUnlessRaced
  <1> SUFFICES ASSUME IInv, ~raced, NEW p \in Holders, NEW q \in Holders PROVE p = q
    BY DEF ExclusiveUnlessRaced, MutualExclusion
  <1>1. fd[p] # None /\ fd[q] # None /\ lock[fd[p]] = p /\ lock[fd[q]] = q
    BY DEF IInv, TypeOK, Holders
  <1>2. fd[p] = path /\ fd[q] = path
    BY <1>1 DEF IInv, OneFile, Holders
  <1> QED BY <1>1, <1>2

\* The invariant holds initially.
LEMMA InitInv == Init => IInv
  BY DEF Init, IInv, TypeOK, NoStaleLock, OneFile, Alive, Ended, Options

\* The end of a process keeps the types of what it releases, frees its locks
\* and no others.
LEMMA EndsType ==
    ASSUME TypeOK, NEW p \in Procs, Ends(p)
    PROVE  /\ fd' \in [Procs -> Inodes \cup {None}]
           /\ lock' \in [Inodes -> Procs \cup {None}]
           /\ fd'[p] = None
           /\ \A q \in Procs \ {p} : fd'[q] = fd[q]
           /\ \A f \in Inodes : lock'[f] # None => lock'[f] = lock[f] /\ lock[f] # p
           /\ \A f \in Inodes : lock[f] # p => lock'[f] = lock[f]
  BY DEF Ends, TypeOK

\* A process that ends keeps the invariant, whichever way it ends.
LEMMA EndsInv ==
    ASSUME IInv, NEW p \in Procs, Ends(p), NEW e \in Ended,
           pc' = [pc EXCEPT ![p] = e], UNCHANGED <<opt, path, raced>>
    PROVE  IInv'
  <1>1. e \notin {"opened", "args", "running", "unlocked"}
    BY DEF Ended
  <1>2. TypeOK'
    BY <1>1, EndsType DEF IInv, TypeOK
  <1>3. NoStaleLock'
    BY EndsType DEF IInv, NoStaleLock, TypeOK
  <1>4. OneFile'
    BY EndsType DEF IInv, OneFile
  <1> QED BY <1>2, <1>3, <1>4 DEF IInv

\* Every step keeps it.
LEMMA NextInv == IInv /\ [Next]_vars => IInv'
  <1> SUFFICES ASSUME IInv, [Next]_vars PROVE IInv'
    OBVIOUS
  <1> USE DEF Goto, Alive, Ended
  <1>1. ASSUME NEW p \in Procs, Open(p) PROVE IInv'
    <2>1. path' \in Inodes /\ (path # None => path' = path)
      BY <1>1 DEF Open, IInv, TypeOK
    <2>2. fd' = [fd EXCEPT ![p] = path'] /\ pc' = [pc EXCEPT ![p] = "opened"]
      BY <1>1 DEF Open
    <2>3. TypeOK'
      BY <1>1, <2>1, <2>2 DEF Open, IInv, TypeOK
    <2>4. NoStaleLock'
      BY <1>1, <2>2 DEF Open, IInv, TypeOK, NoStaleLock
    <2>5. OneFile'
      BY <1>1, <2>1, <2>2 DEF Open, IInv, TypeOK, OneFile
    <2> QED BY <2>3, <2>4, <2>5 DEF IInv
  <1>2. ASSUME NEW p \in Procs, OpenFails(p) PROVE IInv'
    BY <1>2 DEF OpenFails, IInv, TypeOK, NoStaleLock, OneFile
  <1>3. ASSUME NEW p \in Procs, Acquire(p) PROVE IInv'
    <2>1. /\ fd[p] \in Inodes /\ lock[fd[p]] = None /\ pc[p] = "opened"
          /\ lock' = [lock EXCEPT ![fd[p]] = p] /\ pc' = [pc EXCEPT ![p] = "args"]
          /\ UNCHANGED <<opt, path, fd, raced>>
      BY <1>3 DEF Acquire, IInv, TypeOK
    <2>2. TypeOK'
      BY <2>1 DEF IInv, TypeOK
    <2>3. NoStaleLock'
      BY <2>1 DEF IInv, TypeOK, NoStaleLock
    <2>4. OneFile'
      BY <2>1 DEF IInv, OneFile
    <2> QED BY <2>2, <2>3, <2>4 DEF IInv
  <1>4. ASSUME NEW p \in Procs, Refused(p) \/ Kill(p) PROVE IInv'
    BY <1>4, EndsInv DEF Refused, Kill
  <1>5. ASSUME NEW p \in Procs, ParseArgs(p) PROVE IInv'
    <2>1. CASE opt[p] = "none"
      <3>1. /\ pc[p] = "args" /\ pc' = [pc EXCEPT ![p] = "running"]
            /\ UNCHANGED <<opt, path, fd, lock, raced>>
        BY <1>5, <2>1 DEF ParseArgs
      <3> QED BY <3>1 DEF IInv, TypeOK, NoStaleLock, OneFile
    <2>2. CASE opt[p] # "none"
      BY <1>5, <2>2, EndsInv DEF ParseArgs
    <2> QED BY <2>1, <2>2
  <1>6. ASSUME NEW p \in Procs, Unlock(p) PROVE IInv'
    <2>1. /\ fd[p] \in Inodes /\ lock[fd[p]] = p /\ pc[p] = "running"
          /\ lock' = [lock EXCEPT ![fd[p]] = None] /\ pc' = [pc EXCEPT ![p] = "unlocked"]
          /\ UNCHANGED <<opt, path, fd, raced>>
      BY <1>6 DEF Unlock, IInv, TypeOK
    <2>2. TypeOK'
      BY <2>1 DEF IInv, TypeOK
    <2>3. NoStaleLock'
      BY <2>1 DEF IInv, TypeOK, NoStaleLock
    <2>4. OneFile'
      BY <2>1 DEF IInv, OneFile
    <2> QED BY <2>2, <2>3, <2>4 DEF IInv
  <1>7. ASSUME NEW p \in Procs, Close(p) PROVE IInv'
    <2>1. /\ pc[p] = "unlocked"
          /\ fd' = [fd EXCEPT ![p] = None] /\ pc' = [pc EXCEPT ![p] = "closed"]
          /\ UNCHANGED <<opt, path, lock, raced>>
      BY <1>7 DEF Close
    <2> QED BY <2>1 DEF IInv, TypeOK, NoStaleLock, OneFile
  <1>8. ASSUME NEW p \in Procs, Unlink(p) PROVE IInv'
    <2>1. /\ pc[p] = "closed" /\ pc' = [pc EXCEPT ![p] = "exited"] /\ path' = None
          /\ raced' = (raced \/ \E q \in Procs : fd[q] # None /\ fd[q] = path)
          /\ UNCHANGED <<opt, fd, lock>>
      BY <1>8 DEF Unlink
    <2>2. TypeOK'
      BY <2>1 DEF IInv, TypeOK
    <2>3. NoStaleLock'
      BY <2>1 DEF IInv, TypeOK, NoStaleLock
    <2>4. OneFile'
      BY <2>1 DEF IInv, TypeOK, OneFile
    <2> QED BY <2>2, <2>3, <2>4 DEF IInv
  <1>9. ASSUME NEW p \in Procs, Start(p) PROVE IInv'
    <2>1. /\ pc[p] \in Ended /\ pc' = [pc EXCEPT ![p] = "start"]
          /\ opt' \in [Procs -> Options] /\ UNCHANGED <<path, fd, lock, raced>>
      BY <1>9 DEF Start, IInv, TypeOK
    <2> QED BY <2>1 DEF IInv, TypeOK, NoStaleLock, OneFile
  <1>10. ASSUME NEW p \in Procs, Prepare(p) PROVE IInv'
    BY <1>10 DEF Prepare, IInv, TypeOK, NoStaleLock, OneFile
  <1>11. CASE UNCHANGED vars
    BY <1>11 DEF vars, IInv, TypeOK, NoStaleLock, OneFile
  <1> QED BY <1>1, <1>2, <1>3, <1>4, <1>5, <1>6, <1>7, <1>8, <1>9, <1>10, <1>11 DEF Next, Work

\* The invariant holds in every state.
THEOREM LockInvariant == Spec => []IInv
  BY InitInv, NextInv, PTL DEF Spec

\* A lock is always that of a live instance: a crash cannot keep the program
\* from starting again.
THEOREM CrashSafe == Spec => []NoStaleLock
  BY LockInvariant, PTL DEF IInv

\* The race of an unlink with an open is the only way to two instances.
THEOREM Exclusion == Spec => []ExclusiveUnlessRaced
  BY LockInvariant, Excludes, PTL

\* Types, and that a lock is only on a file that its holder has open, for any
\* number of processes (lines 87-172).
THEOREM LockTypes == Spec => []TypeOK
  BY LockInvariant, PTL DEF IInv

-----------------------------------------------------------------------------
(* The configuration *)

HIDE NoneAssumption

\* The lookups give a value of the file or leave the old one.
LEMMA StringOrOld ==
    ASSUME NEW group \in Entry, NEW name, NEW old
    PROVE  lookup_strdup(group, name, old) \in Strings \cup {old}
<1>1. SUFFICES ASSUME Has(group, name, "string")
               PROVE  group[name].val \in Strings
  BY DEF lookup_strdup
<1>2. group[name] \in Setting
  BY <1>1 DEF Has, Entry
<1> QED BY <1>1, <1>2 DEF Has, Setting

\* The detour by a signed int keeps negative values out: a module's period is a
\* natural number, which may be 0.
LEMMA UnsignedOrOld ==
    ASSUME NEW group \in Entry, NEW name, NEW old \in Nat
    PROVE  lookup_unsigned_int(group, name, old) \in Nat
<1>1. SUFFICES ASSUME name \in DOMAIN group
               PROVE  get_int(group[name]) \in Int
  BY DEF lookup_unsigned_int
<1>2. group[name] \in Setting
  BY <1>1 DEF Entry
<1>3. CASE group[name].type = "int"
  BY <1>2, <1>3 DEF get_int, Setting
<1>4. CASE group[name].type # "int"
  BY <1>4 DEF get_int
<1> QED BY <1>3, <1>4

\* A group of the list, with whatever settings of whatever types, becomes a
\* module; only func, args and status_no may be missing from it.
LEMMA ModuleLoaded ==
    ASSUME NEW entry \in Entry
    PROVE  load_module(entry) \in arg
<1>1. (IF Has(entry, "function", "string")
       THEN parse_function(entry["function"].val) ELSE NULL) \in Functions \cup {"datetime", NULL}
  BY DEF parse_function
<1>2. lookup_strdup(entry, "format", "%s") \in Strings \cup {"%s"}
  BY StringOrOld
<1>3. lookup_strdup(entry, "argument", NULL) \in Strings \cup {NULL}
  BY StringOrOld
<1>4. lookup_strdup(entry, "status_no", NULL) \in Strings \cup {NULL}
  BY StringOrOld
<1>5. lookup_unsigned_int(entry, "update_interval", 1) \in Nat
  BY UnsignedOrOld
<1> QED BY <1>1, <1>2, <1>3, <1>4, <1>5 DEF load_module, arg

\* load_config, in any environment, from a file that is not there, cannot be
\* read, has no list of modules, an empty one, or any other: there is at least
\* one module, and each is sound but for what ModuleLoaded names.  The loop's
\* `modules` is never NULL and num_modules never 0 or that of another table
\* (conf.c:170, 211).  Loading ends in no other way, unless an entry has no
\* status_no and neither it nor one before it has a function, of which the
\* warning about the status_no prints a name (conf.c:230).
THEOREM SomethingToShow ==
    ASSUME NEW env, NEW paths, NEW disk \in [paths -> File],
           NEW conf \in load_config(env, disk)
    PROVE  LET list == read_file(env, disk).modules
           IN  \/ conf.modules \in Seq(arg) \ {<<>>}
               \/ conf = CRASH /\ list # NULL /\ prints_unset(list)
<1>1. Fallback \in Seq(arg) \ {<<>>}
  BY DEF Fallback, arg
<1>2. ASSUME NEW list \in Seq(Entry) \cup {NULL}
      PROVE  load_modules(list) \in Seq(arg) \ {<<>>}
  <2>1. CASE list = NULL \/ list = <<>>
    BY <1>1, <2>1 DEF load_modules
  <2>2. CASE ~(list = NULL \/ list = <<>>)
    <3>1. list \in Seq(Entry) /\ Len(list) \in Nat \ {0}
      BY <1>2, <2>2
    <3>2. \A k \in 1 .. Len(list) : load_module(list[k]) \in arg
      BY <3>1, ModuleLoaded
    <3>3. load_modules(list) = [k \in 1 .. Len(list) |-> load_module(list[k])]
      BY <2>2 DEF load_modules
    <3>4. load_modules(list) \in Seq(arg) /\ Len(load_modules(list)) = Len(list)
      BY <3>1, <3>2, <3>3
    <3> QED BY <3>1, <3>4
  <2> QED BY <2>1, <2>2
<1> DEFINE where == get_config_path(env)
           file  == IF where \in DOMAIN disk THEN disk[where] ELSE [read |-> FALSE]
           list  == read_file(env, disk).modules
<1>3. list \in Seq(Entry) \cup {NULL}
  <2>1. CASE where \in DOMAIN disk
    <3>1. file \in File
      BY <2>1
    <3> QED BY <3>1 DEF File, read_file
  <2>2. CASE where \notin DOMAIN disk
    BY <2>2 DEF read_file
  <2> QED BY <2>1, <2>2
<1> HIDE DEF list
<1>4. CASE conf.modules = load_modules(list)
  BY <1>2, <1>3, <1>4 DEF list
<1>5. CASE conf = CRASH /\ list # NULL /\ prints_unset(list)
  BY <1>5 DEF list
<1>6. conf.modules = load_modules(list) \/ (conf = CRASH /\ list # NULL /\ prints_unset(list))
  BY DEF load_config, list
<1> QED BY <1>4, <1>5, <1>6

-----------------------------------------------------------------------------
(* Pacing *)

\* There is at least one nanosecond in a second.
LEMMA NSType == NS \in Nat /\ NS > 0
  <1>1. \A m, k \in Nat \ {0} : m * k \in Nat /\ m * k > 0
    OBVIOUS
  <1> QED BY <1>1, UnitsAssumption DEF NS

\* difftimespec (slstatus.c:40) of two timespecs is normalised.
THEOREM DiffNormalized ==
    ASSUME NEW a \in Timespec, NEW b \in Timespec
    PROVE  difftimespec(a, b) \in Timespec
  <1>1. a.sec \in Int /\ b.sec \in Int /\ a.nsec \in 0 .. NS - 1 /\ b.nsec \in 0 .. NS - 1
    BY DEF Timespec
  <1>2. CASE a.nsec < b.nsec
    <2>1. difftimespec(a, b) = [sec |-> a.sec - b.sec - 1, nsec |-> a.nsec - b.nsec + NS]
      BY <1>1, <1>2, NSType DEF difftimespec
    <2>2. a.nsec - b.nsec + NS \in 0 .. NS - 1
      BY <1>1, <1>2, NSType
    <2> QED BY <1>1, <2>1, <2>2 DEF Timespec
  <1>3. CASE ~(a.nsec < b.nsec)
    <2>1. difftimespec(a, b) = [sec |-> a.sec - b.sec, nsec |-> a.nsec - b.nsec]
      BY <1>1, <1>3, NSType DEF difftimespec
    <2>2. a.nsec - b.nsec \in 0 .. NS - 1
      BY <1>1, <1>3, NSType
    <2> QED BY <1>1, <2>1, <2>2 DEF Timespec
  <1> QED BY <1>2, <1>3

\* difftimespec subtracts: the borrow neither creates nor loses time.
THEOREM DiffTotal ==
    ASSUME NEW a \in Timespec, NEW b \in Timespec
    PROVE  Total(difftimespec(a, b)) = Total(a) - Total(b)
  <1>1. a.sec \in Int /\ b.sec \in Int /\ a.nsec \in Int /\ b.nsec \in Int
    BY NSType DEF Timespec
  <1>2. ASSUME NEW x \in Int, NEW y \in Int, NEW n \in Int
        PROVE  /\ (x - y) * n = x * n - y * n
               /\ (x - y - 1) * n = x * n - y * n - n
    OBVIOUS
  <1>3. /\ (a.sec - b.sec) * NS = a.sec * NS - b.sec * NS
        /\ (a.sec - b.sec - 1) * NS = a.sec * NS - b.sec * NS - NS
    BY <1>1, <1>2, NSType
  <1>4. a.sec * NS \in Int /\ b.sec * NS \in Int
    BY <1>1, NSType
  <1>5. CASE a.nsec < b.nsec
    <2>1. Total(difftimespec(a, b))
            = (a.sec - b.sec - 1) * NS + (a.nsec - b.nsec + NS)
      BY <1>1, <1>5, NSType DEF Total, difftimespec
    <2> QED BY <2>1, <1>1, <1>3, <1>4, NSType DEF Total
  <1>6. CASE ~(a.nsec < b.nsec)
    <2>1. Total(difftimespec(a, b)) = (a.sec - b.sec) * NS + (a.nsec - b.nsec)
      BY <1>1, <1>6, NSType DEF Total, difftimespec
    <2> QED BY <2>1, <1>1, <1>3, <1>4, NSType DEF Total
  <1> QED BY <1>5, <1>6

\* The sign of the seconds is the sign of the time: the test of line 159 is
\* whether anything is left of the interval.
LEMMA SecondsSign ==
    ASSUME NEW t \in Timespec
    PROVE  /\ Total(t) \in Int
           /\ t.sec >= 0 => Total(t) >= 0
           /\ ~(t.sec >= 0) => Total(t) < 0
  <1>1. t.sec \in Int /\ t.nsec \in 0 .. NS - 1
    BY DEF Timespec
  <1>2. ASSUME NEW s \in Int, NEW n \in Nat
        PROVE  /\ s * n \in Int
               /\ s >= 0 => s * n >= 0
               /\ ~(s >= 0) => s * n <= -n
    <2>1. s * n \in Int
      OBVIOUS
    <2>2. s >= 0 => s * n >= 0
      OBVIOUS
    <2>3. ASSUME s <= -1 PROVE s * n <= -n
      <3>1. (-1 - s) * n >= 0
        BY <2>3
      <3>2. (-1 - s) * n = -n - s * n
        OBVIOUS
      <3> QED BY <3>1, <3>2, <2>1
    <2> QED BY <2>1, <2>2, <2>3
  <1> QED BY <1>1, <1>2, NSType DEF Total

\* intspec (lines 155-156) is normalised and stands for the interval.
LEMMA IntspecTotal ==
    ASSUME NEW ms \in Nat
    PROVE  intspec(ms) \in Timespec /\ Total(intspec(ms)) = ms * NsPerMs
  <1> DEFINE q == ms \div MsPerSec
             r == ms % MsPerSec
  <1>1. q \in Nat /\ r \in 0 .. MsPerSec - 1 /\ ms = MsPerSec * q + r
    BY UnitsAssumption
  <1> HIDE DEF q, r
  <1>2. ASSUME NEW m \in Nat \ {0}, NEW k \in Nat \ {0}, NEW x \in 0 .. m - 1
        PROVE  x * k \in 0 .. m * k - 1
    <2>1. x * k \in Nat /\ m * k \in Nat
      OBVIOUS
    <2>2. (m - x - 1) * k >= 0 /\ (m - x - 1) * k = m * k - x * k - k
      OBVIOUS
    <2> QED BY <2>1, <2>2
  <1>3. intspec(ms) = [sec |-> q, nsec |-> r * NsPerMs]
    BY DEF intspec, q, r
  <1>4. intspec(ms) \in Timespec
    BY <1>1, <1>2, <1>3, UnitsAssumption DEF Timespec, NS
  <1>5. ASSUME NEW m \in Nat, NEW k \in Nat, NEW x \in Nat, NEW y \in Nat
        PROVE  y * (m * k) + x * k = (m * y + x) * k
    OBVIOUS
  <1>6. r \in Nat
    BY <1>1, UnitsAssumption
  <1>7. q * (MsPerSec * NsPerMs) + r * NsPerMs = (MsPerSec * q + r) * NsPerMs
    BY <1>1, <1>5, <1>6, UnitsAssumption
  <1> QED BY <1>1, <1>3, <1>4, <1>7 DEF Total, NS
-----------------------------------------------------------------------------
(* The inductive invariant: the order in which the readings were taken is    *)
(* what the properties rest on.                                              *)

Ordered ==
    /\ Total(start) <= Total(now)
    /\ Total(ended) <= Total(now)
    /\ Total(began) <= Total(now)
    /\ at \in {"nanosleep", "asleep"} => Total(start) <= Total(ended)
    /\ at = "asleep" => Total(ended) <= Total(began)

Paced == PTypeOK /\ NeverDies /\ Ordered /\ SleepsTheRest /\ KeepsPeriod

\* A clock value is a timespec, so its total is an integer.
LEMMA ClockTotal ==
    ASSUME NEW t \in Clock
    PROVE  t \in Timespec /\ Total(t) \in Int
  <1>1. t \in Timespec
    BY PacingAssumption DEF Clock, Timespec
  <1> QED BY <1>1, SecondsSign

\* The length of the interval in nanoseconds.
LEMMA IntervalInt == interval * NsPerMs \in Nat
  <1>1. \A m, k \in Nat : m * k \in Nat
    OBVIOUS
  <1> QED BY <1>1, PacingAssumption, UnitsAssumption

\* The invariant holds initially.
LEMMA InitPaced == PInit => Paced
  <1> SUFFICES ASSUME PInit PROVE Paced
    OBVIOUS
  <1>1. now \in Timespec /\ Total(now) \in Int
    BY ClockTotal DEF PInit
  <1> QED BY <1>1 DEF PInit, Paced, PTypeOK, NeverDies, Ordered, SleepsTheRest, KeepsPeriod

\* Every step keeps it.
LEMMA NextPaced == Paced /\ [PNext]_pvars => Paced'
  <1> SUFFICES ASSUME Paced, [PNext]_pvars PROVE Paced'
    OBVIOUS
  <1>1. /\ now \in Timespec /\ start \in Timespec /\ began \in Timespec /\ ended \in Timespec
        /\ Total(now) \in Int /\ Total(start) \in Int
        /\ Total(began) \in Int /\ Total(ended) \in Int
    BY ClockTotal DEF Paced, PTypeOK
  <1>2. Total(snooze) \in Int
    BY SecondsSign DEF Paced, PTypeOK
  <1>3. CASE Elapse
    <2>1. now' \in Timespec /\ Total(now') \in Int
      BY <1>3, ClockTotal DEF Elapse
    <2>2. /\ Total(now)' = Total(now') /\ Total(start)' = Total(start)
          /\ Total(began)' = Total(began) /\ Total(ended)' = Total(ended)
          /\ Total(snooze)' = Total(snooze)
      BY <1>3 DEF Elapse, Total
    <2> QED BY <1>1, <1>2, <1>3, <2>1, <2>2, IntervalInt
            DEF Elapse, Paced, PTypeOK, NeverDies, Ordered, SleepsTheRest, KeepsPeriod
  <1>4. CASE BeginRound
    BY <1>1, <1>4 DEF BeginRound, Paced, PTypeOK, NeverDies, Ordered, SleepsTheRest, KeepsPeriod, Total
  <1>5. CASE Measure
    <2> DEFINE elapsed == difftimespec(now, start)
               rest    == difftimespec(intspec(interval), elapsed)
    <2>1. elapsed \in Timespec /\ Total(elapsed) = Total(now) - Total(start)
      BY <1>1, DiffNormalized, DiffTotal
    <2>a. intspec(interval) \in Timespec /\ Total(intspec(interval)) = interval * NsPerMs
      BY IntspecTotal, PacingAssumption
    <2>b. rest \in Timespec /\ Total(rest) = Total(intspec(interval)) - Total(elapsed)
      <3> HIDE DEF elapsed
      <3> QED BY <2>1, <2>a, DiffNormalized, DiffTotal
    <2>2. /\ rest \in Timespec
          /\ Total(rest) = interval * NsPerMs - (Total(now) - Total(start))
      <3> HIDE DEF rest, elapsed
      <3> QED BY <2>1, <2>a, <2>b
    <2>3. /\ rest.sec >= 0 => Total(rest) >= 0
          /\ ~(rest.sec >= 0) => Total(rest) < 0
      BY <2>2, SecondsSign
    <2>4. snooze' = rest /\ ended' = now /\ now' = now /\ start' = start /\ began' = began
      BY <1>5 DEF Measure
    <2>5. Total(snooze)' = Total(rest) /\ Total(ended)' = Total(now)
          /\ Total(now)' = Total(now) /\ Total(start)' = Total(start)
          /\ Total(began)' = Total(began)
      BY <2>4 DEF Total
    <2>6. at' = (IF rest.sec >= 0 THEN "nanosleep" ELSE "begin") /\ early' = FALSE
      BY <1>5 DEF Measure
    <2>7. PTypeOK' /\ NeverDies'
      BY <2>2, <2>4, <2>6 DEF Paced, PTypeOK, NeverDies
    <2> HIDE DEF rest
    <2>8. Ordered'
      BY <1>1, <2>5, <2>6 DEF Paced, Ordered
    <2>9. SleepsTheRest'
      BY <1>1, <2>2, <2>3, <2>5, <2>6, IntervalInt DEF Paced, Ordered, SleepsTheRest
    <2>10. KeepsPeriod'
      BY <1>1, <2>2, <2>3, <2>5, <2>6, IntervalInt DEF Paced, KeepsPeriod
    <2> QED BY <2>7, <2>8, <2>9, <2>10 DEF Paced
  <1>6. CASE Nanosleep
    <2>1. at' = "asleep"
      BY <1>6 DEF Nanosleep, Paced, PTypeOK
    <2> QED BY <1>1, <1>2, <1>6, <2>1
            DEF Nanosleep, Paced, PTypeOK, NeverDies, Ordered, SleepsTheRest, KeepsPeriod, Total
  <1>7. CASE Wake
    <2>1. Total(now) - Total(start) >= interval * NsPerMs
      BY <1>1, <1>2, <1>7, IntervalInt DEF Wake, Paced, Ordered, SleepsTheRest
    <2> QED BY <1>1, <1>2, <1>7, <2>1
            DEF Wake, Paced, PTypeOK, NeverDies, Ordered, SleepsTheRest, KeepsPeriod, Total
  <1>8. CASE Interrupted
    BY <1>1, <1>2, <1>8
       DEF Interrupted, Paced, PTypeOK, NeverDies, Ordered, SleepsTheRest, KeepsPeriod, Total
  <1>9. CASE UNCHANGED pvars
    BY <1>9 DEF pvars, Paced, PTypeOK, NeverDies, Ordered, SleepsTheRest, KeepsPeriod, Total
  <1> QED BY <1>3, <1>4, <1>5, <1>6, <1>7, <1>8, <1>9 DEF PNext

\* The pacing of the loop, for every interval: nanosleep is always called
\* with a valid timespec, so die("nanosleep:") is unreachable; the sleep is
\* exactly the rest of the interval; rounds that no signal separates start at
\* least one interval apart.
THEOREM PacingSafe == PSpec => [](PTypeOK /\ NeverDies /\ SleepsTheRest /\ KeepsPeriod)
  <1>1. Paced => PTypeOK /\ NeverDies /\ SleepsTheRest /\ KeepsPeriod
    BY DEF Paced
  <1> QED BY <1>1, InitPaced, NextPaced, PTL DEF PSpec

\* Each of them: what is in the variables, lines 121-162,
THEOREM PacingTypes == PSpec => []PTypeOK
  BY PacingSafe, PTL

\* that no rest of an interval makes nanosleep fail, and the program die,
THEOREM SleepValid == PSpec => []NeverDies
  BY PacingSafe, PTL

\* and that rounds do not run in quick succession after a long one.
THEOREM PeriodKept == PSpec => []KeepsPeriod
  BY PacingSafe, PTL
=============================================================================
