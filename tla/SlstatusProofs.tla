--------------------------- MODULE SlstatusProofs ---------------------------
(* Theorems about the main loop, for every configuration, every range of     *)
(* loop_count and any number of signals.                                     *)
EXTENDS SlstatusHistory, FiniteSetTheorems, TLAPS

\* The assumptions on the constants.
USE ModulesAssumption, LimitAssumption, MaxTermsAssumption

\* An index of the configuration is in the range of i, and its entry is one.
LEMMA ModuleType ==
    /\ Len(modules) \in Nat
    /\ \A m \in Indices : m \in Nat /\ modules[m] \in Module
  BY DEF Indices

\* The truncated status_no of an entry that has one is a status.
LEMMA SlotType ==
    ASSUME NEW m \in Indices, modules[m].no # NULL
    PROVE  Truncate(modules[m].no) \in Slots
  BY DEF Slots

\* What Fork writes to status_no is a status.
LEMMA StatusNoType ==
    ASSUME i \in Indices, status_no \in Slots, FormatStatusNo
    PROVE  status_no' \in Slots
  <1>1. CASE modules[i].no # NULL
    BY <1>1, SlotType DEF FormatStatusNo
  <1>2. CASE modules[i].no = NULL
    BY <1>2 DEF FormatStatusNo, Slots
  <1> QED BY <1>1, <1>2

\* A child that becomes a zombie, or is superseded, is still a child.
LEMMA ChildUpdates ==
    ASSUME NEW k \in Child
    PROVE  /\ [k EXCEPT !.st = "zombie"] \in Child
           /\ [k EXCEPT !.st = "zombie"].st = "zombie"
           /\ [k EXCEPT !.late = TRUE] \in Child
           /\ [k EXCEPT !.late = TRUE].st = k.st
           /\ [k EXCEPT !.late = TRUE].kind = k.kind
           /\ [k EXCEPT !.late = TRUE].mod = k.mod
           /\ [k EXCEPT !.late = TRUE].slot = k.slot
  BY DEF Child

\* The entries of the process table after a fork that supersedes others.
LEMMA SupersedeType ==
    ASSUME kids \in [Pids -> Child], NEW s
    PROVE  /\ Supersede(s) \in [Pids -> Child]
           /\ \A p \in Pids : /\ Supersede(s)[p].st = kids[p].st
                              /\ Supersede(s)[p].kind = kids[p].kind
                              /\ Supersede(s)[p].mod = kids[p].mod
                              /\ Supersede(s)[p].slot = kids[p].slot
  <1>1. ASSUME NEW p \in Pids
        PROVE  Supersede(s)[p] \in {kids[p], [kids[p] EXCEPT !.late = TRUE]}
    BY DEF Supersede
  <1> QED BY <1>1, ChildUpdates DEF Supersede

\* The entries of new processes.
LEMMA ProcessType ==
    /\ Free \in Child
    /\ Process("command", 0, <<>>) \in Child
    /\ \A m \in Indices, s \in Slots : Process("duskc", m, s) \in Child
  BY DEF Free, Process, Child, Slots

-----------------------------------------------------------------------------
(* Type correctness *)

\* The types hold initially.
LEMMA InitType == Init => TypeOK
  <1> SUFFICES ASSUME Init PROVE TypeOK
    OBVIOUS
  <1>1. kids \in [Pids -> Child] /\ \A p \in Pids : kids[p].st = "free"
    BY ProcessType DEF Init, Free
  <1>2. i \in 1 .. Len(modules) + 1 /\ loop_count \in 0 .. LoopLimit - 1
    BY ModuleType DEF Init
  <1>3. status_no \in Slots
    BY DEF Init, Slots
  <1>4. bar \in [Slots -> Indices \cup {0}]
    BY DEF Init
  <1>5. latest \in [Slots -> {"none", "sent", "shown", "lost", "overwritten"}]
    BY DEF Init
  <1>6. pc = "round" /\ done = FALSE /\ cmd = NULL /\ writers = {} /\ terms = 0
    BY DEF Init
  <1>7. /\ pc \in {"round", "module", "calling", "format", "count", "snooze", "sleeping", "check"}
                  \cup Blocking \cup Stopped
        /\ pc \notin {"calling", "format"} \cup Blocking
        /\ pc \notin {"reading", "reaping"}
    BY <1>6 DEF Blocking
  <1>8. terms \in 0 .. MaxTerms /\ WritersOK
    BY <1>6 DEF WritersOK
  <1>9. \A p \in Running : FALSE
    BY <1>1 DEF Running
  <1> QED BY <1>1, <1>2, <1>3, <1>4, <1>5, <1>6, <1>7, <1>8, <1>9 DEF TypeOK

\* Whoever has the pipe open is the command or what it left behind.
LEMMA NextWriters == WritersOK /\ [Next]_vars => WritersOK'
  <1> SUFFICES ASSUME WritersOK, [Next]_vars PROVE WritersOK'
    OBVIOUS
  <1>1. CASE writers' = writers
    BY <1>1 DEF WritersOK
  <1>2. CASE CallRunExec
    BY <1>2 DEF CallRunExec, WritersOK
  <1>3. CASE PipeUse
    BY <1>3 DEF PipeUse, WritersOK
  <1>4. ASSUME NEW p \in Pids, ChildExit(p) PROVE WritersOK'
    BY <1>4 DEF ChildExit, WritersOK
  <1>5. CASE SignalTerm
    BY <1>5 DEF SignalTerm, Interrupt, WritersOK
  <1> QED BY <1>1, <1>2, <1>3, <1>4, <1>5
          DEF Next, Step, Children, BeginRound, Crash, SkipModule, CallBuiltin, BuiltinReturns,
              SpawnFails, ReadToEnd, ReapCommand, Overlong, NullFormat, Fork, ForkFails, Wait,
              NoChild, EndScan, CountRound, Snooze, Wake, Check, Deliver, SignalUsr1, vars

\* Every step keeps them.
LEMMA NextType == TypeOK /\ [Next]_vars => TypeOK'
  <1> SUFFICES ASSUME TypeOK, [Next]_vars PROVE TypeOK'
    OBVIOUS
  <1> USE ModuleType DEF TypeOK, Blocking, Stopped, Goto, Running
  <1>0. WritersOK'
    BY NextWriters
  <1>1. CASE BeginRound
    BY <1>0, <1>1 DEF BeginRound
  <1>2. CASE Crash
    BY <1>0, <1>2 DEF Crash
  <1>3. CASE SkipModule
    BY <1>0, <1>3 DEF SkipModule, Indices
  <1>4. CASE CallBuiltin
    BY <1>0, <1>4 DEF CallBuiltin
  <1>5. CASE CallRunExec
    <2>1. PICK p \in Unused : /\ cmd' = p
                              /\ kids' = [kids EXCEPT ![p] = Process("command", 0, <<>>)]
      BY <1>5 DEF CallRunExec
    <2>2. kids' \in [Pids -> Child] /\ cmd' \in Pids /\ kids'[cmd'].st = "running"
      BY <2>1, ProcessType DEF Unused, Process
    <2>3. \A q \in Running' : kids'[q].kind = "duskc" => kids'[q].mod \in Indices
      BY <2>1, <2>2 DEF Running, Process
    <2> QED BY <1>0, <1>5, <2>2, <2>3 DEF CallRunExec
  <1>6. CASE SpawnFails
    BY <1>0, <1>6 DEF SpawnFails
  <1>7. CASE ReadToEnd
    BY <1>0, <1>7 DEF ReadToEnd
  <1>8. CASE ReapCommand
    <2>1. kids' \in [Pids -> Child]
      BY <1>8, ProcessType DEF ReapCommand
    <2>2. \A q \in Running' : kids'[q].kind = "duskc" => kids'[q].mod \in Indices
      BY <1>8, <2>1 DEF ReapCommand, Running, Free
    <2> QED BY <1>0, <1>8, <2>1, <2>2 DEF ReapCommand
  <1>9. CASE Overlong
    BY <1>0, <1>9 DEF Overlong
  <1>10. CASE NullFormat
    BY <1>0, <1>10 DEF NullFormat
  <1>11. CASE Fork
    <2>1. status_no' \in Slots
      BY <1>11, StatusNoType DEF Fork
    <2>2. PICK p \in Unused : kids' = [Supersede(status_no') EXCEPT ![p] = Process("duskc", i, status_no')]
      BY <1>11 DEF Fork
    <2>3. kids' \in [Pids -> Child]
      BY <1>11, <2>1, <2>2, SupersedeType, ProcessType DEF Fork
    <2>4. \A q \in Running' : kids'[q].kind = "duskc" => kids'[q].mod \in Indices
      BY <1>11, <2>2, <2>3, SupersedeType DEF Fork, Running, Process, Unused
    <2> QED BY <1>0, <1>11, <2>1, <2>3, <2>4 DEF Fork
  <1>12. CASE ForkFails
    BY <1>0, <1>12, StatusNoType DEF ForkFails
  <1>13. CASE Wait
    <2>1. PICK p \in Zombies : kids' = [kids EXCEPT ![p] = Free]
      BY <1>13 DEF Wait
    <2>2. kids' \in [Pids -> Child]
      BY <2>1, ProcessType
    <2>3. \A q \in Running' : kids'[q].kind = "duskc" => kids'[q].mod \in Indices
      BY <2>1, <2>2 DEF Running, Free
    <2> QED BY <1>0, <1>13, <2>2, <2>3 DEF Wait, Indices
  <1>14. CASE NoChild
    BY <1>0, <1>14 DEF NoChild, Indices
  <1>15. CASE EndScan
    BY <1>0, <1>15 DEF EndScan
  <1>16. CASE CountRound
    BY <1>0, <1>16 DEF CountRound
  <1>17. CASE Snooze
    BY <1>0, <1>17 DEF Snooze
  <1>18. CASE Wake
    BY <1>0, <1>18 DEF Wake
  <1>19. CASE Check
    BY <1>0, <1>19 DEF Check
  <1>20. ASSUME NEW p \in Pids, Deliver(p) PROVE TypeOK'
    <2>1. kids[p] \in Child /\ kids[p].mod \in Indices /\ kids[p].slot \in Slots
      BY <1>20 DEF Deliver, Running, Child
    <2>2. kids' = [kids EXCEPT ![p] = [kids[p] EXCEPT !.st = "zombie"]]
      BY <1>20 DEF Deliver
    <2>3. kids' \in [Pids -> Child] /\ \A q \in Pids : kids[q].st # "free" => kids'[q].st # "free"
      BY <2>1, <2>2, ChildUpdates
    <2>4. \A q \in Running' : kids'[q].kind = "duskc" => kids'[q].mod \in Indices
      BY <2>1, <2>2, <2>3, ChildUpdates DEF Running
    <2>5. bar' \in [Slots -> Indices \cup {0}]
      BY <1>20, <2>1 DEF Deliver
    <2>6. latest' \in [Slots -> {"none", "sent", "shown", "lost", "overwritten"}]
      BY <1>20, <2>1 DEF Deliver
    <2> QED BY <1>0, <1>20, <2>3, <2>4, <2>5, <2>6 DEF Deliver, loop
  <1>21. ASSUME NEW p \in Pids, ChildExit(p) PROVE TypeOK'
    <2>1. kids[p] \in Child
      BY <1>21
    <2>2. kids' = [kids EXCEPT ![p] = [kids[p] EXCEPT !.st = "zombie"]]
      BY <1>21 DEF ChildExit
    <2>3. kids' \in [Pids -> Child] /\ \A q \in Pids : kids[q].st # "free" => kids'[q].st # "free"
      BY <2>1, <2>2, ChildUpdates
    <2>4. \A q \in Running' : kids'[q].kind = "duskc" => kids'[q].mod \in Indices
      BY <2>1, <2>2, <2>3, ChildUpdates DEF Running
    <2>5. latest' \in [Slots -> {"none", "sent", "shown", "lost", "overwritten"}]
      BY <1>21 DEF ChildExit
    <2> QED BY <1>0, <1>21, <2>3, <2>4, <2>5 DEF ChildExit, loop
  <1>22. CASE SignalTerm
    <2>1. /\ UNCHANGED <<loop_count, status_no, kids, bar, latest>>
          /\ done' = TRUE /\ terms' \in 0 .. MaxTerms
      BY <1>22 DEF SignalTerm
    <2>2. CASE UNCHANGED <<pc, i, cmd>>
      BY <1>0, <2>1, <2>2
    <2>3. CASE Goto("reading", "reaping") /\ UNCHANGED <<i, cmd>>
      BY <1>0, <2>1, <2>3
    <2>4. CASE Goto("reaping", "format") /\ cmd' = NULL /\ i' = i
      BY <1>0, <2>1, <2>4
    <2>5. CASE Goto("wait", "module") /\ i' = i + 1 /\ cmd' = cmd
      BY <1>0, <2>1, <2>5 DEF Indices
    <2>6. CASE Goto("sleeping", "check") /\ UNCHANGED <<i, cmd>>
      BY <1>0, <2>1, <2>6
    <2> QED BY <1>22, <2>2, <2>3, <2>4, <2>5, <2>6 DEF SignalTerm, Interrupt
  <1>23. CASE SignalUsr1
    BY <1>0, <1>23 DEF SignalUsr1
  <1>24. CASE UNCHANGED vars
    BY <1>0, <1>24 DEF vars
  <1>25. CASE BuiltinReturns
    BY <1>0, <1>25 DEF BuiltinReturns
  <1>26. CASE PipeUse
    BY <1>0, <1>26 DEF PipeUse, loop
  <1> QED BY <1>1, <1>2, <1>3, <1>4, <1>5, <1>6, <1>7, <1>8, <1>9, <1>10, <1>11, <1>12,
             <1>13, <1>14, <1>15, <1>16, <1>17, <1>18, <1>19, <1>20, <1>21, <1>22, <1>23,
             <1>24, <1>25, <1>26 DEF Next, Step, Children

\* The types and the state of run_exec's child are as declared, always.
THEOREM TypeCorrect == Spec => []TypeOK
  BY InitType, NextType, PTL DEF Spec
-----------------------------------------------------------------------------
(* The children                                                              *)

Busy == Pids \ Unused

\* The number of processes in a set is a natural number, and what one process
\* more or less makes of it.
LEMMA Count ==
    ASSUME NEW S \in SUBSET Pids
    PROVE  /\ IsFiniteSet(S)
           /\ Cardinality(S) \in Nat
           /\ Cardinality(S) = 0 <=> S = {}
           /\ \A p \in Pids \ S : Cardinality(S \cup {p}) = Cardinality(S) + 1
           /\ \A p \in S : Cardinality(S \ {p}) = Cardinality(S) - 1
  <1>1. IsFiniteSet(S)
    BY PidsAssumption, FS_Subset
  <1> QED BY <1>1, FS_CardinalityType, FS_EmptySet, FS_AddElement, FS_RemoveElement

\* The processes in the process table are processes.
LEMMA BusyType == Busy \in SUBSET Pids /\ Busy' \in SUBSET Pids
  BY DEF Busy

\* ChildBound is inductive as it stands, given the types.
LEMMA NextBound == TypeOK /\ TypeOK' /\ ChildBound /\ [Next]_vars => ChildBound'
  <1> SUFFICES ASSUME TypeOK, TypeOK', ChildBound, [Next]_vars PROVE ChildBound'
    OBVIOUS
  <1> DEFINE n == Cardinality(Busy)
  <1>a. n \in Nat /\ n' \in Nat /\ terms \in Nat /\ terms' \in Nat
    <2>1. n \in Nat /\ n' \in Nat
      BY BusyType, Count
    <2> QED BY <2>1 DEF TypeOK
  <1>b. n <= terms + (IF pc \in Blocking THEN 1 ELSE 0)
    BY DEF ChildBound, Busy
  <1>c. SUFFICES n' <= terms' + (IF pc' \in Blocking THEN 1 ELSE 0)
    BY DEF ChildBound, Busy
  <1>1. CASE /\ UNCHANGED kids
             /\ terms' = terms
             /\ pc \in Blocking => pc' \in Blocking
    <2>1. n' = n
      BY <1>1 DEF Busy, Unused
    <2> QED BY <1>1, <1>a, <1>b, <2>1
  <1>2. CASE CallRunExec
    <2>1. PICK p \in Unused : kids' = [kids EXCEPT ![p] = Process("command", 0, <<>>)]
      BY <1>2 DEF CallRunExec
    <2>2. Busy' = Busy \cup {p}
      BY <2>1 DEF Busy, Unused, Process, TypeOK
    <2>3. n' = n + 1
      <3>1. p \in Pids \ Busy
        BY DEF Busy, Unused
      <3> QED BY <2>2, <3>1, BusyType, Count
    <2> HIDE DEF n
    <2> QED BY <1>2, <1>a, <1>b, <2>3 DEF CallRunExec, Goto, Blocking
  <1>3. CASE Fork
    <2>1. PICK p \in Unused : kids' = [Supersede(status_no') EXCEPT ![p] = Process("duskc", i, status_no')]
      BY <1>3 DEF Fork
    <2>2. Busy' = Busy \cup {p}
      BY <2>1, SupersedeType DEF Busy, Unused, Process, TypeOK
    <2>3. n' = n + 1
      <3>1. p \in Pids \ Busy
        BY DEF Busy, Unused
      <3> QED BY <2>2, <3>1, BusyType, Count
    <2> HIDE DEF n
    <2> QED BY <1>3, <1>a, <1>b, <2>3 DEF Fork, Goto, Blocking
  <1>4. CASE ReapCommand \/ Wait
    <2>1. PICK p \in Busy : kids' = [kids EXCEPT ![p] = Free]
      BY <1>4 DEF ReapCommand, Wait, Zombies, Busy, Unused, TypeOK, Goto
    <2>2. Busy' = Busy \ {p}
      BY <2>1 DEF Busy, Unused, Free, TypeOK
    <2>3. n' = n - 1
      BY <2>2, BusyType, Count
    <2>4. pc \in Blocking /\ pc' \notin Blocking /\ terms' = terms
      BY <1>4 DEF ReapCommand, Wait, Goto, Blocking
    <2> HIDE DEF n
    <2> QED BY <1>a, <1>b, <2>3, <2>4
  <1>5. CASE NoChild
    <2>1. n = 0 /\ n' = 0
      <3>1. Busy = {} /\ Busy' = {}
        BY <1>5 DEF NoChild, Busy, Unused
      <3> QED BY <3>1, BusyType, Count
    <2>2. pc' \notin Blocking
      BY <1>5 DEF NoChild, Goto, Blocking
    <2>3. (IF pc' \in Blocking THEN 1 ELSE 0) = 0
      BY <2>2
    <2>4. n' <= terms'
      <3> HIDE DEF n
      <3>1. terms' >= 0
        BY <1>a
      <3> QED BY <2>1, <3>1
    <2> QED BY <1>a, <2>3, <2>4
  <1>6. CASE Children
    <2>1. PICK p \in Pids : Deliver(p) \/ ChildExit(p)
      BY <1>6 DEF Children
    <2>2. kids' = [kids EXCEPT ![p] = [kids[p] EXCEPT !.st = "zombie"]] /\ kids[p].st = "running"
      BY <2>1 DEF Deliver, ChildExit, Running
    <2>3. \A q \in Pids : kids'[q].st = "free" <=> kids[q].st = "free"
      BY <2>2, ChildUpdates DEF TypeOK
    <2>4. Busy' = Busy
      BY <2>3 DEF Busy, Unused
    <2>5. n' = n
      BY <2>4
    <2>6. pc' = pc /\ terms' = terms
      BY <2>1 DEF Deliver, ChildExit, loop
    <2>7. (IF pc' \in Blocking THEN 1 ELSE 0) = (IF pc \in Blocking THEN 1 ELSE 0)
      BY <2>6
    <2> HIDE DEF n
    <2> QED BY <1>a, <1>b, <2>5, <2>6, <2>7
  <1>7. CASE SignalTerm
    <2>1. n' = n
      BY <1>7 DEF SignalTerm, Busy, Unused
    <2> QED BY <1>7, <1>a, <1>b, <2>1 DEF SignalTerm
  <1> QED BY <1>1, <1>2, <1>3, <1>4, <1>5, <1>6, <1>7
          DEF Next, Step, BeginRound, Crash, SkipModule, CallBuiltin, BuiltinReturns, PipeUse, loop, SpawnFails,
              ReadToEnd, Overlong, NullFormat, ForkFails, EndScan, CountRound, Snooze, Wake,
              Check, SignalUsr1, Goto, Blocking, vars

\* No child at the start.
LEMMA InitBound == Init => ChildBound
  <1> SUFFICES ASSUME Init PROVE ChildBound
    OBVIOUS
  <1>1. Busy = {}
    BY DEF Init, Busy, Unused, Free
  <1>2. Cardinality(Busy) = 0
    BY <1>1, BusyType, Count
  <1> QED BY <1>2 DEF Init, ChildBound, Busy, Blocking

\* The loop never has more children than the one it is waiting for and one per
\* SIGINT or SIGTERM, whatever the configuration.
THEOREM Bounded == Spec => []ChildBound
  BY TypeCorrect, InitBound, NextBound, PTL DEF Spec
-----------------------------------------------------------------------------
(* What dusk shows                                                           *)

Duskcs == {p \in Running : kids[p].kind = "duskc"}

\* A new round starts without children; a duskc that is running belongs to a
\* module this round has passed, and writes to that module's status.
OrderInv ==
    /\ done <=> terms > 0
    /\ pc = "round" => Busy = {}
    /\ \A p \in Duskcs : /\ kids[p].mod <= i
                         /\ pc # "wait" => kids[p].mod < i
                         /\ Writes(kids[p].mod, kids[p].slot)
                         /\ kids[p].late => done /\ Shared(kids[p].slot)

\* The text of a status is that of a module that writes to it, and no older
\* one than the last delivered, but for the exception that FreshStatus makes.
ShownInv ==
    /\ \A s \in Slots : bar[s] # 0 => Writes(bar[s], s)
    /\ FreshStatus

\* No child is left between two modules while no signal has come.
LEMMA NoneLeft ==
    ASSUME TypeOK, ChildBound, OrderInv, ~done, pc \notin Blocking
    PROVE  Busy = {}
  <1>1. terms = 0
    BY DEF OrderInv, TypeOK
  <1>2. Cardinality(Busy) <= 0
    BY <1>1 DEF ChildBound, Busy
  <1> QED BY <1>2, BusyType, Count

\* Steps of the loop that start no child and touch no child's entry.
LEMMA QuietStep ==
    ASSUME TypeOK, OrderInv, ShownInv,
           UNCHANGED <<kids, bar, latest, done, terms>>,
           pc' # "round",
           pc' # "wait" \/ pc = "format",
           \/ i' = i /\ pc # "wait"
           \/ i' = i + 1
           \/ Busy = {}
    PROVE  OrderInv' /\ ShownInv'
  <1>1. Duskcs' = Duskcs /\ Duskcs \subseteq Busy
    BY DEF Duskcs, Running, Busy, Unused
  <1>2. (i \in Int /\ i' \in Int) \/ Busy = {}
    BY DEF TypeOK
  <1>3. \A p \in Duskcs : kids[p].mod \in Int
    BY ModuleType DEF TypeOK, Duskcs, Running
  <1>4. ASSUME NEW p \in Duskcs
        PROVE  kids[p].mod <= i' /\ (pc' # "wait" => kids[p].mod < i')
    BY <1>1, <1>2, <1>3 DEF OrderInv
  <1>5. \A s, m : (Writes(m, s))' <=> Writes(m, s)
    BY DEF Writes
  <1>6. \A s : Shared(s)' <=> Shared(s)
    BY <1>5 DEF Shared
  <1>7. OrderInv'
    BY <1>1, <1>4, <1>5, <1>6 DEF OrderInv
  <1>8. ShownInv'
    BY <1>5, <1>6 DEF ShownInv, FreshStatus
  <1> QED BY <1>7, <1>8

\* Every step keeps both.
LEMMA NextShown ==
    ASSUME TypeOK, TypeOK', ChildBound, OrderInv, ShownInv, [Next]_vars
    PROVE  OrderInv' /\ ShownInv'
  <1> USE DEF Goto
  <1>1. CASE Crash \/ SkipModule \/ CallBuiltin \/ BuiltinReturns \/ SpawnFails \/ ReadToEnd \/ Overlong
             \/ NullFormat \/ ForkFails \/ NoChild \/ EndScan \/ CountRound \/ Snooze
             \/ Wake \/ SignalUsr1
    <2>1. UNCHANGED <<kids, bar, latest, done, terms>>
      BY <1>1 DEF Crash, SkipModule, CallBuiltin, BuiltinReturns, SpawnFails, ReadToEnd, Overlong, NullFormat,
                  ForkFails, NoChild, EndScan, CountRound, Snooze, Wake, SignalUsr1
    <2>2. pc' # "round" /\ (pc' # "wait" \/ pc = "format")
      BY <1>1 DEF Crash, SkipModule, CallBuiltin, BuiltinReturns, SpawnFails, ReadToEnd, Overlong, NullFormat,
                  ForkFails, NoChild, EndScan, CountRound, Snooze, Wake, SignalUsr1
    <2>3. (i' = i /\ pc # "wait") \/ i' = i + 1
      BY <1>1 DEF Crash, SkipModule, CallBuiltin, BuiltinReturns, SpawnFails, ReadToEnd, Overlong, NullFormat,
                  ForkFails, NoChild, EndScan, CountRound, Snooze, Wake, SignalUsr1
    <2> QED BY <2>1, <2>2, <2>3, QuietStep
  <1>2. CASE BeginRound
    <2>1. Busy = {}
      BY <1>2 DEF BeginRound, OrderInv
    <2> QED BY <1>2, <2>1, QuietStep DEF BeginRound
  <1>3. CASE Check
    <2>1. UNCHANGED <<i, kids, bar, latest, done, terms>> /\ pc = "check"
      BY <1>3 DEF Check
    <2>2. CASE done
      BY <1>3, <2>1, <2>2, QuietStep DEF Check
    <2>3. CASE ~done
      <3>1. Busy = {}
        BY <2>1, <2>3, NoneLeft DEF Blocking
      <3>2. Busy' = {} /\ Duskcs' = {}
        BY <2>1, <3>1 DEF Busy, Unused, Duskcs, Running
      <3> QED BY <2>1, <3>2 DEF OrderInv, ShownInv, FreshStatus
    <2> QED BY <2>2, <2>3
  <1>4. CASE CallRunExec
    <2>1. PICK p \in Unused : kids' = [kids EXCEPT ![p] = Process("command", 0, <<>>)]
      BY <1>4 DEF CallRunExec
    <2>2. Duskcs' = Duskcs /\ \A q \in Duskcs : kids'[q] = kids[q]
      BY <2>1 DEF Duskcs, Running, Unused, Process, TypeOK
    <2> QED BY <1>4, <2>2 DEF CallRunExec, OrderInv, ShownInv, FreshStatus
  <1>5. CASE ReapCommand \/ Wait
    <2>1. PICK p \in Zombies : kids' = [kids EXCEPT ![p] = Free]
      BY <1>5 DEF ReapCommand, Wait, Zombies, TypeOK
    <2>2. Duskcs' = Duskcs /\ \A q \in Duskcs : kids'[q] = kids[q]
      BY <2>1 DEF Duskcs, Running, Zombies, Free, TypeOK
    <2>3. \A q \in Duskcs : kids[q].mod <= i => kids[q].mod < i'
      <3>1. CASE Wait
        BY <3>1, ModuleType DEF Wait, TypeOK, Duskcs
      <3>2. CASE ReapCommand
        BY <3>2 DEF ReapCommand, OrderInv
      <3> QED BY <1>5, <3>1, <3>2
    <2>4. UNCHANGED <<bar, latest, done, terms>> /\ pc' \in {"format", "module"}
      BY <1>5 DEF ReapCommand, Wait
    <2>5. \A q \in Duskcs : kids[q].mod \in Int /\ i' \in Int
      BY ModuleType DEF TypeOK, Duskcs
    <2> QED BY <2>2, <2>3, <2>4, <2>5 DEF OrderInv, ShownInv, FreshStatus
  <1>6. CASE Fork
    <2> DEFINE s == status_no'
    <2>1. PICK p \in Unused : kids' = [Supersede(s) EXCEPT ![p] = Process("duskc", i, s)]
      BY <1>6 DEF Fork
    <2>2. i \in Indices /\ Writes(i, s) /\ i' = i
      BY <1>6 DEF Fork, FormatStatusNo, TypeOK, Writes
    <2> HIDE DEF s
    <2>3. ASSUME NEW q \in Duskcs', q # p
          PROVE  /\ q \in Duskcs
                 /\ kids'[q].mod = kids[q].mod /\ kids'[q].slot = kids[q].slot
                 /\ (kids'[q].late => (kids[q].late \/ kids[q].slot = s))
      <3>1. q \in Pids /\ kids'[q] = Supersede(s)[q]
        BY <2>1, <2>3, SupersedeType DEF Duskcs, Running, TypeOK
      <3>2. q \in Duskcs /\ kids'[q].mod = kids[q].mod /\ kids'[q].slot = kids[q].slot
        BY <2>3, <3>1, SupersedeType DEF Duskcs, Running, TypeOK
      <3>3. kids'[q].late => kids[q].late \/ kids[q].slot = s
        BY <3>1 DEF Supersede
      <3> QED BY <3>2, <3>3
    <2>4. ASSUME NEW q \in Duskcs PROVE done
      <3>1. q \in Busy /\ pc \notin Blocking
        BY <1>6 DEF Fork, Duskcs, Running, Busy, Unused, Blocking
      <3> QED BY <3>1, NoneLeft
    <2>5. ASSUME NEW q \in Duskcs, kids[q].slot = s PROVE Shared(s)
      <3>1. kids[q].mod \in Indices /\ kids[q].mod < i /\ Writes(kids[q].mod, s)
        BY <1>6, <2>5 DEF Fork, OrderInv, TypeOK, Duskcs
      <3> QED BY <2>2, <3>1, ModuleType DEF Shared
    <2>6. ASSUME NEW q \in Duskcs'
          PROVE  /\ kids'[q].mod <= i /\ Writes(kids'[q].mod, kids'[q].slot)
                 /\ kids'[q].late => done /\ Shared(kids'[q].slot)
      <3>1. CASE q = p
        <4>1. kids'[q] = Process("duskc", i, s)
          BY <2>1, <3>1, SupersedeType DEF Unused, TypeOK
        <4> QED BY <2>2, <4>1, ModuleType DEF Process
      <3>2. CASE q # p
        BY <2>3, <2>4, <2>5, <3>2 DEF OrderInv
      <3> QED BY <3>1, <3>2
    <2>7. pc' = "wait" /\ done' = done /\ terms' = terms /\ bar' = bar
          /\ latest' = [latest EXCEPT ![s] = "sent"]
      BY <1>6 DEF Fork, s
    <2>8. OrderInv'
      BY <2>2, <2>6, <2>7 DEF OrderInv
    <2>9. ShownInv'
      BY <2>7 DEF ShownInv, FreshStatus, TypeOK
    <2> QED BY <2>8, <2>9
  <1>7. CASE Children
    <2>1. PICK p \in Pids : Deliver(p) \/ ChildExit(p)
      BY <1>7 DEF Children
    <2>2. kids' = [kids EXCEPT ![p] = [kids[p] EXCEPT !.st = "zombie"]] /\ p \in Running
      BY <2>1 DEF Deliver, ChildExit
    <2>3. kids'[p].st = "zombie"
      BY <2>2, ChildUpdates DEF TypeOK
    <2>4. Duskcs' \subseteq Duskcs /\ \A q \in Duskcs' : kids'[q] = kids[q]
      BY <2>2, <2>3 DEF Duskcs, Running, TypeOK
    <2>5. Busy # {}
      BY <2>2 DEF Busy, Unused, Running
    <2>6. UNCHANGED <<pc, i, done, terms>>
      BY <2>1 DEF Deliver, ChildExit, loop
    <2>7. OrderInv'
      BY <2>4, <2>5, <2>6 DEF OrderInv
    <2>8. CASE Deliver(p)
      <3> DEFINE s == kids[p].slot
      <3>1. p \in Duskcs
        BY <2>8 DEF Deliver, Duskcs
      <3>2. /\ bar' = [bar EXCEPT ![s] = kids[p].mod]
            /\ \A r \in Slots : latest'[r] = "overwritten" =>
                 latest[r] = "overwritten" \/ (r = s /\ kids[p].late)
        BY <2>8 DEF Deliver, TypeOK
      <3>3. Writes(kids[p].mod, s) /\ (kids[p].late => done /\ Shared(s))
        BY <3>1 DEF OrderInv
      <3> QED BY <2>6, <2>7, <3>2, <3>3 DEF ShownInv, FreshStatus, TypeOK
    <2>9. CASE ChildExit(p)
      <3>1. bar' = bar
            /\ \A r \in Slots : latest'[r] = "overwritten" => latest[r] = "overwritten"
        BY <2>9 DEF ChildExit, TypeOK
      <3> QED BY <2>6, <2>7, <3>1 DEF ShownInv, FreshStatus
    <2> QED BY <2>1, <2>8, <2>9
  <1>8. CASE SignalTerm
    <2>1. done' /\ terms' > 0 /\ UNCHANGED <<kids, bar, latest>>
      BY <1>8 DEF SignalTerm, TypeOK
    <2>2. Duskcs' = Duskcs /\ Busy' = Busy
      BY <2>1 DEF Duskcs, Running, Busy, Unused
    <2>3. pc' = "round" => pc = "round"
      BY <1>8 DEF SignalTerm, Interrupt
    <2>4. \A q \in Duskcs : kids[q].mod <= i' /\ (pc' # "wait" => kids[q].mod < i')
      BY <1>8, ModuleType DEF SignalTerm, Interrupt, OrderInv, TypeOK, Duskcs
    <2> QED BY <2>1, <2>2, <2>3, <2>4 DEF OrderInv, ShownInv, FreshStatus
  <1>9. CASE PipeUse \/ UNCHANGED vars
    BY <1>9 DEF PipeUse, loop, vars, OrderInv, ShownInv, FreshStatus, Busy, Unused, Duskcs, Running
  <1> QED BY <1>1, <1>2, <1>3, <1>4, <1>5, <1>6, <1>7, <1>8, <1>9 DEF Next, Step

\* Both hold initially.
LEMMA InitShown == Init => OrderInv /\ ShownInv
  <1> SUFFICES ASSUME Init PROVE OrderInv /\ ShownInv
    OBVIOUS
  <1>1. Busy = {} /\ Duskcs = {}
    BY DEF Init, Busy, Unused, Duskcs, Running, Free
  <1> QED BY <1>1 DEF Init, OrderInv, ShownInv, FreshStatus

\* An older text overwrites a newer one only during shutdown and only in a
\* status that two modules share, whatever the configuration.
THEOREM Fresh == Spec => []FreshStatus
  <1> DEFINE Inv == TypeOK /\ ChildBound /\ OrderInv /\ ShownInv
  <1>1. Init => Inv
    BY InitType, InitBound, InitShown
  <1>2. Inv /\ [Next]_vars => Inv'
    BY NextType, NextBound, NextShown
  <1>3. Inv => FreshStatus
    BY DEF ShownInv
  <1> QED BY <1>1, <1>2, <1>3, PTL DEF Spec

\* Each text reaches the status it was configured for, if that has one or two
\* digits.
THEOREM Right == Spec => []RightSlot
  <1> DEFINE Inv == TypeOK /\ ChildBound /\ OrderInv /\ ShownInv
  <1>1. Init => Inv
    BY InitType, InitBound, InitShown
  <1>2. Inv /\ [Next]_vars => Inv'
    BY NextType, NextBound, NextShown
  <1>3. ASSUME Inv, NEW s \in Slots, bar[s] # 0, modules[bar[s]].no # NULL,
               ~(Len(modules[bar[s]].no) > 2)
        PROVE  modules[bar[s]].no = s
    BY <1>3 DEF ShownInv, Writes, Truncate
  <1>4. Inv => RightSlot
    BY <1>3 DEF RightSlot
  <1> QED BY <1>1, <1>2, <1>4, PTL DEF Spec

-----------------------------------------------------------------------------
(* The main loop implements StatusBar, and its calls of run_exec are those   *)
(* of CommandCall.                                                           *)

\* What a step that changes no entry of a running duskc leaves alone.
Carries(k) == IF k.st = "running" /\ k.kind = "duskc" THEN [mod |-> k.mod, slot |-> k.slot]
              ELSE [mod |-> 0, slot |-> <<>>]

LEMMA CarriedIs == Carried = [p \in Pids |-> Carries(kids[p])]
  BY DEF Carried, Carries

LEMMA CarriedIsNext == Carried' = [p \in Pids |-> Carries(kids'[p])]
  BY DEF Carried, Carries

\* One entry of the process table changes to one that carries nothing.
LEMMA EntryCleared ==
    ASSUME kids \in [Pids -> Child], NEW p \in Pids, NEW k, kids' = [kids EXCEPT ![p] = k],
           Carries(k) = Bar!None
    PROVE  Carried' = [Carried EXCEPT ![p] = Bar!None]
  BY CarriedIs, CarriedIsNext

\* A process that carries nothing before and after.
LEMMA EntryQuiet ==
    ASSUME kids \in [Pids -> Child], NEW p \in Pids, NEW k, kids' = [kids EXCEPT ![p] = k],
           Carries(k) = Bar!None, Carries(kids[p]) = Bar!None
    PROVE  Carried' = Carried
  BY CarriedIs, CarriedIsNext

\* What Supersede changes is not carried.
LEMMA EntryForked ==
    ASSUME kids \in [Pids -> Child], NEW p \in Pids, NEW s, NEW m,
           kids' = [Supersede(s) EXCEPT ![p] = Process("duskc", m, s)]
    PROVE  Carried' = [Carried EXCEPT ![p] = [mod |-> m, slot |-> s]]
  <1>1. \A q \in Pids : Carries(Supersede(s)[q]) = Carries(kids[q])
    BY SupersedeType DEF Carries
  <1>2. Carries(Process("duskc", m, s)) = [mod |-> m, slot |-> s]
    BY DEF Carries, Process
  <1>3. \A q \in Pids : kids'[q] = IF q = p THEN Process("duskc", m, s) ELSE Supersede(s)[q]
    BY SupersedeType
  <1>4. Carried' = [q \in Pids |-> IF q = p THEN [mod |-> m, slot |-> s] ELSE Carries(kids[q])]
    BY <1>1, <1>2, <1>3, CarriedIsNext
  <1> QED BY <1>4, CarriedIs

\* Whoever carries something is a running duskc, and busy.
LEMMA CarriersBusy ==
    ASSUME TypeOK, NEW p \in Pids
    PROVE  /\ p \notin Bar!Idle <=> p \in Duskcs
           /\ p \in Duskcs => p \in Busy /\ Carried[p] = [mod |-> kids[p].mod, slot |-> kids[p].slot]
  <1>1. p \in Duskcs => kids[p].mod # 0
    BY ModuleType DEF Duskcs, TypeOK, Indices
  <1> QED BY <1>1 DEF Bar!Idle, Bar!None, Carried, Duskcs, Running, Busy, Unused

\* The initial states are initial states of the bar.
LEMMA InitBar == Init => Bar!Init
  BY DEF Init, Bar!Init, Bar!None, Carried, Free, Stopped

\* Every step of the loop is one of the bar, or nothing to it.
LEMMA NextBar ==
    ASSUME TypeOK, TypeOK', ChildBound, OrderInv, [Next]_vars
    PROVE  [Bar!Next]_(Bar!vars)
  <1> USE DEF Goto
  <1>a. kids \in [Pids -> Child]
    BY DEF TypeOK
  <1>1. CASE BeginRound \/ SkipModule \/ CallBuiltin \/ BuiltinReturns \/ ReadToEnd \/ Overlong \/ ForkFails
             \/ NoChild \/ EndScan \/ CountRound \/ Snooze \/ Wake \/ SignalUsr1
    <2>1. UNCHANGED <<kids, bar, done>> /\ pc \notin Stopped /\ pc' \notin Stopped
      BY <1>1 DEF BeginRound, SkipModule, CallBuiltin, BuiltinReturns, ReadToEnd, Overlong, ForkFails, NoChild,
                  EndScan, CountRound, Snooze, Wake, SignalUsr1, Stopped
    <2>2. Carried' = Carried
      BY <2>1 DEF Carried
    <2> QED BY <2>1, <2>2 DEF Bar!vars
  <1>2. CASE Crash \/ SpawnFails \/ NullFormat \/ Check
    <2>1. UNCHANGED <<kids, bar, done>> /\ pc \notin Stopped
      BY <1>2 DEF Crash, SpawnFails, NullFormat, Check, Stopped
    <2>2. Carried' = Carried
      BY <2>1 DEF Carried
    <2>3. CASE pc' \in Stopped
      BY <2>1, <2>2, <2>3 DEF Bar!Next, Bar!Stop
    <2>4. CASE pc' \notin Stopped
      BY <2>1, <2>2, <2>4 DEF Bar!vars
    <2> QED BY <2>3, <2>4
  <1>3. CASE CallRunExec
    <2>1. PICK p \in Unused : kids' = [kids EXCEPT ![p] = Process("command", 0, <<>>)]
      BY <1>3 DEF CallRunExec
    <2>2. Carries(kids[p]) = Bar!None /\ Carries(Process("command", 0, <<>>)) = Bar!None
      BY <2>1 DEF Carries, Unused, Process, Bar!None
    <2>3. Carried' = Carried
      BY <1>a, <2>1, <2>2, EntryQuiet DEF Unused
    <2> QED BY <1>3, <2>3 DEF CallRunExec, Stopped, Bar!vars
  <1>4. CASE ReapCommand \/ Wait
    <2>1. PICK p \in Zombies : kids' = [kids EXCEPT ![p] = Free]
      BY <1>4 DEF ReapCommand, Wait, Zombies, TypeOK
    <2>2. Carries(kids[p]) = Bar!None /\ Carries(Free) = Bar!None
      BY <2>1 DEF Carries, Zombies, Free, Bar!None
    <2>3. Carried' = Carried
      BY <1>a, <2>1, <2>2, EntryQuiet DEF Zombies
    <2> QED BY <1>4, <2>3 DEF ReapCommand, Wait, Stopped, Bar!vars
  <1>5. CASE Fork
    <2>1. PICK p \in Unused : kids' = [Supersede(status_no') EXCEPT ![p] = Process("duskc", i, status_no')]
      BY <1>5 DEF Fork
    <2>2. p \in Pids /\ p \in Bar!Idle
      BY <2>1, CarriersBusy DEF Unused, Duskcs, Running
    <2>3. Carried' = [Carried EXCEPT ![p] = [mod |-> i, slot |-> status_no']]
      BY <1>a, <2>1, <2>2, EntryForked
    <2>4. i \in Indices /\ status_no' \in Targets[i]
      BY <1>5 DEF Fork, FormatStatusNo, TypeOK, Writes, Targets
    <2>5. done \/ Bar!Idle = Pids
      <3>1. ~done => Busy = {}
        BY <1>5, NoneLeft DEF Fork, Blocking
      <3> QED BY <3>1, CarriersBusy DEF Bar!Idle
    <2>6. i \in DOMAIN Targets
      BY <2>4 DEF Targets
    <2>7. \E m \in Bar!Modules : \E s \in Targets[m] :
            Carried' = [Carried EXCEPT ![p] = [mod |-> m, slot |-> s]]
      BY <2>3, <2>4, <2>6 DEF Bar!Modules
    <2>8. pc \notin Stopped /\ UNCHANGED <<bar, done>> /\ (pc \in Stopped)' = (pc \in Stopped)
      BY <1>5 DEF Fork, Stopped
    <2>9. Bar!Publish(p)
      BY <2>2, <2>5, <2>7, <2>8 DEF Bar!Publish
    <2> QED BY <2>2, <2>9 DEF Bar!Next
  <1>6. CASE Children
    <2>1. PICK p \in Pids : Deliver(p) \/ ChildExit(p)
      BY <1>6 DEF Children
    <2>2. kids' = [kids EXCEPT ![p] = [kids[p] EXCEPT !.st = "zombie"]] /\ p \in Running
      BY <2>1 DEF Deliver, ChildExit
    <2>3. Carries([kids[p] EXCEPT !.st = "zombie"]) = Bar!None
      BY <1>a, ChildUpdates DEF Carries, Bar!None
    <2>4. Carried' = [Carried EXCEPT ![p] = Bar!None]
      BY <1>a, <2>2, <2>3, EntryCleared
    <2>5. UNCHANGED <<pc, done>>
      BY <2>1 DEF Deliver, ChildExit, loop
    <2>6. CASE Deliver(p)
      <3>1. p \in Duskcs
        BY <2>6 DEF Deliver, Duskcs
      <3>2. p \notin Bar!Idle /\ Carried[p].mod = kids[p].mod /\ Carried[p].slot = kids[p].slot
        <4>1. p \notin Bar!Idle /\ Carried[p] = [mod |-> kids[p].mod, slot |-> kids[p].slot]
          BY <3>1, CarriersBusy
        <4> QED BY <4>1
      <3>3. bar' = [bar EXCEPT ![Carried[p].slot] = Carried[p].mod]
        BY <2>6, <3>2 DEF Deliver
      <3>4. (pc \in Stopped)' = (pc \in Stopped) /\ done' = done
        BY <2>5 DEF Stopped
      <3>5. Bar!Arrive(p)
        BY <2>4, <3>2, <3>3, <3>4 DEF Bar!Arrive
      <3> QED BY <3>5 DEF Bar!Next
    <2>7. CASE ChildExit(p) /\ p \in Duskcs
      <3>1. Bar!Lose(p)
        BY <2>4, <2>5, <2>7, CarriersBusy DEF ChildExit, Bar!Lose
      <3> QED BY <3>1 DEF Bar!Next
    <2>8. CASE ChildExit(p) /\ p \notin Duskcs
      <3>1. Carries(kids[p]) = Bar!None
        BY <2>2, <2>8 DEF Carries, Duskcs, Bar!None
      <3>2. Carried' = Carried
        BY <1>a, <2>2, <2>3, <3>1, EntryQuiet
      <3> QED BY <2>5, <2>8, <3>2 DEF ChildExit, Bar!vars
    <2> QED BY <2>1, <2>6, <2>7, <2>8
  <1>7. CASE SignalTerm
    <2>1. UNCHANGED <<kids, bar>> /\ done' = TRUE /\ pc \notin Stopped /\ pc' \notin Stopped
      BY <1>7 DEF SignalTerm, Interrupt, Stopped
    <2>2. Carried' = Carried
      BY <2>1 DEF Carried
    <2> QED BY <2>1, <2>2 DEF Bar!Next, Bar!AskToStop
  <1>8. CASE PipeUse \/ UNCHANGED vars
    <2>1. UNCHANGED <<pc, kids, bar, done>>
      BY <1>8 DEF PipeUse, loop, vars
    <2> QED BY <2>1 DEF Carried, Bar!vars
  <1> QED BY <1>1, <1>2, <1>3, <1>4, <1>5, <1>6, <1>7, <1>8 DEF Next, Step

\* The loop carries one text at a time to a status of its module until it is
\* told to stop, whatever the configuration, and however many calls fail.
THEOREM Refines == Spec => Implements
  <1> DEFINE Inv == TypeOK /\ ChildBound /\ OrderInv /\ ShownInv
  <1>1. Init => Inv /\ Bar!Init
    BY InitType, InitBound, InitShown, InitBar
  <1>2. Inv /\ [Next]_vars => Inv'
    BY NextType, NextBound, NextShown
  <1>3. Inv /\ Inv' /\ [Next]_vars => [Bar!Next]_(Bar!vars)
    BY NextBar
  <1> QED BY <1>1, <1>2, <1>3, PTL DEF Spec, Implements, Bar!Spec
-----------------------------------------------------------------------------
(* Calls of run_exec                                                         *)

Call == RunExecCall!vars

\* Every step of the loop is one of a call, or nothing to it.
LEMMA NextCall ==
    ASSUME TypeOK, TypeOK', [Next]_vars
    PROVE  [RunExecCall!Next]_Call
  <1> USE DEF Goto
  <1> DEFINE inCall == pc \in {"reading", "reaping"}
             at     == IF pc \in {"reading", "reaping", "died"} THEN pc ELSE "out"
             child  == IF inCall THEN kids[cmd].st ELSE "none"
  <1>a. ASSUME at' = at, child' = child, terms' = terms PROVE UNCHANGED Call
    BY <1>a DEF Call, RunExecCall!vars
  <1>1. CASE BeginRound \/ Crash \/ SkipModule \/ CallBuiltin \/ BuiltinReturns \/ Overlong \/ ForkFails \/ NullFormat
             \/ NoChild \/ EndScan \/ CountRound \/ Snooze \/ Wake \/ Check \/ SignalUsr1 \/ Fork \/ Wait
    <2>1. /\ terms' = terms
          /\ pc \notin {"reading", "reaping", "died"} /\ pc' \notin {"reading", "reaping", "died"}
      BY <1>1 DEF BeginRound, Crash, SkipModule, CallBuiltin, BuiltinReturns, Overlong, ForkFails, NullFormat, NoChild,
                  EndScan, CountRound, Snooze, Wake, Check, SignalUsr1, Fork, Wait
    <2> QED BY <1>a, <2>1
  <1>2. CASE CallRunExec
    <2>1. at = "out" /\ at' = "reading" /\ terms' = terms
      BY <1>2 DEF CallRunExec
    <2>2. child' = "running"
      <3>1. PICK p \in Unused : cmd' = p /\ kids' = [kids EXCEPT ![p] = Process("command", 0, <<>>)]
        BY <1>2 DEF CallRunExec
      <3> QED BY <1>2, <3>1 DEF CallRunExec, Unused, Process, TypeOK
    <2> QED BY <2>1, <2>2 DEF RunExecCall!Next, RunExecCall!Spawn
  <1>3. CASE SpawnFails
    BY <1>3 DEF SpawnFails, RunExecCall!Next, RunExecCall!SpawnFails
  <1>4. CASE ReadToEnd
    BY <1>4 DEF ReadToEnd, RunExecCall!Next, RunExecCall!ReadToEnd
  <1>5. CASE ReapCommand
    BY <1>5 DEF ReapCommand, RunExecCall!Next, RunExecCall!Reap
  <1>6. CASE Children
    <2>1. PICK p \in Pids : Deliver(p) \/ ChildExit(p)
      BY <1>6 DEF Children
    <2>2. kids' = [kids EXCEPT ![p] = [kids[p] EXCEPT !.st = "zombie"]] /\ kids[p].st = "running"
          /\ UNCHANGED <<pc, cmd, terms>>
      BY <2>1 DEF Deliver, ChildExit, Running, loop
    <2>3. CASE inCall /\ cmd = p
      <3>1. child = "running" /\ child' = "zombie"
        BY <2>2, <2>3, ChildUpdates DEF TypeOK
      <3> QED BY <2>2, <3>1 DEF RunExecCall!Next, RunExecCall!Exit
    <2>4. CASE ~(inCall /\ cmd = p)
      <3>1. inCall => kids'[cmd] = kids[cmd]
        BY <2>2, <2>4 DEF TypeOK
      <3>2. inCall' = inCall /\ at' = at /\ terms' = terms
        BY <2>2
      <3>3. inCall => kids'[cmd'] = kids[cmd]
        BY <2>2, <3>1
      <3>4. child' = child
        BY <3>2, <3>3
      <3> HIDE DEF inCall, at, child
      <3>5. UNCHANGED Call
        BY <1>a, <3>2, <3>4
      <3> QED BY <3>5
    <2> QED BY <2>3, <2>4
  <1>7. CASE SignalTerm
    <2>1. terms' = terms + 1 /\ kids' = kids
      BY <1>7 DEF SignalTerm
    <2>2. CASE Goto("reading", "reaping") /\ cmd' = cmd
      BY <2>1, <2>2 DEF RunExecCall!Next, RunExecCall!ReadToEnd
    <2>3. CASE Goto("reaping", "format")
      BY <2>1, <2>3 DEF RunExecCall!Next, RunExecCall!Abandon
    <2>4. CASE \/ Goto("wait", "module") \/ Goto("sleeping", "check")
               \/ UNCHANGED <<pc, cmd>>
      BY <2>1, <2>4 DEF RunExecCall!Next, RunExecCall!Signal
    <2> QED BY <1>7, <2>2, <2>3, <2>4 DEF SignalTerm, Interrupt
  <1>8. CASE PipeUse \/ UNCHANGED vars
    <2>1. UNCHANGED <<pc, kids, cmd, terms>>
      BY <1>8 DEF PipeUse, loop, vars
    <2> QED BY <1>a, <2>1
  <1> QED BY <1>1, <1>2, <1>3, <1>4, <1>5, <1>6, <1>7, <1>8 DEF Next, Step, Call

\* What the loop does with a child of run_exec is what CommandCall says, which
\* RunExec implements: nothing else of the loop touches it during the call.
THEOREM CallsRunExec == Spec => RunExecCall!Spec
  <1>1. Init => RunExecCall!Init
    BY DEF Init, RunExecCall!Init
  <1>2. TypeOK /\ TypeOK' /\ [Next]_vars => [RunExecCall!Next]_(RunExecCall!vars)
    BY NextCall DEF Call
  <1> QED BY <1>1, <1>2, TypeCorrect, PTL DEF Spec, RunExecCall!Spec
-----------------------------------------------------------------------------
(* No module waits longer than its update_interval.  What the loop knows is  *)
(* loop_count; the invariant says how old a text may be at each value of it. *)

\* Quotient and remainder by a positive number.
LEMMA Division ==
    ASSUME NEW n \in Int, NEW e \in Nat \ {0}
    PROVE  /\ n % e \in 0 .. e - 1
           /\ n \div e \in Int
           /\ n = e * (n \div e) + (n % e)
  BY SMT

\* The remainder is the only one.
LEMMA Unique ==
    ASSUME NEW n \in Int, NEW e \in Nat \ {0}, NEW q \in Int, NEW r \in 0 .. e - 1,
           n = e * q + r
    PROVE  n % e = r
  BY SMT

\* Where update_interval does not divide loop_count, it is one further from
\* the last multiple than the round before was.
LEMMA NotDue ==
    ASSUME NEW n \in Nat, NEW e \in Nat \ {0}, n % e # 0
    PROVE  n # 0 /\ (n - 1) % e = (n % e) - 1
<1> DEFINE q == n \div e
           r == n % e
<1>1. r \in 0 .. e - 1 /\ q \in Int /\ n = e * q + r
  BY Division
<1>2. 0 % e = 0
  BY SMT
<1>3. e * q \in Int
  BY <1>1, SMT
<1> HIDE DEF q, r
<1> DEFINE p == n - 1
           s == r - 1
<1>4. p \in Int /\ s \in 0 .. e - 1 /\ p = e * q + s
  BY <1>1, <1>3 DEF r
<1> HIDE DEF p, s
<1>5. p % e = s
  BY <1>1, <1>4, Unique
<1> QED  BY <1>2, <1>5 DEF r, p, s

\* A round is going on, and the loop is past the module m in it.
InRound == {"module", "calling", "format", "count"} \cup Blocking
Passed(m) == pc = "count" \/ (pc \in InRound /\ i > m) \/ (pc = "wait" /\ i = m)

\* How many rounds may lie between the last one that published m and the next.
\* After the wraparound, in round 0, the last one may have been any.
GapAt(n, e) == IF n = 0 THEN e - 1 ELSE (n - 1) % e
Gap(m) == GapAt(loop_count, modules[m].every)

LEMMA Gaps ==
    ASSUME NEW n \in Nat, NEW e \in Nat \ {0}
    PROVE  /\ n % e \in 0 .. e - 1
           /\ GapAt(n, e) \in 0 .. e - 1
           /\ n % e # 0 => GapAt(n, e) + 1 = n % e
           /\ GapAt(n + 1, e) = n % e
           /\ GapAt(0, e) = e - 1
<1>1. n % e \in 0 .. e - 1
  BY Division
<1>2. n # 0 => (n - 1) % e \in 0 .. e - 1
  <2> DEFINE p == n - 1
  <2>1. n # 0 => p \in Int
    OBVIOUS
  <2> HIDE DEF p
  <2>2. n # 0 => p % e \in 0 .. e - 1
    BY <2>1, Division
  <2> QED  BY <2>2 DEF p
<1>3. n % e # 0 => n # 0 /\ (n - 1) % e = (n % e) - 1
  BY NotDue
<1>4. n + 1 # 0 /\ (n + 1) - 1 = n
  OBVIOUS
<1> QED  BY <1>1, <1>2, <1>3, <1>4 DEF GapAt

Age(m) ==
    /\ turn[m] \in 0 .. modules[m].every
    /\ Passed(m) => turn[m] <= loop_count % modules[m].every
    /\ pc \in InRound /\ ~Passed(m) => turn[m] <= Gap(m) + 1
    /\ pc \in {"round", "snooze", "sleeping", "check"} => turn[m] <= Gap(m)

\* A duskc was started at the last turn, or that was missed.
AgeInv ==
    /\ DOMAIN since = Observed /\ DOMAIN turn = Observed /\ DOMAIN missed = Observed
    /\ \A m \in Observed : missed[m] \in BOOLEAN /\ (missed[m] \/ since[m] = turn[m])
    /\ \A m \in Observed : modules[m].every # 0 => Age(m)

\* It is the turn of m in this step, whatever comes of it.
Turned(m) ==
    \/ pc = "format" /\ pc' = "wait" /\ i = m
    \/ pc = "format" /\ pc' = "count" /\ m \in i .. Len(modules) /\ Due(m)

LEMMA TurnIs == \A m : m \in Sent \cup Missed <=> Turned(m)
  BY DEF Sent, Missed, Turned

\* What a step does to the counts of a module.
LEMMA TurnNext ==
    ASSUME HNext, AgeInv, NEW m \in Observed
    PROVE  /\ Turned(m) => turn'[m] = 0
           /\ pc = "round" /\ pc' # "round" =>
                turn'[m] = IF turn[m] <= modules[m].every THEN turn[m] + 1 ELSE turn[m]
           /\ ~Turned(m) /\ ~(pc = "round" /\ pc' # "round") => turn'[m] = turn[m]
           /\ missed'[m] \in BOOLEAN /\ (missed'[m] \/ since'[m] = turn'[m])
<1>1. turn'[m] = IF Turned(m) THEN 0 ELSE Older(m, turn[m])
  BY TurnIs DEF HNext
<1>2. pc = "round" => ~Turned(m)
  BY DEF Turned
<1>3. missed'[m] \in BOOLEAN /\ (missed'[m] \/ since'[m] = turn'[m])
  <2>1. CASE m \in Missed
    BY <2>1 DEF HNext
  <2>2. CASE m \in Sent
    BY <2>2 DEF HNext
  <2>3. CASE m \notin Missed /\ m \notin Sent
    <3>1. missed[m] \in BOOLEAN /\ (missed[m] \/ since[m] = turn[m])
      BY DEF AgeInv
    <3>2. /\ since'[m] = Older(m, since[m]) /\ turn'[m] = Older(m, turn[m])
          /\ missed'[m] <=> missed[m]
          /\ missed'[m] \in BOOLEAN
      BY <2>3 DEF HNext
    <3> QED  BY <3>1, <3>2
  <2> QED  BY <2>1, <2>2, <2>3
<1> QED  BY <1>1, <1>2, <1>3 DEF Older

\* loop_count counts on or wraps around.
LEMMA Wraps ==
    ASSUME NEW n \in 0 .. LoopLimit - 1
    PROVE  (n + 1) % LoopLimit \in {0, n + 1}
<1>1. CASE n + 1 = LoopLimit
  <2>1. n + 1 = LoopLimit * 1 + 0
    BY <1>1
  <2> QED  BY <2>1, Unique
<1>2. CASE n + 1 # LoopLimit
  <2>1. n + 1 = LoopLimit * 0 + (n + 1) /\ n + 1 \in 0 .. LoopLimit - 1
    BY <1>2
  <2> QED  BY <2>1, Unique
<1> QED  BY <1>1, <1>2

\* What the other steps do with the loop's place: skip a module, go on after a
\* wait, or within a call, end the scan, stay between rounds, end, or nothing.
Move ==
    \/ Goto("module", "module") /\ i' = i + 1 /\ i \in Indices /\ ~Due(i)
    \/ Goto("wait", "module") /\ i' = i + 1
    \/ {pc, pc'} \subseteq {"module", "calling", "reading", "reaping", "format"} /\ i' = i
    \/ Goto("module", "count") /\ i' = i /\ i \notin Indices
    \/ Goto("format", "count") /\ i' = i /\ modules[i].overlong
    \/ pc \in {"snooze", "sleeping", "check"} /\ pc' \in {"sleeping", "check", "round", "exited"}
    \/ pc # "round" /\ pc' \in {"died", "crashed"}
    \/ UNCHANGED <<pc, i>>

LEMMA Moves ==
    ASSUME TypeOK, Next, ~BeginRound, ~Fork, ~ForkFails, ~CountRound
    PROVE  Move /\ loop_count' = loop_count
<1> USE DEF Move, Goto
<1>1. CASE Crash \/ SpawnFails \/ NullFormat
  BY <1>1 DEF Crash, SpawnFails, NullFormat
<1>2. CASE SkipModule
  BY <1>2 DEF SkipModule
<1>3. CASE CallBuiltin \/ BuiltinReturns \/ CallRunExec \/ ReadToEnd \/ ReapCommand
  BY <1>3 DEF CallBuiltin, BuiltinReturns, CallRunExec, ReadToEnd, ReapCommand
<1>4. CASE Overlong \/ EndScan
  BY <1>4 DEF Overlong, EndScan
<1>5. CASE Wait \/ NoChild
  BY <1>5 DEF Wait, NoChild
<1>6. CASE Snooze \/ Wake \/ Check \/ SignalUsr1
  BY <1>6 DEF Snooze, Wake, Check, SignalUsr1
<1>7. CASE Children \/ PipeUse
  BY <1>7 DEF Children, Deliver, ChildExit, PipeUse, loop
<1>8. CASE SignalTerm
  BY <1>8 DEF SignalTerm, Interrupt
<1> QED  BY <1>1, <1>2, <1>3, <1>4, <1>5, <1>6, <1>7, <1>8 DEF Next, Step

\* The ages are right when the program starts.
LEMMA InitAge == HInit => AgeInv
<1> SUFFICES ASSUME HInit, NEW m \in Observed, modules[m].every # 0 PROVE Age(m)
  BY DEF AgeInv, HInit
<1>1. modules[m].every \in Nat \ {0}
  BY ModuleType, ObservedAssumption DEF Module
<1>2. pc = "round" /\ loop_count = 0 /\ turn[m] = 0
  BY DEF HInit, Init
<1>3. Gap(m) = modules[m].every - 1
  BY <1>1, <1>2, Gaps DEF Gap
<1> QED  BY <1>1, <1>2, <1>3 DEF Age, Passed, InRound, Blocking

\* Every step of the loop keeps them right: no module is passed in a round
\* without having its turn, unless its update_interval does not divide
\* loop_count.
LEMMA NextAge == TypeOK /\ TypeOK' /\ AgeInv /\ [HNext]_hvars => AgeInv'
<1> SUFFICES ASSUME TypeOK, TypeOK', AgeInv, [HNext]_hvars PROVE AgeInv'
  OBVIOUS
<1>0. CASE UNCHANGED hvars
  BY <1>0 DEF hvars, vars, AgeInv, Age, Gap, Passed
<1>1. SUFFICES ASSUME HNext, NEW m \in Observed, modules[m].every # 0 PROVE Age(m)'
  <2>1. CASE HNext
    <3>1. DOMAIN since' = Observed /\ DOMAIN turn' = Observed /\ DOMAIN missed' = Observed
      BY <2>1 DEF HNext
    <3>2. \A m \in Observed : missed'[m] \in BOOLEAN /\ (missed'[m] \/ since'[m] = turn'[m])
      BY <2>1, TurnNext
    <3>3. \A m \in Observed : modules[m].every # 0 => Age(m)'
      BY <1>1, <2>1
    <3> QED  BY <3>1, <3>2, <3>3 DEF AgeInv
  <2> QED  BY <1>0, <2>1
<1> DEFINE e == modules[m].every
           n == loop_count
<1>2. /\ m \in Indices /\ m \in Nat /\ e \in Nat \ {0} /\ n \in Nat /\ n' \in Nat
      /\ i \in Nat /\ i' \in Nat
  <2>1. m \in Indices /\ modules[m] \in Module /\ e # 0
    BY <1>1, ModuleType, ObservedAssumption
  <2> QED  BY <2>1, ModuleType DEF Module, TypeOK, Indices
<1>3. Age(m)
  BY <1>1 DEF AgeInv
<1>4. /\ n % e \in 0 .. e - 1
      /\ Gap(m) \in 0 .. e - 1
      /\ n % e # 0 => Gap(m) + 1 = n % e
      /\ n' % e \in 0 .. e - 1
      /\ Gap(m)' \in 0 .. e - 1
  <2> HIDE DEF e, n
  <2>1. Gap(m) = GapAt(n, e) /\ Gap(m)' = GapAt(n', e)
    BY DEF Gap, e, n
  <2>2. /\ n % e \in 0 .. e - 1 /\ GapAt(n, e) \in 0 .. e - 1
        /\ n % e # 0 => GapAt(n, e) + 1 = n % e
    BY <1>2, Gaps
  <2>3. n' % e \in 0 .. e - 1 /\ GapAt(n', e) \in 0 .. e - 1
    BY <1>2, Gaps
  <2> QED  BY <2>1, <2>2, <2>3, Zenon
<1>5. n' = n => n' % e = n % e /\ Gap(m)' = Gap(m)
  BY DEF Gap
<1>6. CASE BeginRound
  <2>1. pc = "round" /\ pc' = "module" /\ i' = 1 /\ n' = n
    BY <1>6 DEF BeginRound, Goto
  <2>2. turn'[m] = turn[m] + 1 /\ turn[m] \in 0 .. Gap(m)
    BY <1>1, <1>2, <1>3, <1>4, <2>1, TurnNext DEF Age
  <2>3. ~Passed(m)'
    BY <1>2, <2>1 DEF Passed, InRound, Blocking, Indices
  <2>4. turn'[m] \in 0 .. e /\ turn'[m] <= Gap(m)' + 1
    <3>1. Gap(m)' = Gap(m) /\ Gap(m) \in 0 .. e - 1 /\ e \in Nat
      BY <1>2, <1>4, <1>5, <2>1
    <3> HIDE DEF e, n
    <3> QED  BY <2>2, <3>1
  <2> QED  BY <2>1, <2>3, <2>4 DEF Age
<1>7. CASE Fork \/ ForkFails
  <2>1. pc = "format" /\ pc' = "wait" /\ i' = i /\ n' = n
    BY <1>7 DEF Fork, ForkFails, Goto
  <2>2. CASE i = m
    <3>1. turn'[m] = 0
      BY <1>1, <2>1, <2>2, TurnNext DEF Turned
    <3> QED  BY <1>2, <1>4, <2>1, <2>2, <3>1 DEF Age, Passed
  <2>3. CASE i # m
    <3>1. turn'[m] = turn[m]
      BY <1>1, <2>1, <2>3, TurnNext DEF Turned
    <3>2. Passed(m)' <=> Passed(m)
      BY <1>2, <2>1, <2>3 DEF Passed, InRound, Blocking
    <3> QED  BY <1>3, <1>5, <2>1, <3>1, <3>2 DEF Age, InRound, Blocking
  <2> QED  BY <2>2, <2>3
<1>8. CASE CountRound
  <2>1. pc = "count" /\ pc' \in {"check", "snooze"} /\ n' = (n + 1) % LoopLimit
    BY <1>8 DEF CountRound
  <2>2. turn'[m] = turn[m] /\ turn[m] \in 0 .. n % e
    BY <1>1, <1>2, <1>3, <2>1, TurnNext DEF Turned, Age, Passed
  <2>3. n' = 0 \/ n' = n + 1
    BY <1>2, <2>1, Wraps DEF TypeOK
  <2>4. Gap(m)' = IF n' = 0 THEN e - 1 ELSE n % e
    <3> HIDE DEF e, n
    <3>1. Gap(m)' = GapAt(n', e)
      BY DEF Gap, e, n
    <3> QED  BY <1>2, <2>3, <3>1, Gaps
  <2>5. turn'[m] \in 0 .. Gap(m)'
    <3>1. turn'[m] \in 0 .. n % e /\ n % e \in 0 .. e - 1 /\ e \in Nat
      BY <1>2, <1>4, <2>2
    <3> HIDE DEF e, n
    <3> QED  BY <2>4, <3>1
  <2>6. turn'[m] \in 0 .. e
    <3>1. Gap(m)' \in 0 .. e - 1 /\ e \in Nat
      BY <1>2, <1>4
    <3> HIDE DEF e, n
    <3> QED  BY <2>5, <3>1
  <2>7. pc' \notin InRound /\ pc' # "wait"
    BY <2>1 DEF InRound, Blocking
  <2>8. ~Passed(m)'
    BY <2>1, <2>7 DEF Passed
  <2> QED  BY <2>5, <2>6, <2>7, <2>8 DEF Age
<1>9. CASE ~(BeginRound \/ Fork \/ ForkFails \/ CountRound)
  <2>1. Move /\ n' = n
    BY <1>1, <1>9, Moves DEF HNext
  <2>2. ~Turned(m) => turn'[m] = turn[m]
    BY <1>1, <2>1, TurnNext DEF Move, Goto
  <2>a. ~(pc = "format" /\ pc' \in {"wait", "count"}) => turn'[m] = turn[m]
    BY <2>2 DEF Turned
  <2>3. CASE Goto("module", "module") /\ i' = i + 1 /\ i \in Indices /\ ~Due(i)
    <3>1. Passed(m)' <=> Passed(m) \/ i = m
      BY <1>2, <2>3 DEF Goto, Passed, InRound, Blocking
    <3>2. i = m => turn[m] <= n % e
      BY <1>2, <1>3, <1>4, <2>3 DEF Goto, Due, Age, Passed, InRound
    <3> QED  BY <1>3, <1>5, <2>1, <2>a, <2>3, <3>1, <3>2 DEF Goto, Age, InRound
  <2>4. CASE Goto("wait", "module") /\ i' = i + 1
    <3>1. Passed(m)' <=> Passed(m)
      BY <1>2, <2>4 DEF Goto, Passed, InRound, Blocking
    <3> QED  BY <1>3, <1>5, <2>1, <2>a, <2>4, <3>1 DEF Goto, Age, InRound, Blocking
  <2>5. CASE {pc, pc'} \subseteq {"module", "calling", "reading", "reaping", "format"} /\ i' = i
    BY <1>3, <1>5, <2>1, <2>a, <2>5 DEF Age, Passed, InRound, Blocking
  <2>6. CASE Goto("module", "count") /\ i' = i /\ i \notin Indices
    <3>1. i > m
      BY <1>1, <1>2, <2>6 DEF Goto, TypeOK, Indices
    <3> QED  BY <1>3, <1>5, <2>1, <2>a, <2>6, <3>1 DEF Goto, Age, Passed, InRound
  <2>b. CASE Goto("format", "count") /\ i' = i /\ modules[i].overlong
    <3>1. turn'[m] \in 0 .. e /\ turn'[m] <= n % e
      <4>1. CASE Turned(m)
        BY <1>1, <1>2, <1>4, <4>1, TurnNext
      <4>2. CASE ~Turned(m) /\ i > m
        BY <1>2, <1>3, <2>2, <2>b, <4>2 DEF Goto, Age, Passed, InRound
      <4>3. CASE ~Turned(m) /\ ~(i > m)
        <5>1. ~Due(m)
          BY <1>2, <2>b, <4>3 DEF Goto, Turned, Indices
        <5>2. n % e # 0 /\ Gap(m) + 1 = n % e
          BY <1>2, <1>4, <5>1 DEF Due
        <5>3. turn[m] \in 0 .. e /\ turn[m] <= Gap(m) + 1
          BY <1>3, <2>b, <4>3 DEF Goto, Age, Passed, InRound
        <5> QED  BY <2>2, <4>3, <5>2, <5>3
      <4> QED  BY <4>1, <4>2, <4>3
    <3> QED  BY <1>5, <2>1, <2>b, <3>1 DEF Goto, Age, Passed, InRound, Blocking
  <2>7. CASE pc \in {"snooze", "sleeping", "check"}
             /\ pc' \in {"sleeping", "check", "round", "exited"}
    BY <1>3, <1>5, <2>1, <2>a, <2>7 DEF Age, Passed, InRound, Blocking
  <2>8. CASE pc # "round" /\ pc' \in {"died", "crashed"}
    BY <1>3, <1>5, <2>1, <2>a, <2>8 DEF Age, Passed, InRound, Blocking
  <2>9. CASE UNCHANGED <<pc, i>>
    BY <1>3, <1>5, <2>1, <2>a, <2>9 DEF Age, Passed
  <2> QED  BY <2>1, <2>3, <2>4, <2>5, <2>6, <2>7, <2>8, <2>9, <2>b DEF Move
<1> QED  BY <1>6, <1>7, <1>8, <1>9

\* The loop observed is the loop.
LEMMA LoopObserved == HSpec => Spec
<1>1. HInit => Init
  BY DEF HInit
<1>2. [HNext]_hvars => [Next]_vars
  BY DEF HNext, hvars
<1> QED  BY <1>1, <1>2, PTL DEF HSpec, Spec

\* Each module has its turn within every update_interval rounds, and a duskc
\* is started for it then unless a fork failed or an overlong text ended the
\* round, for every configuration, however few values loop_count has and
\* whatever update_intervals divide them (lines 126-127, 134, 138, 148).
THEOREM Timely == HSpec => []OnTime
<1>1. TypeOK /\ AgeInv => OnTime
  <2> SUFFICES ASSUME TypeOK, AgeInv, NEW m \in Observed, modules[m].every # 0
               PROVE  turn[m] <= modules[m].every /\ (since[m] > modules[m].every => missed[m])
    BY DEF OnTime
  <2>1. modules[m].every \in Nat
    BY ModuleType, ObservedAssumption DEF Module
  <2> QED  BY <2>1 DEF AgeInv, Age
<1> QED  BY <1>1, InitAge, NextAge, LoopObserved, TypeCorrect, PTL DEF HSpec
=============================================================================
