------------------------------ MODULE RunExec -------------------------------
(* A call of run_exec (src/components/run_exec.c) with the command it        *)
(* starts: the pipe between them, the global buffer that the output is read  *)
(* into and that keeps what the calls before left there, the signals that    *)
(* end read and waitpid early, and what the call returns.                    *)
EXTENDS Integers, Sequences, SequencesExt

CONSTANTS
    BufSize,    \* sizeof(buf): 1024
    PipeSize,   \* what the kernel buffers before a writer blocks: 65536
    Byte,       \* the values of a char
    Outputs,    \* what a command may print
    Behind,     \* the strings that may stand in memory right behind buf
    MaxInts     \* bound: SIGINT and SIGTERM during one call

NUL == "NUL"    \* the byte that ends a string
NL  == "NL"     \* '\n'

ASSUME SizeAssumption == BufSize \in Nat \ {0} /\ PipeSize \in Nat /\ MaxInts \in Nat
ASSUME ByteAssumption == {NUL, NL} \subseteq Byte
ASSUME OutputsAssumption == Outputs \subseteq Seq(Byte)
ASSUME BehindAssumption == Behind \subseteq Seq(Byte \ {NUL})

VARIABLES
    pc,         \* where the call is
    buf,        \* char buf[1024], shared by all components
    pipe,       \* bytes in the pipe
    wr, rd,     \* whether the parent has the write and the read end open
    out,        \* what the command has still to print
    child,      \* the command's process
    held,       \* whether a process that it left behind has the write end open
    ints,       \* signals so far in this call
    result,     \* what the call has returned; <<>> for NULL and during the call
    whole,      \* ghost: all that the command prints
    reads,      \* ghost: how many reads returned bytes in this call
    before,     \* ghost: buf when run_exec was called
    filled,     \* ghost: whether a read, of this call or an earlier one, filled buf
    overrun     \* ghost: whether a call has written behind buf

vars == <<pc, buf, pipe, wr, rd, out, child, held, ints, result, whole, reads, before,
          filled, overrun>>
ghosts == <<whole, reads, before, filled, overrun>>

\* Mutant of Init: buf is not zeroed, as one from malloc or the stack.
InitUnset ==
    /\ pc = "idle"
    /\ \E c \in Byte : buf = [k \in 1 .. BufSize |-> c]
    /\ pipe = <<>> /\ out = <<>> /\ whole = <<>> /\ result = <<>>
    /\ wr = FALSE /\ rd = FALSE
    /\ child = "none" /\ held = FALSE
    /\ ints = 0 /\ reads = 0
    /\ before = buf
    /\ filled = FALSE /\ overrun = FALSE

\* buf is static: all of it is zero.
Init ==
    /\ pc = "idle"
    /\ buf = [k \in 1 .. BufSize |-> NUL]
    /\ pipe = <<>> /\ out = <<>> /\ whole = <<>> /\ result = <<>>
    /\ wr = FALSE /\ rd = FALSE
    /\ child = "none" /\ held = FALSE
    /\ ints = 0 /\ reads = 0
    /\ before = buf
    /\ filled = FALSE /\ overrun = FALSE

-----------------------------------------------------------------------------
(* Strings in a buffer                                                       *)

FirstAt(b, c) == SelectInSeq(b, LAMBDA x : x = c)
LastAt(b, c)  == SelectLastInSeq(b, LAMBDA x : x = c)

\* The string that starts at b; what follows b ends it if nothing in b does.
CString(b) == IF FirstAt(b, NUL) = 0 THEN b ELSE SubSeq(b, 1, FirstAt(b, NUL) - 1)

\* Mutant of CutLastLine: the line break stays.
CutNothing(b) == b

\* if ((p = strrchr(buf, '\n'))) p[0] = '\0';
CutLastLine(b) ==
    LET nl == LastAt(CString(b), NL)
    IN  IF nl = 0 THEN b ELSE [b EXCEPT ![nl] = NUL]

\* What run_command (src/components/run_command.c) returns for the same
\* output: fgets stops after a line break or at sizeof(buf) - 2 bytes.
run_command(text) ==
    LET nl   == FirstAt(text, NL)
        line == IF nl = 0 THEN text ELSE SubSeq(text, 1, nl - 1)
    IN  CString(SubSeq(line, 1, IF Len(line) < BufSize - 2 THEN Len(line) ELSE BufSize - 2))

-----------------------------------------------------------------------------
(* run_exec                                                                  *)

Goto(from, to) == pc = from /\ pc' = to

\* buf[0] = '\0'; pipe(pipefd)
Call ==
    /\ Goto("idle", "spawn")
    /\ buf' = [buf EXCEPT ![1] = NUL]
    /\ pipe' = <<>> /\ wr' = TRUE /\ rd' = TRUE
    /\ \E o \in Outputs : out' = o /\ whole' = o
    /\ ints' = 0 /\ reads' = 0 /\ before' = buf
    /\ held' = FALSE       \* of this call's pipe
    /\ result' = <<>>
    /\ UNCHANGED <<child, filled, overrun>>

\* pipe or posix_spawnp fails: die().
SpawnFails ==
    /\ Goto("spawn", "died")
    /\ UNCHANGED <<buf, pipe, wr, rd, out, child, held, ints, result, ghosts>>

\* posix_spawnp: the command gets the write end, also as its standard output,
\* and not the read end, by posix_spawn_file_actions_addclose.
Spawn ==
    /\ Goto("spawn", "spawned")
    /\ child' = "running"
    /\ UNCHANGED <<buf, pipe, wr, rd, out, held, ints, result, ghosts>>

\* Mutant of CloseWrite: the parent keeps its write end.
CloseWriteNever ==
    /\ Goto("spawned", "reading")
    /\ UNCHANGED <<buf, pipe, wr, rd, out, child, held, ints, result, ghosts>>

\* close(pipefd[1])
CloseWrite ==
    /\ Goto("spawned", "reading")
    /\ wr' = FALSE
    /\ UNCHANGED <<buf, pipe, rd, out, child, held, ints, result, ghosts>>

\* read(pipefd[0], buf, sizeof(buf)) returns what is there: every read starts
\* at the beginning of buf again, and none ends the string.
Read ==
    /\ pc = "reading" /\ pipe # <<>>
    /\ LET n == IF Len(pipe) < BufSize THEN Len(pipe) ELSE BufSize
       IN  /\ buf' = [k \in 1 .. BufSize |-> IF k <= n THEN pipe[k] ELSE buf[k]]
           /\ pipe' = SubSeq(pipe, n + 1, Len(pipe))
           /\ filled' = (filled \/ n = BufSize)
    /\ reads' = reads + 1
    /\ UNCHANGED <<pc, wr, rd, out, child, held, ints, result, whole, before, overrun>>

\* Nobody has the write end open any more: read returns 0.
EndOfFile ==
    /\ Goto("reading", "closing")
    /\ pipe = <<>> /\ ~wr /\ child # "running" /\ ~held
    /\ UNCHANGED <<buf, pipe, wr, rd, out, child, held, ints, result, ghosts>>

\* Mutant of CloseRead: it comes after waitpid.
CloseReadLater ==
    /\ Goto("closing", "waiting")
    /\ UNCHANGED <<buf, pipe, wr, rd, out, child, held, ints, result, ghosts>>

\* close(pipefd[0])
CloseRead ==
    /\ Goto("closing", "waiting")
    /\ rd' = FALSE
    /\ UNCHANGED <<buf, pipe, wr, out, child, held, ints, result, ghosts>>

\* Mutant of WaitPid: WNOHANG.
WaitPidPolls ==
    /\ Goto("waiting", "cutting")
    /\ child' = IF child = "exited" THEN "none" ELSE child
    /\ UNCHANGED <<buf, pipe, wr, rd, out, held, ints, result, ghosts>>

\* waitpid(pid, NULL, 0)
WaitPid ==
    /\ Goto("waiting", "cutting")
    /\ child = "exited"
    /\ child' = "none"
    /\ UNCHANGED <<buf, pipe, wr, rd, out, held, ints, result, ghosts>>

\* The line break is replaced; return buf[0] ? buf : NULL.  Where reads have left
\* no byte in buf that ends the string, strrchr, and whoever shows the text, go
\* on in the memory behind it, and the line break that is replaced may be there.
Return ==
    /\ Goto("cutting", "idle")
    /\ \E behind \in IF FirstAt(buf, NUL) = 0 THEN Behind ELSE {<<>>} :
          LET memory == CutLastLine(buf \o behind)
          IN  /\ buf' = SubSeq(memory, 1, BufSize)
              /\ result' = CString(memory)
              /\ overrun' = (overrun \/ SubSeq(memory, BufSize + 1, Len(memory)) # behind)
    /\ child' = "none"      \* a command that was not waited for is left alone
    /\ UNCHANGED <<pipe, wr, rd, out, held, ints, whole, reads, before, filled>>

\* A SIGINT or SIGTERM arrives during read or waitpid, which return EINTR.
Interrupted ==
    /\ Goto("reading", "closing") \/ Goto("waiting", "cutting")
    /\ ints < MaxInts
    /\ ints' = ints + 1
    /\ UNCHANGED <<buf, pipe, wr, rd, out, child, held, result, ghosts>>

-----------------------------------------------------------------------------
(* The command                                                               *)

\* Who has the write end writes some of the output; the kernel takes what the
\* pipe has room for.
Output ==
    /\ child = "running" \/ held
    /\ rd
    /\ \E n \in 1 .. Len(out) :
          /\ Len(pipe) + n <= PipeSize
          /\ pipe' = pipe \o SubSeq(out, 1, n)
          /\ out' = SubSeq(out, n + 1, Len(out))
    /\ UNCHANGED <<pc, buf, wr, rd, child, held, ints, result, ghosts>>

\* It writes, but nobody can read the pipe any more: SIGPIPE ends it.
BrokenPipe ==
    /\ out # <<>> /\ ~rd
    /\ \/ child = "running" /\ child' = "exited" /\ UNCHANGED held
       \/ held /\ held' = FALSE /\ UNCHANGED child
    /\ UNCHANGED <<pc, buf, pipe, wr, rd, out, ints, result, ghosts>>

\* The command exits and leaves a process in the background that has inherited
\* its standard output ("sleep 60 &"), and what is still to be printed.
LeaveBehind ==
    /\ child = "running" /\ ~held
    /\ child' = "exited" /\ held' = TRUE
    /\ UNCHANGED <<pc, buf, pipe, wr, rd, out, ints, result, ghosts>>

\* That process ends, some time or never.
BackgroundEnds ==
    /\ held /\ out = <<>>
    /\ held' = FALSE
    /\ UNCHANGED <<pc, buf, pipe, wr, rd, out, child, ints, result, ghosts>>

\* It has printed all, and closes what it has of the pipe (its standard output,
\* and pipefd[1], which lines 33 and 34 leave open in it) or exits.
ClosePipe ==
    /\ child = "running" /\ out = <<>>
    /\ child' = "closed"
    /\ UNCHANGED <<pc, buf, pipe, wr, rd, out, held, ints, result, ghosts>>

Exit ==
    /\ \/ child = "running" /\ out = <<>>
       \/ child = "closed"
    /\ child' = "exited"
    /\ UNCHANGED <<pc, buf, pipe, wr, rd, out, held, ints, result, ghosts>>

-----------------------------------------------------------------------------
Parent == Spawn \/ CloseWrite \/ Read \/ EndOfFile \/ CloseRead \/ WaitPid \/ Return
Command == Output \/ BrokenPipe \/ ClosePipe \/ Exit

Next == Call \/ SpawnFails \/ Parent \/ Interrupted \/ Command \/ LeaveBehind \/ BackgroundEnds

Spec == Init /\ [][Next]_vars

\* Both processes run; the command prints what it has to print and exits.
FairSpec == Spec /\ WF_vars(Parent) /\ WF_vars(Command)
-----------------------------------------------------------------------------
(* Properties *)

\* Types, and which ends of the pipe are open where.
TypeOK ==
    /\ pc \in {"idle", "spawn", "spawned", "reading", "closing", "waiting", "cutting", "died"}
    /\ Len(buf) = BufSize /\ Len(pipe) <= PipeSize
    /\ wr => pc \in {"spawn", "spawned", "died"}
    /\ pc \in {"idle", "waiting", "cutting"} => ~rd
    /\ child \in {"none", "running", "closed", "exited"}
    /\ held => child \in {"none", "exited"}
    /\ ints \in 0 .. MaxInts

\* A call returns, however much the command prints and wherever a signal
\* hits: the parent drains the pipe, sees its end because it has closed its
\* own write end (line 56), and closes the read end before it waits (61-64),
\* so that a command that is still printing ends.  Only a process in the
\* background can keep the call, as long as it has the pipe open (line 59).
Returns == []<>~held => (pc = "spawn" ~> pc \in {"idle", "died"})

\* The output that run_exec handles: one line that one read returns, with no
\* line break left in buf, and behind the line something that ends the string
\* (lines 58-70).
SingleLine ==
    (pc = "idle" /\ reads = 1 /\ ints = 0 /\ LastAt(before, NL) = 0
        /\ LastAt(before, NUL) > Len(whole)
        /\ FirstAt(whole, NL) = Len(whole) /\ whole # <<>>)
    => result = run_command(whole)

\* As long as no output has filled buf, in this call or in any before it, all
\* calls stay inside it: read never ends the string, but the last byte is still
\* the zero it was at the start (lines 59, 69-70).
StaysInside == overrun => filled

\* This call, as the loop sees it.
AsSeen == INSTANCE CommandCall WITH
    at <- CASE pc \in {"spawned", "reading"} -> "reading"
            [] pc \in {"closing", "waiting"} -> "reaping"
            [] pc = "died"                   -> "died"
            [] OTHER                         -> "out",
    child <- IF pc \in {"idle", "spawn", "cutting", "died"} THEN "none"
             ELSE CASE child = "closed" -> "running"
                    [] child = "exited" -> "zombie"
                    [] OTHER            -> child,
    signals <- ints

\* To the main loop run_exec is what CommandCall says: it starts a child,
\* reads, waits for the child, and leaves it behind, so that the loop's wait()
\* may take it for a duskc, only if a signal ends waitpid (run_exec.c:53-64).
ImplementsCall == AsSeen!Spec
=============================================================================
