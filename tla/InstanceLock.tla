---------------------------- MODULE InstanceLock ----------------------------
(* The lock file that main takes when it starts and gives back when it ends  *)
(* (src/slstatus.c, lines 62-112 and 164-172): processes of one user on one  *)
(* display, the path they share, the files that were created under it, and   *)
(* the fcntl locks on those files.  A process slot is used by one process    *)
(* after another.                                                            *)
EXTENDS Integers, FiniteSets

CONSTANTS
    Procs,      \* process slots
    Inodes,     \* files the file system can create
    None        \* no process, no file

ASSUME NoneAssumption == None \notin Procs \cup Inodes

Options == {"none", "v", "1", "s"}

VARIABLES
    pc,         \* how far each process got
    opt,        \* the option it was started with
    path,       \* the file that lock_file names
    fd,         \* the file each process has open as lock_fd
    lock,       \* which process holds the write lock of each file
    raced       \* ghost: a process unlinked a file that another had open

vars == <<pc, opt, path, fd, lock, raced>>

Ended == {"notopened", "refused", "version", "usage", "exited", "killed"}
Alive == {"start", "prepared", "opened", "args", "running", "unlocked", "closed"}

Init ==
    /\ pc = [p \in Procs |-> "start"]
    /\ opt \in [Procs -> Options]
    /\ path = None
    /\ fd = [p \in Procs |-> None]
    /\ lock = [f \in Inodes |-> None]
    /\ raced = FALSE

Goto(p, from, to) == pc[p] = from /\ pc' = [pc EXCEPT ![p] = to]

\* Mutant of Ends: a lock that outlives its process, like the existence of a file.
EndsLocked(p) ==
    /\ fd' = [fd EXCEPT ![p] = None]
    /\ UNCHANGED lock

\* The end of a process closes lock_fd and releases its locks.
Ends(p) ==
    /\ fd' = [fd EXCEPT ![p] = None]
    /\ lock' = [f \in Inodes |-> IF lock[f] = p THEN None ELSE lock[f]]

\* load_config, and run_command("duskc get_bar_height"), which returns when the
\* command ends, if it does; either may also end the process (Kill).
Prepare(p) ==
    /\ Goto(p, "start", "prepared")
    /\ UNCHANGED <<opt, path, fd, lock, raced>>

\* Mutant of Open: the file is always created anew.
OpenAnew(p) ==
    /\ Goto(p, "prepared", "opened")
    /\ path' \in Inodes \ {fd[q] : q \in Procs}
    /\ fd' = [fd EXCEPT ![p] = path']
    /\ UNCHANGED <<opt, lock, raced>>

\* open(lock_file, O_CREAT | O_RDWR): the file of that name, or a new one.
Open(p) ==
    /\ Goto(p, "prepared", "opened")
    /\ path' \in IF path # None THEN {path} ELSE Inodes \ {fd[q] : q \in Procs}
    /\ fd' = [fd EXCEPT ![p] = path']
    /\ UNCHANGED <<opt, lock, raced>>

\* open fails: exit(1).
OpenFails(p) ==
    /\ Goto(p, "prepared", "notopened")
    /\ UNCHANGED <<opt, path, fd, lock, raced>>

\* Mutant of Acquire: a read lock, which does not exclude.
AcquireShared(p) ==
    /\ Goto(p, "opened", "args")
    /\ lock' = [lock EXCEPT ![fd[p]] = p]
    /\ UNCHANGED <<opt, path, fd, raced>>

\* fcntl(lock_fd, F_SETLK, &fl) with F_WRLCK.
Acquire(p) ==
    /\ Goto(p, "opened", "args")
    /\ lock[fd[p]] = None
    /\ lock' = [lock EXCEPT ![fd[p]] = p]
    /\ UNCHANGED <<opt, path, fd, raced>>

\* Mutant of Refused: F_SETLKW, which waits.
RefusedNever(p) == pc[p] = "refusing" /\ UNCHANGED vars

\* The file is locked: "Another instance of the program is already running".
Refused(p) ==
    /\ Goto(p, "opened", "refused")
    /\ lock[fd[p]] # None
    /\ Ends(p)
    /\ UNCHANGED <<opt, path, raced>>

\* ARGBEGIN, which comes after the lock: -v prints the version and dies, -1
\* falls through to usage(), which dies, as for every other option.
ParseArgs(p) ==
    \/ /\ opt[p] = "none" /\ Goto(p, "args", "running")
       /\ UNCHANGED <<opt, path, fd, lock, raced>>
    \/ /\ opt[p] = "v" /\ Goto(p, "args", "version")
       /\ Ends(p) /\ UNCHANGED <<opt, path, raced>>
    \/ /\ opt[p] \in {"1", "s"} /\ Goto(p, "args", "usage")
       /\ Ends(p) /\ UNCHANGED <<opt, path, raced>>

\* The loop has ended: fcntl(lock_fd, F_SETLK, &fl) with F_UNLCK.
Unlock(p) ==
    /\ Goto(p, "running", "unlocked")
    /\ lock' = [lock EXCEPT ![fd[p]] = None]
    /\ UNCHANGED <<opt, path, fd, raced>>

\* close(lock_fd)
Close(p) ==
    /\ Goto(p, "unlocked", "closed")
    /\ fd' = [fd EXCEPT ![p] = None]
    /\ UNCHANGED <<opt, path, lock, raced>>

\* unlink(lock_file), whichever file has that name by now.
Unlink(p) ==
    /\ Goto(p, "closed", "exited")
    /\ path' = None
    /\ raced' = (raced \/ \E q \in Procs : fd[q] # None /\ fd[q] = path)
    /\ UNCHANGED <<opt, fd, lock>>

\* SIGKILL, a die() of a module, a crash, SIGTERM before the handler is
\* installed: the process ends wherever it is and leaves the file behind.
Kill(p) ==
    /\ pc[p] \in Alive
    /\ pc' = [pc EXCEPT ![p] = "killed"]
    /\ Ends(p)
    /\ UNCHANGED <<opt, path, raced>>

\* Another process is started, with any option.
Start(p) ==
    /\ pc[p] \in Ended
    /\ pc' = [pc EXCEPT ![p] = "start"]
    /\ \E o \in Options : opt' = [opt EXCEPT ![p] = o]
    /\ UNCHANGED <<path, fd, lock, raced>>

\* What a process does by itself once it has been prepared.
Work(p) ==
    \/ Open(p) \/ OpenFails(p) \/ Acquire(p) \/ Refused(p) \/ ParseArgs(p)
    \/ Close(p) \/ Unlink(p)

Next == \E p \in Procs : Prepare(p) \/ Work(p) \/ Unlock(p) \/ Kill(p) \/ Start(p)

Spec == Init /\ [][Next]_vars

\* A process runs.  When its command ends and when it is told to stop is open.
FairSpec == Spec /\ \A p \in Procs : WF_vars(Work(p))
-----------------------------------------------------------------------------
(* Properties *)

\* Types, and who has which file open and locked: between open and close the
\* process has a file, and from the lock to F_UNLCK it holds its lock.
TypeOK ==
    /\ pc \in [Procs -> Alive \cup Ended]
    /\ opt \in [Procs -> Options]
    /\ path \in Inodes \cup {None}
    /\ fd \in [Procs -> Inodes \cup {None}]
    /\ lock \in [Inodes -> Procs \cup {None}]
    /\ raced \in BOOLEAN
    /\ \A p \in Procs :
         /\ fd[p] # None <=> pc[p] \in {"opened", "args", "running", "unlocked"}
         /\ pc[p] \in {"args", "running"} => lock[fd[p]] = p

\* A crash leaves no stale lock: a locked file is locked by a live process
\* that is past line 98 and has that file open, so a refused start always
\* has a live instance to blame (lines 94-98, 166-171).
NoStaleLock ==
    \A f \in Inodes : lock[f] # None =>
        pc[lock[f]] \in {"args", "running"} /\ fd[lock[f]] = f

Holders == {p \in Procs : pc[p] \in {"args", "running"}}

\* Lines 77-78: the lock file "prevents multiple instances of this program to
\* be running for the same user on the same display".
MutualExclusion == \A p, q \in Holders : p = q

\* As long as no process unlinks the file while another has it open, the lock
\* does exclude: neither kills nor refused starts nor -v open a gap.
ExclusiveUnlessRaced == ~raced => MutualExclusion

\* Every start is answered: once the command of line 70 has ended, the process
\* runs, or ends with a reason; it never waits for the lock (lines 87-112).
Answered == \A p \in Procs : pc[p] = "prepared" ~> pc[p] = "running" \/ pc[p] \in Ended
=============================================================================
