------------------------------- MODULE Volume -------------------------------
(* vol_perc where the sound server is sndio (volume.c:11-183): a connection  *)
(* that outlives the call, over which the server describes its controls and  *)
(* reports what becomes of them, and the static list that the two call-backs *)
(* keep of them.  The server changes, stops and is started again at any      *)
(* time.                                                                     *)
EXTENDS Integers, SequencesExt

CONSTANTS
    Addrs,          \* addresses of controls
    Controls,       \* what may be at an address
    MaxChanges,     \* bound on what happens to the server
    NULL

Control == [type : {"level", "mute", "none"}, maxval : Nat \ {0}, val : Nat]

\* "none": a control that vol_perc does not use, or that has been removed.
Absent == [type |-> "none", maxval |-> 1, val |-> 0]

ASSUME AddrsAssumption == IsFiniteSet(Addrs) /\ MaxChanges \in Nat
ASSUME ControlsAssumption ==
    /\ Absent \in Controls /\ Controls \subseteq Control
    /\ \A c \in Controls : c.val <= c.maxval

VARIABLES
    server,         \* the control at each address
    up,             \* the server runs
    changes,
    scarce,         \* malloc and calloc may fail
    hdl,            \* is there a handle?
    cut,            \* the server has closed its end of the connection
    queue,          \* what it has sent and sioctl_revents has not read
    initialized,
    controls,       \* the list, its head first
    pc,             \* "idle", "init", "revents"
    value,          \* the last answer
    lost,           \* ghost: addresses whose description met no memory
    seen            \* ghost: the server's controls at the last answer, without lost

serverVars == <<server, up, changes, scarce>>
vars == <<serverVars, hdl, cut, queue, initialized, controls, pc, value, lost, seen>>

\* What the list keeps of a control, and the description that the server sends.
Entry(addr, c) == [addr |-> addr, type |-> c.type, maxval |-> c.maxval, val |-> c.val]
Description(addr, c) ==
    [kind |-> "desc", addr |-> addr, type |-> c.type, maxval |-> c.maxval, val |-> c.val]

Init ==
    /\ server \in [Addrs -> Controls] /\ up \in BOOLEAN /\ changes = 0 /\ scarce = FALSE
    /\ hdl = FALSE /\ cut = FALSE /\ queue = <<>> /\ initialized = FALSE /\ controls = <<>>
    /\ pc = "idle" /\ value = NULL /\ lost = {} /\ seen = <<>>

-----------------------------------------------------------------------------
(* The call-backs, as functions of the list.                                 *)

Delete(list, addr) == RemoveFirstMatch(list, LAMBDA c : c.addr = addr)

\* Mutant: the control that was there before stays in the list.
InsertTwice(list, desc) == <<Entry(desc.addr, desc)>> \o list

\* A control is put at the head in place of the one with its address.
Insert(list, desc) == <<Entry(desc.addr, desc)>> \o Delete(list, desc.addr)

Update(list, addr, val) ==
    LET k == SelectInSeq(list, LAMBDA c : c.addr = addr)
    IN  IF k = 0 THEN list ELSE [list EXCEPT ![k].val = val]

Percent(c) == (c.val * 100 + c.maxval \div 2) \div c.maxval

\* Mutant: the last channel decides.
PercLast(list) ==
    FoldLeft(LAMBDA v, c : CASE c.type = "mute" /\ c.val = 1 -> 0
                             [] c.type = "level"             -> Percent(c)
                             [] OTHER                        -> v, 100, list)

\* The loop over the list: a muted control, or the lowest level.
Perc(list) ==
    LET Lower(v, c) == CASE c.type = "mute" /\ c.val = 1          -> 0
                         [] c.type = "level" /\ Percent(c) < v -> Percent(c)
                         [] OTHER                               -> v
    IN  FoldLeft(Lower, 100, list)

\* Mutant: the list outlives the connection.
CleanupHandle == hdl' = FALSE /\ UNCHANGED controls /\ cut' = FALSE /\ queue' = <<>> /\ lost' = {}

\* The state that cleanup leaves; the closed connection takes its messages along.
Cleanup == hdl' = FALSE /\ controls' = <<>> /\ cut' = FALSE /\ queue' = <<>> /\ lost' = {}

-----------------------------------------------------------------------------
(* vol_perc                                                                  *)

\* init: sioctl_ondesc has every control described, in the order of the server.
Open ==
    /\ pc = "idle" /\ ~initialized /\ up
    /\ \E order \in SetToSeqs(Addrs) :
          queue' = [k \in 1 .. Len(order) |-> Description(order[k], server[order[k]])]
    /\ hdl' = TRUE /\ cut' = FALSE
    /\ pc' = "init"
    /\ UNCHANGED <<serverVars, initialized, controls, value, lost, seen>>

\* sioctl_open fails, or there is no handle to go on with.
NoHandle ==
    /\ pc = "idle"
    /\ IF initialized THEN ~hdl ELSE ~up \/ scarce
    /\ value' = NULL
    /\ UNCHANGED <<serverVars, hdl, cut, queue, initialized, controls, pc, lost, seen>>

\* ondesc, called by sioctl_ondesc or sioctl_revents.
ondesc ==
    /\ pc # "idle" /\ queue # <<>> /\ Head(queue).kind = "desc"
    /\ LET desc == Head(queue)
       IN  \/ /\ desc.type = "none"
              /\ controls' = Delete(controls, desc.addr) /\ lost' = lost \ {desc.addr}
           \/ /\ desc.type # "none"
              /\ controls' = Insert(controls, desc) /\ lost' = lost \ {desc.addr}
           \/ /\ desc.type # "none" /\ scarce
              /\ controls' = Delete(controls, desc.addr) /\ lost' = lost \cup {desc.addr}
    /\ queue' = Tail(queue)
    /\ UNCHANGED <<serverVars, hdl, cut, initialized, pc, value, seen>>

onval ==
    /\ pc # "idle" /\ queue # <<>> /\ Head(queue).kind = "val"
    /\ controls' = Update(controls, Head(queue).addr, Head(queue).val)
    /\ queue' = Tail(queue)
    /\ UNCHANGED <<serverVars, hdl, cut, initialized, pc, value, lost, seen>>

\* The call-backs are set and pfds is there; vol_perc polls at once.
Initialize ==
    /\ pc = "init" /\ queue = <<>>
    /\ initialized' = TRUE
    /\ pc' = "revents"
    /\ UNCHANGED <<serverVars, hdl, cut, queue, controls, value, lost, seen>>

\* A call of libsndio or calloc fails after sioctl_open.
InitFails ==
    /\ pc = "init" /\ (cut \/ scarce)
    /\ Cleanup
    /\ pc' = "idle" /\ value' = NULL
    /\ UNCHANGED <<serverVars, initialized, seen>>

Poll ==
    /\ pc = "idle" /\ initialized /\ hdl
    /\ pc' = "revents"
    /\ UNCHANGED <<serverVars, hdl, cut, queue, initialized, controls, value, lost, seen>>

\* Mutant: the next call believes that there is a connection.
HangupInitialized ==
    /\ pc = "revents" /\ cut
    /\ Cleanup
    /\ pc' = "idle" /\ value' = NULL
    /\ UNCHANGED <<serverVars, initialized, seen>>

\* POLLHUP: the next call connects again.
Hangup ==
    /\ pc = "revents" /\ cut
    /\ Cleanup
    /\ initialized' = FALSE
    /\ pc' = "idle" /\ value' = NULL
    /\ UNCHANGED <<serverVars, seen>>

\* Nothing is left to read.
Show ==
    /\ pc = "revents" /\ queue = <<>> /\ ~cut
    /\ value' = Perc(controls)
    /\ seen' = [addr \in Addrs \ lost |-> server[addr]]
    /\ pc' = "idle"
    /\ UNCHANGED <<serverVars, hdl, cut, queue, initialized, controls, lost>>

-----------------------------------------------------------------------------
(* The server                                                                *)

\* Who is connected is told.
Tell(message) == queue' = IF hdl /\ ~cut THEN Append(queue, message) ELSE queue

Happens == changes < MaxChanges /\ changes' = changes + 1
unchangedClient == UNCHANGED <<hdl, initialized, controls, pc, value, lost, seen>>

\* A control appears, goes or becomes another one.
Replace ==
    /\ up /\ Happens
    /\ \E addr \in Addrs, c \in Controls :
        /\ c # server[addr]
        /\ server' = [server EXCEPT ![addr] = c]
        /\ Tell(Description(addr, c))
    /\ UNCHANGED <<up, scarce, cut>> /\ unchangedClient

\* Somebody turns a knob.
Turn ==
    /\ up /\ Happens
    /\ \E addr \in Addrs, val \in {c.val : c \in Controls} :
        /\ val # server[addr].val /\ [server[addr] EXCEPT !.val = val] \in Controls
        /\ server' = [server EXCEPT ![addr].val = val]
        /\ Tell([kind |-> "val", addr |-> addr, val |-> val])
    /\ UNCHANGED <<up, scarce, cut>> /\ unchangedClient

Stop ==
    /\ up /\ Happens
    /\ up' = FALSE /\ cut' = hdl
    /\ UNCHANGED <<server, scarce, queue>> /\ unchangedClient

\* It may have other controls than before.
Restart ==
    /\ ~up /\ Happens
    /\ up' = TRUE /\ server' \in [Addrs -> Controls]
    /\ UNCHANGED <<scarce, cut, queue>> /\ unchangedClient

Memory ==
    /\ Happens
    /\ scarce' = ~scarce
    /\ UNCHANGED <<server, up, cut, queue>> /\ unchangedClient

-----------------------------------------------------------------------------
vol_perc == Open \/ NoHandle \/ ondesc \/ onval \/ Initialize \/ InitFails \/ Poll \/ Hangup \/ Show
Environment == Replace \/ Turn \/ Stop \/ Restart \/ Memory

Next == vol_perc \/ Environment

Spec == Init /\ [][Next]_vars /\ WF_vars(vol_perc)

-----------------------------------------------------------------------------
(* What should hold                                                          *)

\* The controls that count, of those that sound makes.
Used(sound) == {addr \in DOMAIN sound : sound[addr].type # "none"}

\* What there is to show: nothing if something is muted, or else the lowest level.
Loudness(sound) ==
    IF \E addr \in Used(sound) : sound[addr].type = "mute" /\ sound[addr].val = 1 THEN 0
    ELSE Min({100} \cup {Percent(sound[addr]) :
                         addr \in {ad \in Used(sound) : sound[ad].type = "level"}})

TypeOK ==
    /\ server \in [Addrs -> Controls] /\ up \in BOOLEAN /\ changes \in 0 .. MaxChanges
    /\ {scarce, hdl, cut, initialized} \subseteq BOOLEAN
    /\ \A k \in DOMAIN queue : queue[k].kind \in {"desc", "val"} /\ queue[k].addr \in Addrs
    /\ pc \in {"idle", "init", "revents"} /\ lost \subseteq Addrs
    /\ value \in 0 .. 100 \cup {NULL}
    /\ Len(controls) <= Cardinality(Addrs)

\* Between calls the list holds every control once, as the server describes
\* it, as soon as all messages are read: none of another connection is left
\* over, none is missed that came during a call (volume.c:36-112).
Mirrors ==
    /\ ~hdl => controls = <<>>
    /\ hdl /\ ~cut /\ queue = <<>> =>
        /\ Len(controls) = Cardinality(Used(server) \ lost)
        /\ {controls[k] : k \in DOMAIN controls} =
               {Entry(addr, server[addr]) : addr \in Used(server) \ lost}

\* vol_perc shows what the server's controls came to during the call, whatever
\* the order of the list (volume.c:170-182).
VolumeShown == pc = "idle" /\ value # NULL => value = Loudness(seen)

\* Once the server stays up and there is memory, vol_perc ends up showing what
\* it plays at, also if the server was down or is another one than at the
\* beginning (volume.c:151-168); but for the controls that no memory was left for
\* when the server told of them, of which it does not tell again.
CatchesUp ==
    <>[](up /\ ~scarce) =>
        <>[](value = Loudness([addr \in Addrs \ lost |-> server[addr]]))
=============================================================================
