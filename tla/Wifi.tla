-------------------------------- MODULE Wifi --------------------------------
(* wifi_essid and wifi_perc of src/components/wifi.c on Linux: requests to   *)
(* nl80211 over one netlink socket, which both functions share, with a       *)
(* family number that is asked for once.  The kernel answers a request       *)
(* within send(), so its answers lie in the socket before recv() is called.  *)
(* The wireless stack may be loaded and unloaded, and the interface may      *)
(* change its network, at any time.                                          *)
EXTENDS Integers, Sequences

CONSTANTS
    Networks,   \* names of networks (ESSIDs)
    rssi,       \* per network: its signal, in dBm
    NULL,       \* the null pointer, no network
    MaxLoads    \* bound: how often the wireless stack is loaded

ASSUME RssiAssumption == rssi \in [Networks -> -128 .. 127]
ASSUME NULLNetAssumption == NULL \notin Networks
ASSUME LoadsAssumption == MaxLoads \in Nat \ {0}

VARIABLES
    family,     \* the kernel's number of nl80211, 0 while it is not loaded
    loads,      \* how often it was loaded: each time it gets a new number
    link,       \* the network of the interface
    opened,     \* whether nlsock is a socket yet
    nlsock,     \* the answers that wait in the socket: a sequence of datagrams,
                \* which are sequences of messages
    id,         \* nl80211fam's static id
    pc, func,   \* where the call is, and of which function
    fam,        \* the family number of this call
    strength,   \* what wifi_perc has found
    result,     \* what the call returned
    during      \* ghost: the networks the interface had during the call

kernel == <<family, loads, link>>
vars == <<kernel, opened, nlsock, id, pc, func, fam, strength, result, during>>

-----------------------------------------------------------------------------
\* Mutant of Percent: no floor.
PercentNoFloor(r) == IF r >= -50 THEN 100 ELSE 2 * (r + 100)

\* RSSI_TO_PERC of a char, which is signed on the machines this models.
Percent(r) == IF r >= -50 THEN 100 ELSE IF r <= -100 THEN 0 ELSE 2 * (r + 100)

Message(type, val) == [type |-> type, val |-> val]

\* What the kernel answers: the family's number or an error, the interface's
\* network or an error, and for a dump a datagram with the station (if there is
\* one) and one that ends the dump.  Type 0 is a control message, which is
\* not answered at all, and an unknown family an error.
FamilyAnswer ==
    IF family = 0 THEN <<<<Message("error", 0)>>>> ELSE <<<<Message("family", family)>>>>

Answer ==
    CASE fam = 0                -> <<>>
      [] fam \notin {0, family} -> <<<<Message("error", 0)>>>>
      [] fam # 0 /\ fam = family /\ func = "wifi_essid" -> <<<<Message("iface", link)>>>>
      [] fam # 0 /\ fam = family /\ func = "wifi_perc"  ->
             (IF link = NULL THEN <<>> ELSE <<<<Message("sta", rssi[link])>>>>)
             \o <<<<Message("done", 0)>>>>

Init ==
    /\ family \in {0, 1} /\ loads = family
    /\ link = NULL
    /\ opened = FALSE /\ nlsock = <<>> /\ id = 0
    /\ pc = "idle" /\ func = "wifi_essid" /\ fam = 0
    /\ strength = NULL /\ result = NULL
    /\ during = {}

-----------------------------------------------------------------------------
(* nl80211fam                                                                *)

Call(f) ==
    /\ pc = "idle"
    /\ pc' = "family" /\ func' = f /\ result' = NULL
    /\ during' = {link}
    /\ UNCHANGED <<kernel, opened, nlsock, id, fam, strength>>

\* if (id) return id;
Known ==
    /\ pc = "family" /\ id # 0
    /\ pc' = "request" /\ fam' = id
    /\ UNCHANGED <<kernel, opened, nlsock, id, func, strength, result, during>>

\* The socket is opened, unless it is open, and the family asked for.
AskFamily ==
    /\ pc = "family" /\ id = 0
    /\ pc' = "recv_family" /\ opened' = TRUE
    /\ nlsock' = nlsock \o FamilyAnswer
    /\ UNCHANGED <<kernel, id, func, fam, strength, result, during>>

\* socket() fails: nlsock stays -1.
SocketFails ==
    /\ pc = "family" /\ id = 0 /\ opened = FALSE
    /\ pc' = "request" /\ fam' = 0
    /\ UNCHANGED <<kernel, opened, nlsock, id, func, strength, result, during>>

\* send() fails, on a socket that is kept.
SendFails ==
    /\ pc = "family" /\ id = 0
    /\ pc' = "request" /\ opened' = TRUE /\ fam' = 0
    /\ UNCHANGED <<kernel, nlsock, id, func, strength, result, during>>

\* findattr finds the number behind the header.  An error is a message of 52
\* bytes whose byte 32 on, where findattr begins, is the process id of the
\* request, 0: an attribute of length 0, over which it never gets.
FamilyReceived ==
    /\ pc = "recv_family" /\ nlsock # <<>>
    /\ nlsock' = Tail(nlsock)
    /\ LET m == Head(Head(nlsock))
       IN  CASE m.type = "family" -> id' = m.val /\ fam' = m.val /\ pc' = "request"
             [] m.type = "error"  -> pc' = "spin" /\ UNCHANGED <<id, fam>>
             [] OTHER             -> pc' = "request" /\ fam' = 0 /\ UNCHANGED id
    /\ UNCHANGED <<kernel, opened, func, strength, result, during>>

-----------------------------------------------------------------------------
(* The request of the function.                                              *)

Return(val) ==
    /\ pc' = "idle" /\ result' = val
    /\ fam' = 0 /\ strength' = NULL

\* The interface is not found, or wifi_essid has no family, or send() fails, as
\* it does if there is no socket.
GiveUp ==
    /\ pc \in {"request", "send"}
    /\ Return(NULL)
    /\ UNCHANGED <<kernel, opened, nlsock, id, func, during>>

\* ifindex finds the interface, which comes and goes with the wireless stack,
\* and wifi_essid has a family.
FindInterface ==
    /\ pc = "request" /\ family # 0
    /\ func = "wifi_essid" => fam # 0
    /\ pc' = "send"
    /\ UNCHANGED <<kernel, opened, nlsock, id, func, fam, strength, result, during>>

Send ==
    /\ pc = "send" /\ opened = TRUE
    /\ pc' = "recv"
    /\ nlsock' = nlsock \o Answer
    /\ UNCHANGED <<kernel, opened, id, func, fam, strength, result, during>>

\* wifi_essid takes one datagram for its answer, whatever it holds.
ReceiveEssid ==
    /\ pc = "recv" /\ func = "wifi_essid" /\ nlsock # <<>>
    /\ nlsock' = Tail(nlsock)
    /\ LET m == Head(Head(nlsock)) IN Return(IF m.type = "iface" THEN m.val ELSE NULL)
    /\ UNCHANGED <<kernel, opened, id, func, during>>

\* Mutants of ReceivePerc: it returns with the first signal, and it does not
\* look for the end of the dump.
ReceivePercForever ==
    /\ pc = "recv" /\ func = "wifi_perc" /\ nlsock # <<>>
    /\ nlsock' = Tail(nlsock)
    /\ UNCHANGED <<kernel, opened, id, pc, func, fam, strength, result, during>>
ReceivePercFirst ==
    /\ pc = "recv" /\ func = "wifi_perc" /\ nlsock # <<>>
    /\ nlsock' = Tail(nlsock)
    /\ LET m == Head(Head(nlsock))
       IN  CASE m.type = "done" -> Return(NULL)
             [] m.type = "sta"  -> Return(Percent(m.val))
             [] OTHER           -> UNCHANGED <<pc, result, fam, strength>>
    /\ UNCHANGED <<kernel, opened, id, func, during>>

\* wifi_perc takes datagrams until one of them ends the dump.
ReceivePerc ==
    /\ pc = "recv" /\ func = "wifi_perc" /\ nlsock # <<>>
    /\ nlsock' = Tail(nlsock)
    /\ LET m == Head(Head(nlsock))
       IN  CASE m.type = "done" -> Return(strength)
             [] m.type = "sta" /\ strength = NULL ->
                    strength' = Percent(m.val) /\ UNCHANGED <<pc, result, fam>>
             [] OTHER           -> UNCHANGED <<pc, result, fam, strength>>
    /\ UNCHANGED <<kernel, opened, id, func, during>>

\* A SIGINT or SIGTERM ends a recv() that has nothing to receive.  That of
\* nl80211fam always has.
Interrupted ==
    /\ pc = "recv" /\ nlsock = <<>>
    /\ Return(NULL)
    /\ UNCHANGED <<kernel, opened, nlsock, id, func, during>>

-----------------------------------------------------------------------------
(* The kernel.                                                               *)

Load ==
    /\ family = 0 /\ loads < MaxLoads
    /\ loads' = loads + 1 /\ family' = loads + 1
    /\ UNCHANGED <<link, opened, nlsock, id, pc, func, fam, strength, result, during>>

Change(n) == link' = n /\ during' = IF pc = "idle" THEN during ELSE during \cup {n}

Unload ==
    /\ family # 0
    /\ family' = 0 /\ Change(NULL)
    /\ UNCHANGED <<loads, opened, nlsock, id, pc, func, fam, strength, result>>

Roam ==
    /\ family # 0
    /\ \E n \in Networks \cup {NULL} : Change(n)
    /\ UNCHANGED <<family, loads, opened, nlsock, id, pc, func, fam, strength, result>>

-----------------------------------------------------------------------------
Step ==
    \/ \E f \in {"wifi_essid", "wifi_perc"} : Call(f)
    \/ Known \/ AskFamily \/ SocketFails \/ SendFails \/ FamilyReceived
    \/ GiveUp \/ FindInterface \/ Send \/ ReceiveEssid \/ ReceivePerc

Next == Step \/ Interrupted \/ Load \/ Unload \/ Roam

Spec == Init /\ [][Next]_vars

\* The main loop calls the functions again and again, and they run on.
FairSpec == Spec /\ WF_vars(Step)
-----------------------------------------------------------------------------
(* Properties *)

\* Types, and the three characters that char strength[4] has room for.
TypeOK ==
    /\ family \in {0, loads} /\ loads \in 0 .. MaxLoads
    /\ link \in Networks \cup {NULL} /\ (family = 0 => link = NULL)
    /\ {id, fam} \subseteq 0 .. loads
    /\ opened \in BOOLEAN
    /\ (id # 0 \/ pc \in {"recv_family", "recv"}) => opened = TRUE
    /\ pc \in {"idle", "family", "recv_family", "spin", "request", "send", "recv"}
    /\ func \in {"wifi_essid", "wifi_perc"}
    /\ strength \in 0 .. 100 \cup {NULL}
    /\ pc \in {"idle", "family"} => strength = NULL
    /\ during \subseteq Networks \cup {NULL}

\* The socket is shared, and no answer is told from another by its number
\* (seq is never read): what a function returns is nevertheless the answer to
\* its own request, a network that the interface had during the call (lines
\* 85, 167, 225, 244-245).
Fresh ==
    result # NULL =>
        CASE func = "wifi_essid" -> result \in during
          [] func = "wifi_perc"  -> result \in {Percent(rssi[n]) : n \in during \ {NULL}}

\* While the wireless stack stays as it is, a call returns (lines 224-247), if it
\* has the number that the stack has now: a call with one from before it was
\* loaded again, or with none because send() failed, may wait for an answer that
\* does not come.
Answers ==
    [](family # 0 /\ id \in {0, family} /\ (pc = "request" => fam # 0)) => []<>(pc = "idle")

\* On a kernel without nl80211 no value can be retrieved, and there is a "text to
\* show if no value can be retrieved" (slstatus.cfg:28): each call returns.
AlwaysAnswers == [](family = 0) => []<>(pc = "idle")
=============================================================================
