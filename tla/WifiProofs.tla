----------------------------- MODULE WifiProofs ------------------------------
(* Theorems about wifi_essid and wifi_perc on Linux, for any networks and    *)
(* signals and however often the wireless stack is loaded.                   *)
EXTENDS Wifi, SequenceTheorems, TLAPS

USE RssiAssumption, NULLNetAssumption, LoadsAssumption

\* The signals that the interface's networks of this call have.
Signals == {Percent(rssi[n]) : n \in during \ {NULL}}

\* What waits in the socket was asked for by the step before it: nothing is
\* left over from another request, and what it says was so during this call.
Waiting ==
    CASE pc = "recv_family" ->
             \/ nlsock = <<<<Message("error", 0)>>>>
             \/ \E n \in 1 .. loads : nlsock = <<<<Message("family", n)>>>>
      [] pc = "recv" /\ func = "wifi_essid" ->
             \/ nlsock = <<>>
             \/ nlsock = <<<<Message("error", 0)>>>>
             \/ \E n \in during : nlsock = <<<<Message("iface", n)>>>>
      [] pc = "recv" /\ func = "wifi_perc" ->
             \/ nlsock = <<>>
             \/ nlsock = <<<<Message("error", 0)>>>>
             \/ nlsock = <<<<Message("done", 0)>>>>
             \/ \E n \in during \ {NULL} :
                    nlsock = <<<<Message("sta", rssi[n])>>, <<Message("done", 0)>>>>
      [] OTHER -> nlsock = <<>>

\* A call in progress knows the network there is now, and has returned nothing.
InCall ==
    /\ pc # "idle" => link \in during /\ result = NULL
    /\ pc # "recv" => strength = NULL
    /\ strength \in Signals \cup {NULL}

IInv == TypeOK /\ Waiting /\ InCall /\ Fresh

\* The scale of the signal.
LEMMA PercentRange == \A n \in Networks : Percent(rssi[n]) \in 0 .. 100
  BY DEF Percent

\* A socket with one datagram of one message.
LEMMA OneMessage ==
    ASSUME NEW m
    PROVE  Tail(<<<<m>>>>) = <<>> /\ Head(Head(<<<<m>>>>)) = m
  <1>1. Head(<<<<m>>>>) = <<m>> /\ Head(<<m>>) = m
    OBVIOUS
  <1>2. Tail(<<<<m>>>>) = <<>>
    OBVIOUS
  <1> QED BY <1>1, <1>2

\* A dump of two datagrams.
LEMMA TwoDatagrams ==
    ASSUME NEW m, NEW n
    PROVE  <<m>> \o <<n>> = <<m, n>>
  <1> DEFINE both == <<m>> \o <<n>>
             pair == <<m, n>>
  <1>1. <<m>> \in Seq({m, n}) /\ <<n>> \in Seq({m, n})
    OBVIOUS
  <1>2. pair \in Seq({m, n}) /\ Len(pair) = 2 /\ pair[1] = m /\ pair[2] = n
    OBVIOUS
  <1>3. both \in Seq({m, n}) /\ Len(both) = 2 /\ both[1] = m /\ both[2] = n
    BY <1>1
  <1> HIDE DEF both, pair
  <1>4. \A k \in 1 .. Len(both) : both[k] = pair[k]
    BY <1>2, <1>3
  <1>5. both = pair
    BY <1>2, <1>3, <1>4, SeqEqual
  <1> QED BY <1>5 DEF both, pair

LEMMA InitInv == Init => IInv
  <1> SUFFICES ASSUME Init PROVE IInv
    OBVIOUS
  <1>1. TypeOK
    <2>1. family \in {0, loads} /\ loads \in 0 .. MaxLoads /\ {id, fam} \subseteq 0 .. loads
      BY DEF Init
    <2>2. opened \in BOOLEAN /\ ((id # 0 \/ pc \in {"recv_family", "recv"}) => opened = TRUE)
      BY DEF Init
    <2> QED BY <2>1, <2>2 DEF Init, TypeOK
  <1>2. Waiting
    BY DEF Init, Waiting
  <1>3. InCall /\ Fresh
    BY DEF Init, InCall, Fresh, Signals
  <1> QED BY <1>1, <1>2, <1>3 DEF IInv

LEMMA NextInv == IInv /\ [Next]_vars => IInv'
  <1> SUFFICES ASSUME IInv, [Next]_vars PROVE IInv'
    OBVIOUS
  <1> USE DEF IInv, TypeOK, Waiting, InCall, Fresh, Signals, kernel
  <1>1. ASSUME NEW f \in {"wifi_essid", "wifi_perc"}, Call(f) PROVE IInv'
    BY <1>1 DEF Call
  <1>2. CASE Known
    BY <1>2 DEF Known
  <1>3. CASE AskFamily
    BY <1>3 DEF AskFamily, FamilyAnswer
  <1>4. CASE SocketFails \/ SendFails
    <2>1. CASE SocketFails
      BY <2>1 DEF SocketFails
    <2>2. CASE SendFails
      <3>1. UNCHANGED <<kernel, nlsock, id, func, strength, result, during>>
        BY <2>2 DEF SendFails
      <3>2. pc = "family" /\ pc' = "request" /\ opened' = TRUE /\ fam' = 0
        BY <2>2 DEF SendFails
      <3>3. TypeOK'
        BY <3>1, <3>2
      <3>4. Waiting' /\ InCall' /\ Fresh'
        BY <3>1, <3>2
      <3> QED BY <3>3, <3>4
    <2> QED BY <1>4, <2>1, <2>2
  <1>5. CASE FamilyReceived
    <2>1. PICK m : nlsock = <<<<m>>>> /\ \/ m = Message("error", 0)
                                         \/ \E n \in 1 .. loads : m = Message("family", n)
      BY <1>5 DEF FamilyReceived
    <2>2. nlsock' = <<>> /\ Head(Head(nlsock)) = m
      <3>1. nlsock' = Tail(nlsock)
        BY <1>5 DEF FamilyReceived
      <3>2. nlsock = <<<<m>>>>
        BY <2>1
      <3> HIDE DEF IInv, TypeOK, Waiting, InCall, Fresh
      <3> QED BY <3>1, <3>2, OneMessage
    <2>3. CASE m = Message("error", 0)
      <3>1. pc' = "spin" /\ UNCHANGED <<id, fam>>
        BY <1>5, <2>2, <2>3 DEF FamilyReceived, Message
      <3> QED BY <1>5, <2>2, <3>1 DEF FamilyReceived
    <2>4. ASSUME NEW n \in 1 .. loads, m = Message("family", n) PROVE IInv'
      <3>1. pc' = "request" /\ id' = n /\ fam' = n
        BY <1>5, <2>2, <2>4 DEF FamilyReceived, Message
      <3> QED BY <1>5, <2>2, <3>1 DEF FamilyReceived
    <2> QED BY <2>1, <2>3, <2>4
  <1>6. CASE GiveUp
    BY <1>6 DEF GiveUp, Return
  <1>7. CASE FindInterface
    BY <1>7 DEF FindInterface
  <1>8. CASE Send
    <2>1. nlsock = <<>> /\ link \in during /\ pc = "send"
      BY <1>8 DEF Send
    <2>2. nlsock' = Answer /\ pc' = "recv" /\ UNCHANGED <<kernel, opened, id, func, fam, strength, result, during>>
      BY <1>8, <2>1 DEF Send, Answer
    <2>3. Waiting'
      <3>1. CASE fam = 0
        <4>1. Answer = <<>>
          BY <3>1 DEF Answer
        <4> QED BY <2>1, <2>2, <4>1
      <3>2. CASE fam # 0 /\ fam # family
        <4>1. Answer = <<<<Message("error", 0)>>>>
          BY <3>2 DEF Answer
        <4> QED BY <2>1, <2>2, <4>1
      <3>3. CASE fam # 0 /\ fam = family /\ func = "wifi_essid"
        <4>1. Answer = <<<<Message("iface", link)>>>>
          BY <3>3 DEF Answer
        <4> QED BY <2>1, <2>2, <3>3, <4>1
      <3>4. CASE fam # 0 /\ fam = family /\ func = "wifi_perc" /\ link = NULL
        <4>1. Answer = <<<<Message("done", 0)>>>>
          BY <3>4 DEF Answer
        <4> QED BY <2>1, <2>2, <3>4, <4>1
      <3>5. CASE fam # 0 /\ fam = family /\ func = "wifi_perc" /\ link # NULL
        <4>1. Answer = <<<<Message("sta", rssi[link])>>, <<Message("done", 0)>>>>
          <5>1. Answer = <<<<Message("sta", rssi[link])>>>> \o <<<<Message("done", 0)>>>>
            BY <3>5 DEF Answer
          <5> QED BY <5>1, TwoDatagrams
        <4> QED BY <2>1, <2>2, <3>5, <4>1
      <3> QED BY <3>1, <3>2, <3>3, <3>4, <3>5
    <2>4. TypeOK'
      BY <1>8, <2>1, <2>2 DEF Send
    <2>5. InCall' /\ Fresh'
      BY <2>1, <2>2
    <2> QED BY <2>3, <2>4, <2>5
  <1>9. CASE ReceiveEssid
    <2>1. PICK m : nlsock = <<<<m>>>> /\ \/ m = Message("error", 0)
                                         \/ \E n \in during : m = Message("iface", n)
      BY <1>9 DEF ReceiveEssid
    <2>2. nlsock' = <<>> /\ Head(Head(nlsock)) = m
      <3>1. nlsock' = Tail(nlsock)
        BY <1>9 DEF ReceiveEssid
      <3>2. nlsock = <<<<m>>>>
        BY <2>1
      <3> HIDE DEF IInv, TypeOK, Waiting, InCall, Fresh
      <3> QED BY <3>1, <3>2, OneMessage
    <2>3. result' \in during \cup {NULL}
      BY <1>9, <2>1, <2>2 DEF ReceiveEssid, Return, Message
    <2>4. pc' = "idle" /\ fam' = 0 /\ strength' = NULL /\ UNCHANGED <<kernel, opened, id, func, during>>
      BY <1>9 DEF ReceiveEssid, Return
    <2> QED BY <1>9, <2>2, <2>3, <2>4 DEF ReceiveEssid
  <1>10. CASE ReceivePerc
    <2>1. pc = "recv" /\ func = "wifi_perc" /\ nlsock' = Tail(nlsock)
      BY <1>10 DEF ReceivePerc
    <2>2. CASE \E m \in {Message("error", 0), Message("done", 0)} : nlsock = <<<<m>>>>
      <3>1. nlsock' = <<>>
        BY <2>1, <2>2
      <3>2. \/ pc' = "idle" /\ result' = strength /\ fam' = 0 /\ strength' = NULL
            \/ UNCHANGED <<pc, result, fam, strength>>
        BY <1>10, <2>2 DEF ReceivePerc, Return, Message
      <3> QED BY <1>10, <2>1, <3>1, <3>2 DEF ReceivePerc
    <2>3. ASSUME NEW n \in during \ {NULL},
                 nlsock = <<<<Message("sta", rssi[n])>>, <<Message("done", 0)>>>>
          PROVE  IInv'
      <3>1. nlsock' = <<<<Message("done", 0)>>>>
        BY <2>1, <2>3
      <3>2. /\ UNCHANGED <<pc, result, fam>>
            /\ strength' \in {strength, Percent(rssi[n])}
        BY <1>10, <2>3 DEF ReceivePerc, Message
      <3>3. Percent(rssi[n]) \in 0 .. 100 /\ Percent(rssi[n]) \in Signals
        BY PercentRange
      <3> QED BY <1>10, <2>1, <3>1, <3>2, <3>3 DEF ReceivePerc
    <2> QED BY <1>10, <2>2, <2>3 DEF ReceivePerc
  <1>11. CASE Interrupted
    BY <1>11 DEF Interrupted, Return
  <1>12. CASE Load
    <2>1. loads' = loads + 1 /\ family' = loads' /\ loads < MaxLoads
      BY <1>12 DEF Load
    <2>2. UNCHANGED <<link, opened, nlsock, id, pc, func, fam, strength, result, during>>
      BY <1>12 DEF Load
    <2>3. TypeOK'
      <3>1. loads' \in 0 .. MaxLoads /\ family' \in {0, loads'} /\ family = 0 /\ link' = NULL
        BY <1>12, <2>1, <2>2 DEF Load
      <3>2. {id, fam}' \subseteq 0 .. loads'
        BY <2>1, <2>2
      <3> QED BY <2>2, <3>1, <3>2
    <2>5. InCall' /\ Fresh'
      BY <2>2
    <2>4. Waiting'
      BY <2>1, <2>2
    <2> QED BY <2>3, <2>4, <2>5
  <1>13. CASE Unload
    BY <1>13 DEF Unload, Change
  <1>14. CASE Roam
    BY <1>14 DEF Roam, Change
  <1>15. CASE UNCHANGED vars
    BY <1>15 DEF vars
  <1> QED
    BY <1>1, <1>2, <1>3, <1>4, <1>5, <1>6, <1>7, <1>8, <1>9, <1>10, <1>11, <1>12, <1>13,
       <1>14, <1>15 DEF Next, Step

\* Types: in particular three characters hold every strength, and a known family
\* has a socket to be asked on.
THEOREM WifiTypes == Spec => []TypeOK
  BY InitInv, NextInv, PTL DEF Spec, IInv

\* No answer is left in the socket when a call returns, nor when one sends: what
\* a call receives has been sent for this call (lines 85, 167, 225).
THEOREM NothingLeftOver == Spec => [](pc \notin {"recv_family", "recv"} => nlsock = <<>>)
  <1>1. IInv => (pc \notin {"recv_family", "recv"} => nlsock = <<>>)
    BY DEF IInv, Waiting
  <1> QED BY <1>1, InitInv, NextInv, PTL DEF Spec

\* Although the socket is shared and no answer is matched with its request,
\* what is returned was so during the call.
THEOREM AnswersFresh == Spec => []Fresh
  BY InitInv, NextInv, PTL DEF Spec, IInv
=============================================================================
