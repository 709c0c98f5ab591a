---------------------------- MODULE VolumeProofs ----------------------------
(* Theorems about vol_perc with sndio, for any controls, addresses and       *)
(* history of the server.                                                    *)
EXTENDS Volume, FiniteSetTheorems, TLAPS

-----------------------------------------------------------------------------
(* The invariant: what the client was told and is still to read leads from   *)
(* the list to what the server has now.                                      *)

Listed == [addr : Addrs, type : {"level", "mute"}, maxval : Nat \ {0}, val : Nat]
Described == [kind : {"desc"}, addr : Addrs, type : {"level", "mute", "none"},
              maxval : Nat \ {0}, val : Nat]
Valued == [kind : {"val"}, addr : Addrs, val : Nat]
Sounds == [Addrs -> Controls]

\* A list of controls, no two of them with one address.
Lists == {list \in Seq(Listed) : \A j, k \in 1 .. Len(list) : list[j].addr = list[k].addr => j = k}

\* Whether the list has something at the address.
Has(list, addr) == \E k \in 1 .. Len(list) : list[k].addr = addr

\* The list holds the controls of sound that are used, without the missing ones.
Holds(list, sound, missing) ==
    \A addr \in Addrs :
        IF addr \in missing \/ sound[addr].type = "none"
        THEN ~Has(list, addr)
        ELSE \E k \in 1 .. Len(list) : list[k] = Entry(addr, sound[addr])

\* What a message says has become of the controls.
After(sound, message) ==
    [sound EXCEPT ![message.addr] =
        IF message.kind = "desc"
        THEN [type |-> message.type, maxval |-> message.maxval, val |-> message.val]
        ELSE [@ EXCEPT !.val = message.val]]

\* h[0] is what the client has heard, h[k] what it will have after k messages.
Leads(h, messages, sound) ==
    /\ \A k \in 1 .. Len(messages) : h[k] = After(h[k - 1], messages[k])
    /\ h[Len(messages)] = sound

Hears(list, messages, sound, missing) ==
    \E h \in [0 .. Len(messages) -> Sounds] :
        Leads(h, messages, sound) /\ Holds(list, h[0], missing)

Types ==
    /\ server \in Sounds /\ up \in BOOLEAN /\ changes \in 0 .. MaxChanges
    /\ scarce \in BOOLEAN /\ hdl \in BOOLEAN /\ cut \in BOOLEAN /\ initialized \in BOOLEAN
    /\ queue \in Seq(Described \cup Valued)
    /\ controls \in Lists
    /\ pc \in {"idle", "init", "revents"} /\ lost \subseteq Addrs

Phases ==
    /\ ~hdl => controls = <<>> /\ lost = {} /\ pc = "idle"
    /\ ~initialized /\ pc = "idle" => ~hdl
    /\ pc = "revents" => initialized
    /\ ~up /\ hdl => cut

Hearing == hdl /\ ~cut => Hears(controls, queue, server, lost)

Answered == value # NULL => value = Loudness(seen) /\ value \in 0 .. 100

VInv == Types /\ Phases /\ Hearing /\ Answered

-----------------------------------------------------------------------------
(* The list.                                                                 *)

\* A set of numbers has a smallest one.
LEMMA LeastNumber ==
    ASSUME NEW S \in SUBSET Nat, S # {}
    PROVE  \E n \in S : \A m \in S : n <= m
<1> DEFINE R == {ss \in Nat \X Nat : ss[1] < ss[2]}
<1>1. IsWellFoundedOn(R, Nat)
  BY NatLessThanWellFounded DEF OpToRel
<1>2. \A m, n \in Nat : m < n => <<m, n>> \in R
  OBVIOUS
<1> HIDE DEF R
<1>3. PICK n \in S : \A m \in S : <<m, n>> \notin R
  BY <1>1, WFMin
<1>4. ASSUME NEW m \in S
      PROVE  n <= m
  <2>1. m \in Nat /\ n \in Nat /\ ~(m < n)
    BY <1>2, <1>3
  <2> QED  BY <2>1
<1> QED  BY <1>4

LEMMA MinIsLeast ==
    ASSUME NEW S \in SUBSET Nat, S # {}
    PROVE  Min(S) \in S /\ \A m \in S : Min(S) <= m
BY LeastNumber DEF Min

LEMMA ListType ==
    ASSUME NEW list \in Lists
    PROVE  /\ list \in Seq(Listed) /\ Len(list) \in Nat
           /\ \A k \in 1 .. Len(list) : list[k] \in Listed /\ list[k].addr \in Addrs
           /\ \A j, k \in 1 .. Len(list) : list[j].addr = list[k].addr => j = k
<1>1. list \in Seq(Listed)
  BY DEF Lists
<1>2. \A j, k \in 1 .. Len(list) : list[j].addr = list[k].addr => j = k
  BY DEF Lists
<1>3. Len(list) \in Nat /\ \A k \in 1 .. Len(list) : list[k] \in Listed
  BY <1>1
<1>4. \A c \in Listed : c.addr \in Addrs
  BY DEF Listed
<1> QED  BY <1>1, <1>2, <1>3, <1>4

\* Where the first control with the address is, 0 for nowhere.
Position(list, addr) == SelectInSeq(list, LAMBDA c : c.addr = addr)

LEMMA MatchIs ==
    ASSUME NEW list \in Lists, NEW addr, Has(list, addr)
    PROVE  Position(list, addr) \in 1 .. Len(list) /\ list[Position(list, addr)].addr = addr
<1> DEFINE I == {i \in 1 .. Len(list) : list[i].addr = addr}
<1>1. I # {} /\ I \in SUBSET Nat
  BY DEF Has
<1>2. Min(I) \in I
  BY <1>1, MinIsLeast
<1>3. Position(list, addr) = IF I # {} THEN Min(I) ELSE 0
  BY DEF Position, SelectInSeq
<1> HIDE DEF I
<1>4. Position(list, addr) = Min(I)
  BY <1>1, <1>3
<1> QED  BY <1>2, <1>4 DEF I

LEMMA NoMatch ==
    ASSUME NEW list \in Lists, NEW addr, ~Has(list, addr)
    PROVE  Position(list, addr) = 0
<1> DEFINE I == {i \in 1 .. Len(list) : list[i].addr = addr}
<1>1. I = {}
  BY DEF Has
<1>2. Position(list, addr) = IF I # {} THEN Min(I) ELSE 0
  BY DEF Position, SelectInSeq
<1> QED  BY <1>1, <1>2

\* A sequence without one of its elements.
LEMMA Without ==
    ASSUME NEW S, NEW list \in Seq(S), NEW i \in 1 .. Len(list)
    PROVE  /\ RemoveAt(list, i) \in Seq(S)
           /\ Len(RemoveAt(list, i)) = Len(list) - 1
           /\ \A k \in 1 .. Len(list) - 1 :
                 RemoveAt(list, i)[k] = IF k < i THEN list[k] ELSE list[k + 1]
<1>1. Len(list) \in Nat /\ i \in Nat /\ 1 <= i /\ i <= Len(list)
  OBVIOUS
<1> DEFINE left == SubSeq(list, 1, i - 1)
           right == SubSeq(list, i + 1, Len(list))
<1>2. left \in Seq(S) /\ Len(left) = i - 1 /\ \A k \in 1 .. i - 1 : left[k] = list[k]
  BY <1>1
<1>3. right \in Seq(S) /\ Len(right) = Len(list) - i /\ \A k \in 1 .. Len(list) - i : right[k] = list[i + k]
  BY <1>1
<1>4. RemoveAt(list, i) = left \o right
  BY DEF RemoveAt
<1> HIDE DEF left, right
<1>5. /\ left \o right \in Seq(S) /\ Len(left \o right) = Len(list) - 1
      /\ \A k \in 1 .. Len(list) - 1 : (left \o right)[k] = IF k < i THEN left[k] ELSE right[k - (i - 1)]
  <2>1. left \o right \in Seq(S) /\ Len(left \o right) = (i - 1) + (Len(list) - i)
    <3>1. \A p, q \in Seq(S) : p \o q \in Seq(S) /\ Len(p \o q) = Len(p) + Len(q)
      OBVIOUS
    <3> QED  BY <1>2, <1>3, <3>1
  <2>2. (i - 1) + (Len(list) - i) = Len(list) - 1
    BY <1>1
  <2>3. ASSUME NEW k \in 1 .. Len(list) - 1
        PROVE  (left \o right)[k] = IF k < i THEN left[k] ELSE right[k - (i - 1)]
    <3>1. k \in 1 .. Len(left) + Len(right) /\ (k <= Len(left) <=> k < i)
      BY <1>1, <1>2, <1>3
    <3>2. (left \o right)[k] = IF k <= Len(left) THEN left[k] ELSE right[k - Len(left)]
      BY <1>2, <1>3, <3>1
    <3> QED  BY <1>2, <3>1, <3>2
  <2> QED  BY <2>1, <2>2, <2>3
<1>6. ASSUME NEW k \in 1 .. Len(list) - 1
      PROVE  (left \o right)[k] = IF k < i THEN list[k] ELSE list[k + 1]
  <2>1. CASE k < i
    <3>1. k \in 1 .. i - 1
      BY <1>1, <2>1
    <3> QED  BY <1>2, <1>5, <2>1, <3>1
  <2>2. CASE ~(k < i)
    <3>1. k - (i - 1) \in 1 .. Len(list) - i /\ i + (k - (i - 1)) = k + 1
      BY <1>1, <2>2
    <3> QED  BY <1>3, <1>5, <2>2, <3>1
  <2> QED  BY <2>1, <2>2
<1> QED  BY <1>4, <1>5, <1>6

\* What Delete leaves is the list less the control at the address.
LEMMA Deleted ==
    ASSUME NEW list \in Lists, NEW addr
    PROVE  /\ Delete(list, addr) \in Lists
           /\ ~Has(Delete(list, addr), addr)
           /\ \A other : other # addr /\ Has(Delete(list, addr), other) => Has(list, other)
           /\ \A c : c.addr # addr /\ (\E k \in 1 .. Len(list) : list[k] = c)
                        => \E k \in 1 .. Len(Delete(list, addr)) : Delete(list, addr)[k] = c
<1> DEFINE d == Delete(list, addr)
<1>0. /\ list \in Seq(Listed) /\ Len(list) \in Nat
      /\ \A j, k \in 1 .. Len(list) : list[j].addr = list[k].addr => j = k
  BY ListType
<1>1. CASE ~Has(list, addr)
  <2>1. d = list
    BY <1>1 DEF Delete, RemoveFirstMatch, Has
  <2> QED  BY <1>1, <2>1
<1>2. CASE Has(list, addr)
  <2> DEFINE i == Position(list, addr)
  <2>1. i \in 1 .. Len(list) /\ list[i].addr = addr
    BY <1>2, MatchIs
  <2>2. d = RemoveAt(list, i)
    BY <1>2 DEF Delete, RemoveFirstMatch, Has, Position
  <2> HIDE DEF d, i
  <2>3. /\ d \in Seq(Listed) /\ Len(d) = Len(list) - 1
        /\ \A k \in 1 .. Len(list) - 1 : d[k] = IF k < i THEN list[k] ELSE list[k + 1]
    BY <1>0, <2>1, <2>2, Without
  <2> DEFINE from(k) == IF k < i THEN k ELSE k + 1
  <2>4. \A k \in 1 .. Len(d) : from(k) \in 1 .. Len(list) /\ from(k) # i /\ d[k] = list[from(k)]
    BY <1>0, <2>1, <2>3
  <2>5. \A j, k \in 1 .. Len(d) : from(j) = from(k) => j = k
    BY <1>0, <2>1, <2>3
  <2>6. \A k \in 1 .. Len(list) : k # i => \E j \in 1 .. Len(d) : from(j) = k
    <3> TAKE k \in 1 .. Len(list)
    <3> HAVE k # i
    <3>1. CASE k < i
      <4>1. k \in 1 .. Len(d) /\ from(k) = k
        BY <1>0, <2>1, <2>3, <3>1
      <4> QED  BY <4>1
    <3>2. CASE ~(k < i)
      <4>1. k - 1 \in 1 .. Len(d) /\ from(k - 1) = k
        BY <1>0, <2>1, <2>3, <3>2
      <4> QED  BY <4>1
    <3> QED  BY <3>1, <3>2
  <2> HIDE DEF from
  <2>7. d \in Lists
    <3>1. \A j, k \in 1 .. Len(d) : d[j].addr = d[k].addr => j = k
      BY <1>0, <2>4, <2>5
    <3> QED  BY <2>3, <3>1 DEF Lists
  <2>8. ~Has(d, addr)
    BY <1>0, <2>1, <2>4 DEF Has
  <2>9. \A other : Has(d, other) => Has(list, other)
    BY <2>4 DEF Has
  <2>10. ASSUME NEW c, c.addr # addr, NEW k \in 1 .. Len(list), list[k] = c
         PROVE  \E j \in 1 .. Len(d) : d[j] = c
    <3>1. k # i
      BY <2>1, <2>10
    <3>2. PICK j \in 1 .. Len(d) : from(j) = k
      BY <2>6, <3>1
    <3> QED  BY <2>4, <2>10, <3>2
  <2> QED  BY <2>7, <2>8, <2>9, <2>10 DEF d
<1> QED  BY <1>1, <1>2

\* Insert puts the control at the head, in place of what was at its address.
LEMMA Inserted ==
    ASSUME NEW list \in Lists, NEW desc, Entry(desc.addr, desc) \in Listed
    PROVE  /\ Insert(list, desc) \in Lists
           /\ \E k \in 1 .. Len(Insert(list, desc)) : Insert(list, desc)[k] = Entry(desc.addr, desc)
           /\ \A other : other # desc.addr /\ Has(Insert(list, desc), other) => Has(list, other)
           /\ \A c : c.addr # desc.addr /\ (\E k \in 1 .. Len(list) : list[k] = c)
                        => \E k \in 1 .. Len(Insert(list, desc)) : Insert(list, desc)[k] = c
<1> DEFINE e == Entry(desc.addr, desc)
           d == Delete(list, desc.addr)
           r == <<e>> \o d
<1>1. /\ d \in Lists /\ ~Has(d, desc.addr)
      /\ \A other : other # desc.addr /\ Has(d, other) => Has(list, other)
      /\ \A c : c.addr # desc.addr /\ (\E k \in 1 .. Len(list) : list[k] = c)
                   => \E k \in 1 .. Len(d) : d[k] = c
  BY Deleted
<1>2. e.addr = desc.addr /\ e \in Listed
  BY DEF Entry
<1>3. Insert(list, desc) = r
  BY DEF Insert
<1> HIDE DEF e, d
<1>4. d \in Seq(Listed) /\ Len(d) \in Nat /\ \A j, k \in 1 .. Len(d) : d[j].addr = d[k].addr => j = k
  BY <1>1, ListType
<1>5. /\ r \in Seq(Listed) /\ Len(r) = Len(d) + 1 /\ r[1] = e
      /\ \A k \in 1 .. Len(d) : r[k + 1] = d[k]
      /\ \A k \in 2 .. Len(d) + 1 : r[k] = d[k - 1] /\ k - 1 \in 1 .. Len(d)
  BY <1>2, <1>4
<1> HIDE DEF r
<1>6. \A k \in 1 .. Len(r) : k = 1 \/ k \in 2 .. Len(d) + 1
  BY <1>4, <1>5
<1>7. \A k \in 2 .. Len(d) + 1 : r[k].addr # e.addr
  BY <1>1, <1>2, <1>5 DEF Has
<1>8. r \in Lists
  <2>1. ASSUME NEW j \in 1 .. Len(r), NEW k \in 1 .. Len(r), r[j].addr = r[k].addr
        PROVE  j = k
    <3>1. CASE j = 1 \/ k = 1
      BY <1>5, <1>6, <1>7, <2>1, <3>1
    <3>2. CASE j # 1 /\ k # 1
      <4>1. /\ j \in 2 .. Len(d) + 1 /\ k \in 2 .. Len(d) + 1
            /\ j - 1 \in 1 .. Len(d) /\ k - 1 \in 1 .. Len(d)
            /\ d[j - 1].addr = d[k - 1].addr
        BY <1>5, <1>6, <2>1, <3>2
      <4>2. j - 1 = k - 1
        BY <1>4, <4>1
      <4> QED  BY <4>1, <4>2
    <3> QED  BY <3>1, <3>2
  <2> QED  BY <1>5, <2>1 DEF Lists
<1>9. \E k \in 1 .. Len(r) : r[k] = e
  <2>1. 1 \in 1 .. Len(r)
    BY <1>4, <1>5
  <2> QED  BY <1>5, <2>1
<1>10. ASSUME NEW other, other # desc.addr, Has(r, other)
       PROVE  Has(list, other)
  <2>1. PICK k \in 1 .. Len(r) : r[k].addr = other
    BY <1>10 DEF Has
  <2>2. k \in 2 .. Len(d) + 1
    BY <1>2, <1>5, <1>6, <1>10, <2>1
  <2>3. Has(d, other)
    BY <1>5, <2>1, <2>2 DEF Has
  <2> QED  BY <1>1, <1>10, <2>3
<1>11. ASSUME NEW c, c.addr # desc.addr, \E k \in 1 .. Len(list) : list[k] = c
       PROVE  \E k \in 1 .. Len(r) : r[k] = c
  <2>1. PICK k \in 1 .. Len(d) : d[k] = c
    BY <1>1, <1>11
  <2>2. k + 1 \in 1 .. Len(r) /\ r[k + 1] = c
    BY <1>4, <1>5, <2>1
  <2> QED  BY <2>2
<1> QED  BY <1>3, <1>8, <1>9, <1>10, <1>11 DEF e

\* Update changes the value of the control at the address, and nothing else.
LEMMA Updated ==
    ASSUME NEW list \in Lists, NEW addr, NEW val \in Nat
    PROVE  /\ Update(list, addr, val) \in Lists
           /\ \A other : Has(Update(list, addr, val), other) => Has(list, other)
           /\ \A k \in 1 .. Len(list) :
                 \E j \in 1 .. Len(Update(list, addr, val)) :
                    Update(list, addr, val)[j] =
                        IF list[k].addr = addr THEN [list[k] EXCEPT !.val = val] ELSE list[k]
<1> DEFINE k == Position(list, addr)
           r == [list EXCEPT ![k].val = val]
<1>0. /\ list \in Seq(Listed) /\ Len(list) \in Nat
      /\ \A j \in 1 .. Len(list) : list[j] \in Listed
      /\ \A i, j \in 1 .. Len(list) : list[i].addr = list[j].addr => i = j
  BY ListType
<1>1. CASE ~Has(list, addr)
  <2>1. k = 0
    BY <1>1, NoMatch
  <2>2. Update(list, addr, val) = IF k = 0 THEN list ELSE r
    BY DEF Update, Position
  <2> HIDE DEF k, r
  <2>3. Update(list, addr, val) = list
    BY <2>1, <2>2
  <2>4. \A j \in 1 .. Len(list) : list[j].addr # addr
    BY <1>1 DEF Has
  <2> QED  BY <2>3, <2>4
<1>2. CASE Has(list, addr)
  <2>1. k \in 1 .. Len(list) /\ list[k].addr = addr
    BY <1>2, MatchIs
  <2>2. Update(list, addr, val) = r
    BY <2>1 DEF Update, Position
  <2> HIDE DEF k
  <2>3. [list[k] EXCEPT !.val = val] \in Listed /\ [list[k] EXCEPT !.val = val].addr = addr
    BY <1>0, <2>1 DEF Listed
  <2>4. /\ r \in Seq(Listed) /\ Len(r) = Len(list) /\ r[k] = [list[k] EXCEPT !.val = val]
        /\ \A j \in 1 .. Len(list) : j # k => r[j] = list[j]
    BY <1>0, <2>1, <2>3
  <2> HIDE DEF r
  <2>5. \A j \in 1 .. Len(list) : r[j].addr = list[j].addr
    BY <2>1, <2>3, <2>4
  <2>6. r \in Lists
    BY <1>0, <2>4, <2>5 DEF Lists
  <2>7. \A other : Has(r, other) => Has(list, other)
    BY <2>4, <2>5 DEF Has
  <2>8. ASSUME NEW j \in 1 .. Len(list)
        PROVE  r[j] = IF list[j].addr = addr THEN [list[j] EXCEPT !.val = val] ELSE list[j]
    <3>1. CASE j = k
      BY <2>1, <2>4, <3>1
    <3>2. CASE j # k
      <4>1. list[j].addr # addr
        BY <1>0, <2>1, <3>2
      <4> QED  BY <2>4, <3>2, <4>1
    <3> QED  BY <3>1, <3>2
  <2> QED  BY <2>2, <2>4, <2>6, <2>7, <2>8
<1> QED  BY <1>1, <1>2

-----------------------------------------------------------------------------
(* The messages.                                                             *)

LEMMA SoundType ==
    ASSUME NEW sound \in Sounds, NEW addr \in Addrs
    PROVE  /\ sound[addr] \in Controls /\ sound[addr] \in Control
           /\ Entry(addr, sound[addr]).addr = addr
           /\ sound[addr].type # "none" => Entry(addr, sound[addr]) \in Listed
<1>1. sound[addr] \in Controls
  BY DEF Sounds
<1>2. sound[addr] \in Control
  BY <1>1, ControlsAssumption
<1> QED  BY <1>1, <1>2 DEF Control, Entry, Listed

\* A message is about one address.
LEMMA AfterIs ==
    ASSUME NEW sound \in Sounds, NEW message \in Described \cup Valued, NEW addr \in Addrs
    PROVE  After(sound, message)[addr] =
               IF addr # message.addr THEN sound[addr]
               ELSE IF message.kind = "desc"
               THEN [type |-> message.type, maxval |-> message.maxval, val |-> message.val]
               ELSE [sound[addr] EXCEPT !.val = message.val]
BY DEF After, Sounds

LEMMA AfterOther ==
    ASSUME NEW sound \in Sounds, NEW message, NEW addr \in Addrs, addr # message.addr
    PROVE  After(sound, message)[addr] = sound[addr]
BY DEF After, Sounds

\* A description is heard: ondesc, with memory or without.
LEMMA DescHeard ==
    ASSUME NEW list \in Lists, NEW sound \in Sounds, NEW missing \in SUBSET Addrs,
           NEW message \in Described, Holds(list, sound, missing)
    PROVE  LET addr == message.addr
           IN  /\ Delete(list, addr) \in Lists
               /\ message.type = "none" =>
                     Holds(Delete(list, addr), After(sound, message), missing \ {addr})
               /\ Holds(Delete(list, addr), After(sound, message), missing \cup {addr})
               /\ message.type # "none" =>
                     /\ Insert(list, message) \in Lists
                     /\ Holds(Insert(list, message), After(sound, message), missing \ {addr})
<1> DEFINE addr == message.addr
           now == After(sound, message)
           d == Delete(list, addr)
           r == Insert(list, message)
<1>1. /\ addr \in Addrs /\ message.kind = "desc" /\ message.type \in {"level", "mute", "none"}
      /\ message.maxval \in Nat \ {0} /\ message.val \in Nat
  BY DEF Described
<1>2. /\ now[addr].type = message.type /\ Entry(addr, now[addr]) = Entry(addr, message)
      /\ \A other \in Addrs : other # addr => now[other] = sound[other]
  <2>1. message \in Described \cup Valued
    OBVIOUS
  <2>2. now[addr] = [type |-> message.type, maxval |-> message.maxval, val |-> message.val]
    BY <1>1, <2>1, AfterIs
  <2>3. \A other \in Addrs : other # addr => now[other] = sound[other]
    BY <1>1, <2>1, AfterIs
  <2> HIDE DEF now
  <2> QED  BY <2>2, <2>3 DEF Entry
<1>3. /\ d \in Lists /\ ~Has(d, addr)
      /\ \A other : other # addr /\ Has(d, other) => Has(list, other)
      /\ \A c : c.addr # addr /\ (\E k \in 1 .. Len(list) : list[k] = c)
                   => \E k \in 1 .. Len(d) : d[k] = c
  <2>1. ASSUME NEW at
        PROVE  /\ Delete(list, at) \in Lists /\ ~Has(Delete(list, at), at)
               /\ \A other : other # at /\ Has(Delete(list, at), other) => Has(list, other)
               /\ \A c : c.addr # at /\ (\E k \in 1 .. Len(list) : list[k] = c)
                            => \E k \in 1 .. Len(Delete(list, at)) : Delete(list, at)[k] = c
    BY Deleted
  <2> QED  BY <2>1
<1>4. \A other \in Addrs : Entry(other, sound[other]).addr = other
  BY SoundType
<1> HIDE DEF now, d
<1>5. \A set \in {missing \cup {addr}, missing \ {addr}} :
          \A other \in Addrs : other # addr =>
              IF other \in set \/ now[other].type = "none"
              THEN ~Has(d, other)
              ELSE \E k \in 1 .. Len(d) : d[k] = Entry(other, now[other])
  BY <1>2, <1>3, <1>4 DEF Holds
<1>6. Holds(d, now, missing \cup {addr})
  BY <1>3, <1>5 DEF Holds
<1>7. message.type = "none" => Holds(d, now, missing \ {addr})
  BY <1>2, <1>3, <1>5 DEF Holds
<1>8. ASSUME message.type # "none"
      PROVE  r \in Lists /\ Holds(r, now, missing \ {addr})
  <2>1. Entry(addr, message) \in Listed
    BY <1>1, <1>8 DEF Entry, Listed
  <2>2. /\ r \in Lists
        /\ \E k \in 1 .. Len(r) : r[k] = Entry(addr, message)
        /\ \A other : other # addr /\ Has(r, other) => Has(list, other)
        /\ \A c : c.addr # addr /\ (\E k \in 1 .. Len(list) : list[k] = c)
                     => \E k \in 1 .. Len(r) : r[k] = c
    BY <2>1, Inserted
  <2> HIDE DEF r
  <2>3. ASSUME NEW other \in Addrs, other # addr
        PROVE  IF other \in missing \ {addr} \/ now[other].type = "none"
               THEN ~Has(r, other)
               ELSE \E k \in 1 .. Len(r) : r[k] = Entry(other, now[other])
    BY <1>2, <1>4, <2>2, <2>3 DEF Holds
  <2>4. \E k \in 1 .. Len(r) : r[k] = Entry(addr, now[addr])
    BY <1>2, <2>2
  <2> QED  BY <1>2, <1>8, <2>2, <2>3, <2>4 DEF Holds
<1> QED  BY <1>3, <1>6, <1>7, <1>8 DEF d, now

\* A value is heard: onval.
LEMMA ValHeard ==
    ASSUME NEW list \in Lists, NEW sound \in Sounds, NEW missing \in SUBSET Addrs,
           NEW message \in Valued, Holds(list, sound, missing)
    PROVE  /\ Update(list, message.addr, message.val) \in Lists
           /\ Holds(Update(list, message.addr, message.val), After(sound, message), missing)
<1> DEFINE addr == message.addr
           now == After(sound, message)
           r == Update(list, addr, message.val)
<1>1. addr \in Addrs /\ message.kind = "val" /\ message.kind # "desc" /\ message.val \in Nat
  BY DEF Valued
<1>2. /\ r \in Lists
      /\ \A other : Has(r, other) => Has(list, other)
      /\ \A k \in 1 .. Len(list) :
            \E j \in 1 .. Len(r) :
               r[j] = IF list[k].addr = addr THEN [list[k] EXCEPT !.val = message.val] ELSE list[k]
  BY <1>1, Updated
<1>3. /\ now[addr] = [sound[addr] EXCEPT !.val = message.val]
      /\ \A other \in Addrs : other # addr => now[other] = sound[other]
  <2>1. message \in Described \cup Valued
    OBVIOUS
  <2>2. now[addr] = [sound[addr] EXCEPT !.val = message.val]
    <3>1. After(sound, message)[addr] =
              IF addr # message.addr THEN sound[addr]
              ELSE IF message.kind = "desc"
              THEN [type |-> message.type, maxval |-> message.maxval, val |-> message.val]
              ELSE [sound[addr] EXCEPT !.val = message.val]
      <4>1. ASSUME NEW at \in Addrs
            PROVE  After(sound, message)[at] =
                       IF at # message.addr THEN sound[at]
                       ELSE IF message.kind = "desc"
                       THEN [type |-> message.type, maxval |-> message.maxval, val |-> message.val]
                       ELSE [sound[at] EXCEPT !.val = message.val]
        BY <2>1, AfterIs
      <4> QED  BY <1>1, <4>1, Zenon
    <3> QED  BY <1>1, <3>1, Zenon
  <2>3. ASSUME NEW other \in Addrs, other # addr
        PROVE  now[other] = sound[other]
    BY <2>3, AfterOther
  <2> QED  BY <2>2, <2>3
<1>4. \A other \in Addrs : Entry(other, sound[other]).addr = other
  BY SoundType
<1>5. /\ now[addr].type = sound[addr].type
      /\ Entry(addr, now[addr]) = [Entry(addr, sound[addr]) EXCEPT !.val = message.val]
  <2>1. sound[addr] \in Control
    BY <1>1, SoundType
  <2> QED  BY <1>3, <2>1 DEF Entry, Control
<1> HIDE DEF now, r
<1>6. ASSUME NEW other \in Addrs
      PROVE  IF other \in missing \/ now[other].type = "none"
             THEN ~Has(r, other)
             ELSE \E j \in 1 .. Len(r) : r[j] = Entry(other, now[other])
  <2>1. now[other].type = sound[other].type
    BY <1>3, <1>5
  <2>2. CASE other \in missing \/ now[other].type = "none"
    BY <1>2, <2>1, <2>2 DEF Holds
  <2>3. CASE ~(other \in missing \/ now[other].type = "none")
    <3>1. PICK k \in 1 .. Len(list) : list[k] = Entry(other, sound[other])
      BY <2>1, <2>3 DEF Holds
    <3>2. PICK j \in 1 .. Len(r) :
              r[j] = IF list[k].addr = addr THEN [list[k] EXCEPT !.val = message.val] ELSE list[k]
      BY <1>2
    <3>3. r[j] = Entry(other, now[other])
      BY <1>3, <1>4, <1>5, <3>1, <3>2
    <3> QED  BY <2>3, <3>3
  <2> QED  BY <2>2, <2>3
<1>7. Holds(r, now, missing)
  BY <1>6 DEF Holds
<1> QED  BY <1>2, <1>7 DEF r, now

\* A message that is sent leads from what the server had to what it has.
LEMMA HearsMore ==
    ASSUME NEW list, NEW messages \in Seq(Described \cup Valued), NEW sound, NEW missing,
           NEW message \in Described \cup Valued, NEW now \in Sounds, now = After(sound, message),
           Hears(list, messages, sound, missing)
    PROVE  Hears(list, Append(messages, message), now, missing)
<1> DEFINE n == Len(messages)
           more == Append(messages, message)
<1>1. n \in Nat /\ Len(more) = n + 1 /\ more[n + 1] = message /\ \A k \in 1 .. n : more[k] = messages[k]
  OBVIOUS
<1>2. PICK h \in [0 .. n -> Sounds] : Leads(h, messages, sound) /\ Holds(list, h[0], missing)
  BY DEF Hears
<1> HIDE DEF n, more
<1> DEFINE g == [k \in 0 .. n + 1 |-> IF k = n + 1 THEN now ELSE h[k]]
<1>3. g \in [0 .. n + 1 -> Sounds]
  <2>1. ASSUME NEW k \in 0 .. n + 1
        PROVE  (IF k = n + 1 THEN now ELSE h[k]) \in Sounds
    <3>1. k # n + 1 => k \in 0 .. n
      BY <1>1
    <3> QED  BY <1>2, <3>1
  <2> QED  BY <2>1
<1>4. g[n + 1] = now /\ \A k \in 0 .. n : g[k] = h[k]
  BY <1>1
<1> HIDE DEF g
<1>5. ASSUME NEW k \in 1 .. n + 1
      PROVE  g[k] = After(g[k - 1], more[k])
  <2>1. CASE k = n + 1
    <3>1. k - 1 = n /\ g[k - 1] = h[n] /\ h[n] = sound
      BY <1>1, <1>2, <1>4, <2>1 DEF Leads, n
    <3> QED  BY <1>1, <1>4, <2>1, <3>1
  <2>2. CASE k # n + 1
    <3>1. k \in 1 .. n /\ k - 1 \in 0 .. n /\ k \in 0 .. n
      BY <1>1, <2>2
    <3>2. h[k] = After(h[k - 1], messages[k])
      BY <1>2, <3>1 DEF Leads, n
    <3> QED  BY <1>1, <1>4, <3>1, <3>2
  <2> QED  BY <2>1, <2>2
<1>6. Leads(g, more, now)
  BY <1>1, <1>4, <1>5 DEF Leads
<1>7. 0 \in 0 .. n /\ g[0] = h[0]
  BY <1>1, <1>4
<1>8. g \in [0 .. Len(more) -> Sounds]
  BY <1>1, <1>3
<1> QED  BY <1>2, <1>6, <1>7, <1>8 DEF Hears, more

\* A message that is read: whatever list holds what it says has heard it.
LEMMA HearsNext ==
    ASSUME NEW list, NEW messages \in Seq(Described \cup Valued), messages # <<>>, NEW sound, NEW missing,
           Hears(list, messages, sound, missing)
    PROVE  \E was \in Sounds :
               /\ Holds(list, was, missing)
               /\ \A other, gone : Holds(other, After(was, Head(messages)), gone)
                                      => Hears(other, Tail(messages), sound, gone)
<1> DEFINE n == Len(messages)
           rest == Tail(messages)
<1>1. /\ n \in Nat \ {0} /\ Len(rest) = n - 1 /\ Head(messages) = messages[1]
      /\ \A k \in 1 .. n - 1 : rest[k] = messages[k + 1]
  OBVIOUS
<1>2. PICK h \in [0 .. n -> Sounds] : Leads(h, messages, sound) /\ Holds(list, h[0], missing)
  BY DEF Hears
<1> HIDE DEF n, rest
<1> DEFINE g == [k \in 0 .. n - 1 |-> h[k + 1]]
<1>3. \A k \in 0 .. n - 1 : k + 1 \in 0 .. n
  BY <1>1
<1>4. g \in [0 .. n - 1 -> Sounds] /\ \A k \in 0 .. n - 1 : g[k] = h[k + 1]
  BY <1>2, <1>3
<1> HIDE DEF g
<1>5. \A k \in 1 .. n : h[k] = After(h[k - 1], messages[k])
  BY <1>2 DEF Leads, n
<1>6. ASSUME NEW k \in 1 .. n - 1
      PROVE  g[k] = After(g[k - 1], rest[k])
  <2>1. k + 1 \in 1 .. n /\ (k + 1) - 1 = k /\ k \in 0 .. n - 1 /\ k - 1 \in 0 .. n - 1 /\ (k - 1) + 1 = k
    BY <1>1
  <2>2. h[k + 1] = After(h[k], messages[k + 1])
    BY <1>5, <2>1
  <2> QED  BY <1>1, <1>4, <2>1, <2>2
<1>7. Leads(g, rest, sound)
  <2>1. n - 1 \in 0 .. n - 1 /\ (n - 1) + 1 = n
    BY <1>1
  <2>2. g[n - 1] = sound
    BY <1>2, <1>4, <2>1 DEF Leads, n
  <2> QED  BY <1>1, <1>6, <2>2 DEF Leads
<1>8. g[0] = After(h[0], Head(messages))
  <2>1. 1 \in 1 .. n /\ 1 - 1 = 0 /\ 0 \in 0 .. n - 1 /\ 0 + 1 = 1
    BY <1>1
  <2> QED  BY <1>1, <1>4, <1>5, <2>1
<1>9. 0 \in 0 .. n /\ h[0] \in Sounds
  BY <1>1, <1>2
<1>10. g \in [0 .. Len(rest) -> Sounds]
  BY <1>1, <1>4
<1>11. \A other, gone : Holds(other, After(h[0], Head(messages)), gone) => Hears(other, rest, sound, gone)
  BY <1>7, <1>8, <1>10 DEF Hears
<1> QED  BY <1>2, <1>9, <1>11 DEF rest

-----------------------------------------------------------------------------
(* The loop over the list.  What it yields does not depend on the order.     *)

Muted(c) == c.type = "mute" /\ c.val = 1

\* v is what there is to show of the controls cs.
IsLoudness(v, cs) ==
    /\ v \in Nat
    /\ (\E c \in cs : Muted(c)) => v = 0
    /\ ~(\E c \in cs : Muted(c)) =>
          /\ v = 100 \/ \E c \in cs : c.type = "level" /\ v = Percent(c)
          /\ v <= 100 /\ \A c \in cs : c.type = "level" => v <= Percent(c)

LEMMA Quotient ==
    ASSUME NEW k \in Nat, NEW n \in Nat \ {0}
    PROVE  k \div n \in Nat
BY SMT

LEMMA PercentType ==
    ASSUME NEW c, c.val \in Nat, c.maxval \in Nat \ {0}
    PROVE  Percent(c) \in Nat
<1>1. c.maxval \div 2 \in Nat /\ c.val * 100 \in Nat
  BY SMT
<1>2. c.val * 100 + c.maxval \div 2 \in Nat
  BY <1>1
<1> QED  BY <1>2, Quotient DEF Percent

\* There is only one such value, also for controls that agree in what counts.
LEMMA LoudnessOnce ==
    ASSUME NEW cs, NEW ds, NEW v, NEW w, IsLoudness(v, cs), IsLoudness(w, ds),
           \A c \in cs : \E d \in ds : c.type = d.type /\ c.val = d.val /\ c.maxval = d.maxval,
           \A d \in ds : \E c \in cs : c.type = d.type /\ c.val = d.val /\ c.maxval = d.maxval
    PROVE  v = w
<1>1. v \in Nat /\ w \in Nat
  BY DEF IsLoudness
<1>2. (\E c \in cs : Muted(c)) <=> (\E d \in ds : Muted(d))
  BY DEF Muted
<1>3. CASE \E c \in cs : Muted(c)
  BY <1>2, <1>3 DEF IsLoudness
<1>4. CASE ~\E c \in cs : Muted(c)
  <2>1. \A c, d : c.val = d.val /\ c.maxval = d.maxval => Percent(c) = Percent(d)
    BY DEF Percent
  <2>2. /\ v = 100 \/ \E c \in cs : c.type = "level" /\ v = Percent(c)
        /\ v <= 100 /\ \A c \in cs : c.type = "level" => v <= Percent(c)
    BY <1>4 DEF IsLoudness
  <2>3. /\ w = 100 \/ \E d \in ds : d.type = "level" /\ w = Percent(d)
        /\ w <= 100 /\ \A d \in ds : d.type = "level" => w <= Percent(d)
    BY <1>2, <1>4 DEF IsLoudness
  <2>4. v <= w
    <3>1. CASE w = 100
      BY <2>2, <3>1
    <3>2. CASE \E d \in ds : d.type = "level" /\ w = Percent(d)
      <4>1. PICK d \in ds : d.type = "level" /\ w = Percent(d)
        BY <3>2
      <4>2. PICK c \in cs : c.type = d.type /\ c.val = d.val /\ c.maxval = d.maxval
        OBVIOUS
      <4>3. v <= Percent(c)
        BY <2>2, <4>1, <4>2
      <4>4. Percent(c) = w
        BY <2>1, <4>1, <4>2
      <4> QED  BY <4>3, <4>4
    <3> QED  BY <2>3, <3>1, <3>2
  <2>5. w <= v
    <3>1. CASE v = 100
      BY <2>3, <3>1
    <3>2. CASE \E c \in cs : c.type = "level" /\ v = Percent(c)
      <4>1. PICK c \in cs : c.type = "level" /\ v = Percent(c)
        BY <3>2
      <4>2. PICK d \in ds : c.type = d.type /\ c.val = d.val /\ c.maxval = d.maxval
        OBVIOUS
      <4>3. w <= Percent(d)
        BY <2>3, <4>1, <4>2
      <4>4. Percent(d) = v
        BY <2>1, <4>1, <4>2
      <4> QED  BY <4>3, <4>4
    <3> QED  BY <2>2, <3>1, <3>2
  <2> QED  BY <1>1, <2>4, <2>5
<1> QED  BY <1>3, <1>4

\* Loudness is one.
LEMMA LoudnessIs ==
    ASSUME NEW A, NEW sound, sound \in [A -> Controls]
    PROVE  IsLoudness(Loudness(sound), {sound[addr] : addr \in Used(sound)})
<1> DEFINE cs == {sound[addr] : addr \in Used(sound)}
           Levels == {addr \in Used(sound) : sound[addr].type = "level"}
           S == {100} \cup {Percent(sound[addr]) : addr \in Levels}
<1>1. Used(sound) = {addr \in A : sound[addr].type # "none"}
  BY DEF Used
<1>2. \A c \in cs : c \in Control
  BY <1>1, ControlsAssumption
<1>3. \A c \in cs : Percent(c) \in Nat
  BY <1>2, PercentType DEF Control
<1>4. (\E addr \in Used(sound) : sound[addr].type = "mute" /\ sound[addr].val = 1)
      <=> (\E c \in cs : Muted(c))
  BY DEF Muted
<1>5. Loudness(sound) = IF \E c \in cs : Muted(c) THEN 0 ELSE Min(S)
  BY <1>4 DEF Loudness
<1>6. \A c \in cs : c.type = "level" => Percent(c) \in S
  OBVIOUS
<1>7. \A x \in S : x = 100 \/ \E c \in cs : c.type = "level" /\ x = Percent(c)
  OBVIOUS
<1>8. S \in SUBSET Nat /\ 100 \in S
  BY <1>3, <1>7
<1> HIDE DEF S, cs
<1>9. Min(S) \in S /\ \A x \in S : Min(S) <= x
  BY <1>8, MinIsLeast
<1>10. IsLoudness(Loudness(sound), cs)
  <2>1. CASE \E c \in cs : Muted(c)
    BY <1>5, <2>1 DEF IsLoudness
  <2>2. CASE ~\E c \in cs : Muted(c)
    <3>1. Loudness(sound) = Min(S)
      BY <1>5, <2>2
    <3> QED  BY <1>6, <1>7, <1>8, <1>9, <2>2, <3>1 DEF IsLoudness
  <2> QED  BY <2>1, <2>2
<1> QED  BY <1>10 DEF cs

\* One step of the loop.
Lowered(v, c) ==
    CASE c.type = "mute" /\ c.val = 1         -> 0
      [] c.type = "level" /\ Percent(c) < v -> Percent(c)
      [] OTHER                               -> v

LEMMA LoweredIs ==
    ASSUME NEW cs \in SUBSET Listed, NEW v, IsLoudness(v, cs), NEW c \in Listed
    PROVE  IsLoudness(Lowered(v, c), cs \cup {c})
<1>1. v \in Nat /\ Percent(c) \in Nat /\ c.type \in {"level", "mute"}
  BY PercentType DEF IsLoudness, Listed
<1>2. CASE Muted(c)
  <2>1. Lowered(v, c) = 0
    BY <1>2 DEF Lowered, Muted
  <2> QED  BY <1>2, <2>1 DEF IsLoudness
<1>3. CASE ~Muted(c) /\ \E d \in cs : Muted(d)
  <2>1. v = 0
    BY <1>3 DEF IsLoudness
  <2>2. ~(c.type = "level" /\ Percent(c) < v)
    BY <1>1, <2>1
  <2>3. Lowered(v, c) = 0
    BY <1>3, <2>1, <2>2 DEF Lowered, Muted
  <2> QED  BY <1>3, <2>3 DEF IsLoudness
<1>4. CASE ~Muted(c) /\ ~\E d \in cs : Muted(d)
  <2>0. ~\E d \in cs \cup {c} : Muted(d)
    BY <1>4
  <2>1. /\ v = 100 \/ \E d \in cs : d.type = "level" /\ v = Percent(d)
        /\ v <= 100 /\ \A d \in cs : d.type = "level" => v <= Percent(d)
    BY <1>4 DEF IsLoudness
  <2>2. CASE c.type = "level" /\ Percent(c) < v
    <3>1. Lowered(v, c) = Percent(c)
      BY <1>4, <2>2 DEF Lowered, Muted
    <3>2. ASSUME NEW d \in cs \cup {c}, d.type = "level"
          PROVE  Percent(c) <= Percent(d)
      <4>1. CASE d = c
        BY <1>1, <4>1
      <4>2. CASE d \in cs
        <5>1. v <= Percent(d)
          BY <2>1, <3>2, <4>2
        <5>2. Percent(d) \in Nat
          BY <4>2, PercentType DEF Listed
        <5> QED  BY <1>1, <2>2, <5>1, <5>2
      <4> QED  BY <3>2, <4>1, <4>2
    <3> QED  BY <1>1, <2>0, <2>1, <2>2, <3>1, <3>2 DEF IsLoudness
  <2>3. CASE ~(c.type = "level" /\ Percent(c) < v)
    <3>1. Lowered(v, c) = v
      BY <1>4, <2>3 DEF Lowered, Muted
    <3>2. c.type = "level" => v <= Percent(c)
      BY <1>1, <2>3
    <3> QED  BY <1>1, <2>0, <2>1, <3>1, <3>2 DEF IsLoudness
  <2> QED  BY <2>2, <2>3
<1> QED  BY <1>2, <1>3, <1>4

\* The fold of Perc: f[s] is the value after the elements of list at s, the
\* last of which is taken last.
Step(f, list, s) == IF s = {} THEN 100 ELSE Lowered(f[s \ {Max(s)}], list[Max(s)])
IsFold(f, list) == f = [s \in SUBSET DOMAIN list |-> Step(f, list, s)]
Fold(list) == CHOOSE f : IsFold(f, list)

LEMMA PercIsFold == \A list : Perc(list) = Fold(list)[DOMAIN list]
BY DEF Perc, FoldLeft, MapThenFoldSet, Lowered, Step, IsFold, Fold

\* Some places of the list, and what is left of them without the last one.
LEMMA Rest ==
    ASSUME NEW n \in Nat, NEW s \in SUBSET (1 .. n), s # {}
    PROVE  /\ Max(s) \in s /\ s \ {Max(s)} \in SUBSET (1 .. n)
           /\ Cardinality(s) \in Nat \ {0}
           /\ Cardinality(s \ {Max(s)}) = Cardinality(s) - 1
<1> DEFINE From == {n - x : x \in s}
<1>1. From \in SUBSET Nat /\ From # {}
  <2>1. \A x \in 1 .. n : n - x \in Nat
    OBVIOUS
  <2>2. \A x \in s : n - x \in Nat
    BY <2>1
  <2> QED  BY <2>2
<1>2. PICK m \in From : \A y \in From : m <= y
  BY <1>1, LeastNumber
<1>3. PICK x \in s : m = n - x
  BY <1>2
<1>4. ASSUME NEW y \in s
      PROVE  x >= y
  <2>1. n - x <= n - y
    BY <1>2, <1>3
  <2>2. x \in Nat /\ y \in Nat
    OBVIOUS
  <2> QED  BY <2>1, <2>2
<1>5. Max(s) \in s
  BY <1>4 DEF Max
<1>6. IsFiniteSet(s)
  <2>1. IsFiniteSet(1 .. n)
    BY FS_Interval
  <2> QED  BY <2>1, FS_Subset
<1>7. Cardinality(s) \in Nat /\ Cardinality(s) # 0
  BY <1>6, FS_CardinalityType, FS_EmptySet
<1>8. Cardinality(s \ {Max(s)}) = Cardinality(s) - 1
  BY <1>5, <1>6, FS_RemoveElement
<1> QED  BY <1>5, <1>7, <1>8

LEMMA Small ==
    ASSUME NEW n \in Nat, NEW s \in SUBSET (1 .. n)
    PROVE  Cardinality(s) \in Nat /\ Cardinality(s) <= n
<1>1. IsFiniteSet(1 .. n) /\ Cardinality(1 .. n) = n
  BY FS_Interval
<1>2. IsFiniteSet(s) /\ Cardinality(s) <= n
  BY <1>1, FS_Subset
<1> QED  BY <1>2, FS_CardinalityType

\* The recursion has a solution, as the one for sets of m elements yields one
\* for sets of m + 1.
LEMMA FoldEquation ==
    ASSUME NEW list, NEW n \in Nat, DOMAIN list = 1 .. n
    PROVE  \A s \in SUBSET (1 .. n) : Fold(list)[s] = Step(Fold(list), list, s)
<1> DEFINE Upto(m) == \E g : \A s \in SUBSET (1 .. n) : Cardinality(s) <= m => g[s] = Step(g, list, s)
           Bad == {m \in Nat : ~Upto(m)}
<1>1. ASSUME NEW m \in Nat, m = 0 \/ (m - 1 \in Nat /\ Upto(m - 1))
      PROVE  Upto(m)
  <2>1. PICK g : m # 0 => \A s \in SUBSET (1 .. n) : Cardinality(s) <= m - 1 => g[s] = Step(g, list, s)
    BY <1>1
  <2> DEFINE h == [s \in SUBSET (1 .. n) |-> Step(g, list, s)]
  <2>2. ASSUME NEW s \in SUBSET (1 .. n), Cardinality(s) <= m
        PROVE  h[s] = Step(h, list, s)
    <3>1. h[s] = Step(g, list, s)
      OBVIOUS
    <3>2. CASE s = {}
      BY <3>1, <3>2 DEF Step
    <3>3. CASE s # {}
      <4> DEFINE t == s \ {Max(s)}
      <4>1. t \in SUBSET (1 .. n) /\ m # 0 /\ Cardinality(t) <= m - 1
        <5>1. t \in SUBSET (1 .. n) /\ Cardinality(s) \in Nat \ {0} /\ Cardinality(t) = Cardinality(s) - 1
          BY <3>3, Rest
        <5> HIDE DEF t
        <5> QED  BY <2>2, <5>1
      <4>2. h[t] = Step(g, list, t)
        BY <4>1
      <4>3. g[t] = Step(g, list, t)
        BY <2>1, <4>1
      <4> HIDE DEF h
      <4> QED  BY <3>1, <3>3, <4>2, <4>3 DEF Step
    <3> QED  BY <3>2, <3>3
  <2> HIDE DEF h
  <2> QED  BY <2>2
<1>2. Bad = {}
  <2>1. SUFFICES ASSUME Bad # {} PROVE FALSE
    OBVIOUS
  <2> HIDE DEF Upto
  <2>2. PICK m \in Bad : \A k \in Bad : m <= k
    BY <2>1, LeastNumber
  <2>3. m = 0 \/ (m - 1 \in Nat /\ Upto(m - 1))
    BY <2>2
  <2> QED  BY <1>1, <2>2, <2>3
<1>3. PICK g : \A s \in SUBSET (1 .. n) : g[s] = Step(g, list, s)
  <2>1. Upto(n)
    BY <1>2
  <2> QED  BY <2>1, Small
<1> DEFINE h == [s \in SUBSET (1 .. n) |-> g[s]]
<1>4. ASSUME NEW s \in SUBSET (1 .. n)
      PROVE  h[s] = Step(h, list, s)
  <2>1. h[s] = Step(g, list, s)
    BY <1>3
  <2>2. CASE s = {}
    BY <2>1, <2>2 DEF Step
  <2>3. CASE s # {}
    <3>1. s \ {Max(s)} \in SUBSET (1 .. n)
      OBVIOUS
    <3>2. h[s \ {Max(s)}] = g[s \ {Max(s)}]
      BY <3>1
    <3> HIDE DEF h
    <3> QED  BY <2>1, <2>3, <3>2 DEF Step
  <2> QED  BY <2>2, <2>3
<1>5. IsFold(h, list)
  <2>1. h = [s \in SUBSET (1 .. n) |-> h[s]]
    OBVIOUS
  <2> HIDE DEF h
  <2>2. h = [s \in SUBSET (1 .. n) |-> Step(h, list, s)]
    BY <1>4, <2>1
  <2> QED  BY <2>2 DEF IsFold
<1>6. IsFold(Fold(list), list)
  BY <1>5 DEF Fold
<1> DEFINE f == Fold(list)
<1>7. f = [s \in SUBSET (1 .. n) |-> Step(f, list, s)]
  BY <1>6 DEF IsFold
<1> HIDE DEF f
<1>8. \A s \in SUBSET (1 .. n) : f[s] = Step(f, list, s)
  BY <1>7
<1> QED  BY <1>8 DEF f

\* So the loop yields what there is to show of the list.
LEMMA PercIs ==
    ASSUME NEW list \in Lists
    PROVE  IsLoudness(Perc(list), {list[k] : k \in 1 .. Len(list)})
<1> DEFINE n == Len(list)
           f == Fold(list)
           At(s) == {list[k] : k \in s}
           Bad == {m \in Nat : \E s \in SUBSET (1 .. n) :
                                  Cardinality(s) = m /\ ~IsLoudness(f[s], At(s))}
<1>1. n \in Nat /\ DOMAIN list = 1 .. n /\ \A k \in 1 .. n : list[k] \in Listed
  BY ListType
<1>2. \A s \in SUBSET (1 .. n) : f[s] = Step(f, list, s)
  BY <1>1, FoldEquation
<1>3. ASSUME Bad # {}
      PROVE  FALSE
  <2>1. PICK m \in Bad : \A k \in Bad : m <= k
    BY <1>3, LeastNumber
  <2>2. PICK s \in SUBSET (1 .. n) : Cardinality(s) = m /\ ~IsLoudness(f[s], At(s))
    BY <2>1
  <2> HIDE DEF f, n
  <2>3. CASE s = {}
    <3>1. f[s] = 100 /\ At(s) = {}
      BY <1>2, <2>3 DEF Step
    <3> QED  BY <2>2, <3>1 DEF IsLoudness
  <2>4. CASE s # {}
    <3> DEFINE x == Max(s)
               t == s \ {x}
    <3>1. x \in s /\ t \in SUBSET (1 .. n) /\ Cardinality(t) = m - 1 /\ m - 1 \in Nat
      <4>1. /\ x \in s /\ t \in SUBSET (1 .. n) /\ Cardinality(s) \in Nat \ {0}
            /\ Cardinality(t) = Cardinality(s) - 1
        BY <1>1, <2>4, Rest
      <4> HIDE DEF x, t
      <4> QED  BY <2>2, <4>1
    <3>2. IsLoudness(f[t], At(t))
      <4>1. m - 1 \notin Bad
        <5>1. m \in Nat /\ m - 1 \in Nat /\ \A k \in Bad : m <= k
          BY <2>1, <3>1
        <5> HIDE DEF Bad
        <5> QED  BY <5>1
      <4> HIDE DEF t, At
      <4> QED  BY <3>1, <4>1
    <3>3. f[s] = Lowered(f[t], list[x])
      BY <1>2, <2>4 DEF Step
    <3>4. list[x] \in Listed /\ At(t) \in SUBSET Listed
      BY <1>1, <3>1
    <3>5. At(s) = At(t) \cup {list[x]}
      BY <3>1
    <3> HIDE DEF At, x, t
    <3> QED  BY <2>2, <3>2, <3>3, <3>4, <3>5, LoweredIs
  <2> QED  BY <2>3, <2>4
<1>4. IsLoudness(f[1 .. n], At(1 .. n))
  <2>1. Cardinality(1 .. n) \in Nat /\ 1 .. n \in SUBSET (1 .. n)
    BY <1>1, Small
  <2> HIDE DEF f, At, n
  <2> QED  BY <1>3, <2>1
<1>5. Perc(list) = f[1 .. n]
  BY <1>1, PercIsFold
<1> QED  BY <1>4, <1>5

-----------------------------------------------------------------------------
(* The steps.                                                                *)

\* An order of the addresses has all of them.
LEMMA OrderHasAll ==
    ASSUME NEW order \in SetToSeqs(Addrs)
    PROVE  /\ order \in Seq(Addrs) /\ Len(order) \in Nat
           /\ \A k \in 1 .. Len(order) : order[k] \in Addrs
           /\ \A addr \in Addrs : \E k \in 1 .. Len(order) : order[k] = addr
<1> DEFINE n == Cardinality(Addrs)
<1>1. n \in Nat /\ IsFiniteSet(Addrs)
  BY AddrsAssumption, FS_CardinalityType
<1>2. order \in [1 .. n -> Addrs] /\ \A i, j \in 1 .. n : i # j => order[i] # order[j]
  BY DEF SetToSeqs
<1>3. IsFiniteSet(1 .. n) /\ Cardinality(1 .. n) = n
  BY <1>1, FS_Interval
<1>4. order \in Injection(1 .. n, Addrs)
  BY <1>2 DEF Injection, IsInjective
<1>5. order \in Surjection(1 .. n, Addrs)
  BY <1>1, <1>3, <1>4, FS_Injection
<1> HIDE DEF n
<1>6. \A addr \in Addrs : \E k \in 1 .. n : order[k] = addr
  BY <1>5 DEF Surjection
<1>7. order \in Seq(Addrs) /\ Len(order) = n
  BY <1>1, <1>2
<1> QED  BY <1>1, <1>2, <1>6, <1>7

\* Who has every control described, hears what the server has.
LEMMA AllDescribed ==
    ASSUME NEW sound \in Sounds, NEW order \in SetToSeqs(Addrs),
           NEW messages, messages = [k \in 1 .. Len(order) |-> Description(order[k], sound[order[k]])]
    PROVE  messages \in Seq(Described \cup Valued) /\ Hears(<<>>, messages, sound, {})
<1> DEFINE n == Len(order)
           Known(k, addr) == IF \E j \in 1 .. k : order[j] = addr THEN sound[addr] ELSE Absent
           h == [k \in 0 .. n |-> [addr \in Addrs |-> Known(k, addr)]]
<1>1. /\ n \in Nat /\ \A k \in 1 .. n : order[k] \in Addrs
      /\ \A addr \in Addrs : \E k \in 1 .. n : order[k] = addr
  BY OrderHasAll
<1> HIDE DEF n
<1>2. \A addr \in Addrs : sound[addr] \in Control /\ sound[addr] \in Controls
  BY SoundType
<1>3. \A addr \in Addrs : Description(addr, sound[addr]) \in Described
  BY <1>2 DEF Description, Described, Control
<1>4. /\ messages \in Seq(Described \cup Valued) /\ Len(messages) = n
      /\ \A k \in 1 .. n : messages[k] = Description(order[k], sound[order[k]])
  BY <1>1, <1>3 DEF n
<1>5. \A k, addr : addr \in Addrs => Known(k, addr) \in Controls
  BY <1>2, ControlsAssumption
<1>6. h \in [0 .. n -> Sounds] /\ \A k \in 0 .. n : h[k] = [addr \in Addrs |-> Known(k, addr)]
  BY <1>5 DEF Sounds
<1> HIDE DEF h
<1>7. ASSUME NEW k \in 1 .. n
      PROVE  h[k] = After(h[k - 1], messages[k])
  <2> DEFINE at == order[k]
             m == messages[k]
  <2>1. k - 1 \in 0 .. n /\ k \in 0 .. n /\ at \in Addrs /\ m = Description(at, sound[at])
    BY <1>1, <1>4
  <2>2. m.kind = "desc" /\ m.addr = at
    BY <2>1 DEF Description
  <2>3. [type |-> m.type, maxval |-> m.maxval, val |-> m.val] = sound[at]
    BY <1>2, <2>1 DEF Description, Control
  <2>4. /\ h[k] = [addr \in Addrs |-> Known(k, addr)]
        /\ h[k - 1] = [addr \in Addrs |-> Known(k - 1, addr)]
    BY <1>6, <2>1
  <2>5. After(h[k - 1], m) = [h[k - 1] EXCEPT ![at] = sound[at]]
    BY <2>2, <2>3 DEF After
  <2>6. Known(k, at) = sound[at]
    OBVIOUS
  <2>7. ASSUME NEW addr \in Addrs, addr # at
        PROVE  Known(k, addr) = Known(k - 1, addr)
    <3>1. \A j \in 1 .. k : j # k => j \in 1 .. k - 1
      OBVIOUS
    <3>2. \A j \in 1 .. k - 1 : j \in 1 .. k
      OBVIOUS
    <3>3. (\E j \in 1 .. k : order[j] = addr) <=> (\E j \in 1 .. k - 1 : order[j] = addr)
      BY <2>7, <3>1, <3>2
    <3> QED  BY <3>3
  <2> HIDE DEF Known, at, m
  <2>8. \A addr \in Addrs : [h[k - 1] EXCEPT ![at] = sound[at]][addr] = Known(k, addr)
    BY <2>1, <2>4, <2>6, <2>7
  <2>9. [h[k - 1] EXCEPT ![at] = sound[at]] = [addr \in Addrs |-> Known(k, addr)]
    BY <2>4, <2>8
  <2> QED  BY <2>4, <2>5, <2>9 DEF m
<1>8. h[n] = sound
  <2>1. n \in 0 .. n
    BY <1>1
  <2>2. \A addr \in Addrs : Known(n, addr) = sound[addr]
    BY <1>1
  <2> HIDE DEF Known
  <2> QED  BY <1>6, <2>1, <2>2 DEF Sounds
<1>9. Leads(h, messages, sound)
  BY <1>4, <1>7, <1>8 DEF Leads
<1>10. Holds(<<>>, h[0], {})
  <2>1. 0 \in 0 .. n /\ \A addr \in Addrs : Known(0, addr) = Absent
    BY <1>1
  <2> HIDE DEF Known
  <2>2. \A addr \in Addrs : h[0][addr].type = "none"
    BY <1>6, <2>1 DEF Absent
  <2>3. \A addr : ~Has(<<>>, addr)
    BY DEF Has
  <2> QED  BY <2>2, <2>3 DEF Holds
<1> QED  BY <1>4, <1>6, <1>9, <1>10 DEF Hears

LEMMA EmptyList == <<>> \in Lists
BY DEF Lists

LEMMA OpenKeeps ==
    ASSUME VInv, Open
    PROVE  VInv'
<1> USE DEF VInv
<1>1. PICK order \in SetToSeqs(Addrs) :
          queue' = [k \in 1 .. Len(order) |-> Description(order[k], server[order[k]])]
  BY DEF Open
<1>2. /\ pc = "idle" /\ ~initialized /\ up /\ hdl' = TRUE /\ cut' = FALSE /\ pc' = "init"
      /\ UNCHANGED <<server, up, changes, scarce, initialized, controls, value, lost, seen>>
  BY DEF Open, serverVars
<1>3. controls = <<>> /\ lost = {} /\ server \in Sounds
  BY <1>2 DEF Phases, Types
<1>4. queue' \in Seq(Described \cup Valued) /\ Hears(<<>>, queue', server, {})
  BY <1>1, <1>3, AllDescribed
<1>5. Types'
  BY <1>2, <1>4 DEF Types
<1>6. Phases' /\ Hearing' /\ Answered'
  BY <1>2, <1>3, <1>4 DEF Phases, Hearing, Answered
<1> QED  BY <1>5, <1>6

LEMMA ReadKeeps ==
    ASSUME VInv, ondesc \/ onval
    PROVE  VInv'
<1> USE DEF VInv
<1> DEFINE message == Head(queue)
<1>1. /\ pc # "idle" /\ queue # <<>> /\ queue' = Tail(queue)
      /\ UNCHANGED <<server, up, changes, scarce, hdl, cut, initialized, pc, value, seen>>
  BY DEF ondesc, onval, serverVars
<1>2. /\ queue \in Seq(Described \cup Valued) /\ controls \in Lists /\ lost \in SUBSET Addrs
      /\ server \in Sounds
  BY DEF Types
<1>3. message \in Described \cup Valued /\ queue' \in Seq(Described \cup Valued)
  BY <1>1, <1>2
<1>4. hdl
  BY <1>1 DEF Phases
<1> HIDE DEF message
\* What the list becomes, whatever it was to hold.
<1>5. /\ controls' \in Lists /\ lost' \in SUBSET Addrs
      /\ \A was \in Sounds : Holds(controls, was, lost)
                                => Holds(controls', After(was, message), lost')
  <2>1. CASE ondesc
    <3>1. message \in Described
      BY <1>3, <2>1 DEF ondesc, message, Described, Valued
    <3>2. message.addr \in Addrs
      BY <3>1 DEF Described
    <3>3. \/ message.type = "none" /\ controls' = Delete(controls, message.addr)
             /\ lost' = lost \ {message.addr}
          \/ message.type # "none" /\ controls' = Insert(controls, message)
             /\ lost' = lost \ {message.addr}
          \/ controls' = Delete(controls, message.addr) /\ lost' = lost \cup {message.addr}
      BY <2>1 DEF ondesc, message
    <3>4. lost' \in SUBSET Addrs
      BY <1>2, <3>2, <3>3
    <3>5. Entry(message.addr, message) \in Listed \/ message.type = "none"
      BY <3>1 DEF Described, Listed, Entry
    <3>6. controls' \in Lists
      BY <1>2, <3>3, <3>5, Deleted, Inserted
    <3>7. ASSUME NEW was \in Sounds, Holds(controls, was, lost)
          PROVE  Holds(controls', After(was, message), lost')
      <4> DEFINE addr == message.addr
                 now == After(was, message)
      <4>1. /\ message.type = "none" => Holds(Delete(controls, addr), now, lost \ {addr})
            /\ Holds(Delete(controls, addr), now, lost \cup {addr})
            /\ message.type # "none" => Holds(Insert(controls, message), now, lost \ {addr})
        BY <1>2, <3>1, <3>7, DescHeard
      <4> HIDE DEF addr, now
      <4>2. Holds(controls', now, lost')
        BY <3>3, <4>1 DEF addr
      <4> QED  BY <4>2 DEF now
    <3> QED  BY <3>4, <3>6, <3>7
  <2>2. CASE onval
    <3>1. message \in Valued
      BY <1>3, <2>2 DEF onval, message, Described, Valued
    <3>2. controls' = Update(controls, message.addr, message.val) /\ lost' = lost /\ message.val \in Nat
      BY <2>2, <3>1 DEF onval, message, Valued
    <3>3. controls' \in Lists
      BY <1>2, <3>2, Updated
    <3>4. ASSUME NEW was \in Sounds, Holds(controls, was, lost)
          PROVE  Holds(controls', After(was, message), lost')
      BY <1>2, <3>1, <3>2, <3>4, ValHeard
    <3> QED  BY <1>2, <3>2, <3>3, <3>4
  <2> QED  BY <2>1, <2>2
<1>6. Types'
  BY <1>1, <1>3, <1>5 DEF Types
<1>7. Phases' /\ Answered'
  BY <1>1, <1>4 DEF Phases, Answered
<1>8. Hearing'
  <2>1. SUFFICES ASSUME ~cut PROVE Hears(controls', queue', server, lost')
    BY <1>1 DEF Hearing
  <2>2. Hears(controls, queue, server, lost)
    BY <1>4, <2>1 DEF Hearing
  <2>3. PICK was \in Sounds :
            /\ Holds(controls, was, lost)
            /\ \A other, gone : Holds(other, After(was, message), gone)
                                   => Hears(other, queue', server, gone)
    BY <1>1, <1>2, <2>2, HearsNext DEF message
  <2> QED  BY <1>5, <2>3
<1> QED  BY <1>6, <1>7, <1>8

\* The server changes, and who is connected is told.
LEMMA ToldKeeps ==
    ASSUME VInv, NEW message \in Described \cup Valued, Tell(message),
           server' \in Sounds, server' = After(server, message), changes' \in 0 .. MaxChanges,
           up, UNCHANGED <<up, scarce, cut>>, unchangedClient
    PROVE  VInv'
<1> USE DEF VInv
<1>1. UNCHANGED <<hdl, initialized, controls, pc, value, lost, seen>>
  BY DEF unchangedClient
<1>2. queue \in Seq(Described \cup Valued)
  BY DEF Types
<1>3. queue' = IF hdl /\ ~cut THEN Append(queue, message) ELSE queue
  BY DEF Tell
<1>4. queue' \in Seq(Described \cup Valued)
  BY <1>2, <1>3
<1>5. Types'
  BY <1>1, <1>4 DEF Types
<1>6. Phases' /\ Answered'
  BY <1>1 DEF Phases, Answered
<1>7. Hearing'
  <2>1. SUFFICES ASSUME hdl, ~cut PROVE Hears(controls, queue', server', lost)
    BY <1>1 DEF Hearing
  <2>2. Hears(controls, queue, server, lost)
    BY <2>1 DEF Hearing
  <2>3. queue' = Append(queue, message)
    BY <1>3, <2>1
  <2> QED  BY <1>2, <2>2, <2>3, HearsMore
<1> QED  BY <1>5, <1>6, <1>7

LEMMA ReplaceKeeps ==
    ASSUME VInv, Replace
    PROVE  VInv'
<1>1. PICK addr \in Addrs, c \in Controls :
          /\ server' = [server EXCEPT ![addr] = c]
          /\ Tell(Description(addr, c))
  BY DEF Replace
<1>2. /\ up /\ changes < MaxChanges /\ changes' = changes + 1
      /\ UNCHANGED <<up, scarce, cut>> /\ unchangedClient
  BY DEF Replace, Happens
<1>3. server \in Sounds /\ changes' \in 0 .. MaxChanges
  BY <1>2, AddrsAssumption DEF VInv, Types
<1>4. c \in Control
  BY ControlsAssumption
<1>5. Description(addr, c) \in Described
  BY <1>4 DEF Description, Described, Control
<1>6. server' \in Sounds
  BY <1>1, <1>3 DEF Sounds
<1>7. server' = After(server, Description(addr, c))
  <2>1. [type |-> c.type, maxval |-> c.maxval, val |-> c.val] = c
    BY <1>4 DEF Control
  <2>2. After(server, Description(addr, c))
          = [server EXCEPT ![addr] = [type |-> c.type, maxval |-> c.maxval, val |-> c.val]]
    BY DEF After, Description
  <2> QED  BY <1>1, <2>1, <2>2
<1> QED  BY <1>1, <1>2, <1>3, <1>5, <1>6, <1>7, ToldKeeps

LEMMA TurnKeeps ==
    ASSUME VInv, Turn
    PROVE  VInv'
<1>1. PICK addr \in Addrs, val \in {c.val : c \in Controls} :
          /\ [server[addr] EXCEPT !.val = val] \in Controls
          /\ server' = [server EXCEPT ![addr].val = val]
          /\ Tell([kind |-> "val", addr |-> addr, val |-> val])
  BY DEF Turn
<1> DEFINE m == [kind |-> "val", addr |-> addr, val |-> val]
<1>2. /\ up /\ changes < MaxChanges /\ changes' = changes + 1
      /\ UNCHANGED <<up, scarce, cut>> /\ unchangedClient
  BY DEF Turn, Happens
<1>3. server \in Sounds /\ changes' \in 0 .. MaxChanges
  BY <1>2, AddrsAssumption DEF VInv, Types
<1>4. m \in Described \cup Valued
  <2>1. \A c \in Controls : c.val \in Nat
    BY ControlsAssumption DEF Control
  <2> QED  BY <2>1 DEF Valued
<1>5. server' \in Sounds
  BY <1>1, <1>3 DEF Sounds
<1>6. server' = After(server, m)
  <2>1. m.addr = addr /\ m.val = val /\ m.kind # "desc"
    OBVIOUS
  <2>2. server' = [server EXCEPT ![addr] = [server[addr] EXCEPT !.val = val]]
    BY <1>1
  <2> HIDE DEF m
  <2>3. After(server, m) = [server EXCEPT ![addr] = [server[addr] EXCEPT !.val = val]]
    BY <2>1, Zenon DEF After
  <2> QED  BY <2>2, <2>3
<1>7. Tell(m)
  BY <1>1
<1> HIDE DEF m
<1> QED  BY <1>2, <1>3, <1>4, <1>5, <1>6, <1>7, ToldKeeps

\* All messages are read, and the list holds what the server has.
LEMMA AllHeard ==
    ASSUME VInv, hdl, ~cut, queue = <<>>
    PROVE  Holds(controls, server, lost)
<1>1. Hears(controls, <<>>, server, lost)
  BY DEF VInv, Hearing
<1>2. Len(<<>>) = 0
  OBVIOUS
<1>3. PICK h : Leads(h, <<>>, server) /\ Holds(controls, h[0], lost)
  BY <1>1 DEF Hears
<1>4. h[0] = server
  BY <1>2, <1>3 DEF Leads
<1> QED  BY <1>3, <1>4

LEMMA ShowKeeps ==
    ASSUME VInv, Show
    PROVE  VInv'
<1> USE DEF VInv
<1>1. /\ pc = "revents" /\ queue = <<>> /\ ~cut /\ pc' = "idle"
      /\ value' = Perc(controls) /\ seen' = [addr \in Addrs \ lost |-> server[addr]]
      /\ UNCHANGED <<server, up, changes, scarce, hdl, cut, queue, initialized, controls, lost>>
  BY DEF Show, serverVars
<1>2. hdl /\ initialized
  BY <1>1 DEF Phases
<1>3. Types'
  BY <1>1 DEF Types
<1>4. Phases' /\ Hearing'
  BY <1>1, <1>2 DEF Phases, Hearing
<1>5. Answered'
  <2> DEFINE sound == [addr \in Addrs \ lost |-> server[addr]]
             cs == {controls[k] : k \in 1 .. Len(controls)}
             ds == {sound[addr] : addr \in Used(sound)}
  <2>1. Holds(controls, server, lost)
    BY <1>1, <1>2, AllHeard
  <2>2. controls \in Lists /\ server \in Sounds
    BY DEF Types
  <2>3. IsLoudness(value', cs)
    BY <1>1, <2>2, PercIs
  <2>4. IsLoudness(Loudness(sound), ds)
    <3>1. sound \in [Addrs \ lost -> Controls]
      BY <2>2 DEF Sounds
    <3> HIDE DEF sound
    <3> QED  BY <3>1, LoudnessIs
  <2>5. Used(sound) = {addr \in Addrs \ lost : server[addr].type # "none"}
    BY DEF Used
  <2>6. ASSUME NEW k \in 1 .. Len(controls)
        PROVE  \E d \in ds : /\ controls[k].type = d.type /\ controls[k].val = d.val
                             /\ controls[k].maxval = d.maxval
    <3> DEFINE addr == controls[k].addr
    <3>1. addr \in Addrs /\ Has(controls, addr)
      BY <2>2, ListType DEF Has
    <3>2. addr \notin lost /\ server[addr].type # "none"
      BY <2>1, <3>1 DEF Holds
    <3>3. PICK j \in 1 .. Len(controls) : controls[j] = Entry(addr, server[addr])
      BY <2>1, <3>1, <3>2 DEF Holds
    <3>4. controls[j].addr = addr
      BY <3>3 DEF Entry
    <3>5. j = k
      BY <2>2, <3>4, ListType
    <3>6. server[addr] \in ds
      <4>1. addr \in Used(sound) /\ sound[addr] = server[addr]
        BY <2>5, <3>1, <3>2
      <4> HIDE DEF addr, sound
      <4> QED  BY <4>1
    <3> HIDE DEF ds
    <3>7. /\ controls[k].type = server[addr].type /\ controls[k].val = server[addr].val
          /\ controls[k].maxval = server[addr].maxval
      BY <3>3, <3>5 DEF Entry
    <3> QED  BY <3>6, <3>7
  <2>7. ASSUME NEW addr \in Used(sound)
        PROVE  \E c \in cs : /\ c.type = sound[addr].type /\ c.val = sound[addr].val
                             /\ c.maxval = sound[addr].maxval
    <3>1. addr \in Addrs /\ addr \notin lost /\ server[addr].type # "none" /\ sound[addr] = server[addr]
      BY <2>5
    <3>2. PICK k \in 1 .. Len(controls) : controls[k] = Entry(addr, server[addr])
      BY <2>1, <3>1 DEF Holds
    <3> HIDE DEF sound
    <3> QED  BY <3>1, <3>2 DEF Entry
  <2>8. value' = Loudness(sound)
    <3>1. \A c \in cs : \E d \in ds : c.type = d.type /\ c.val = d.val /\ c.maxval = d.maxval
      <4> HIDE DEF ds
      <4> QED  BY <2>6
    <3>2. \A d \in ds : \E c \in cs : c.type = d.type /\ c.val = d.val /\ c.maxval = d.maxval
      <4> HIDE DEF cs, sound
      <4> QED  BY <2>7
    <3> HIDE DEF cs, ds, sound
    <3> QED  BY <2>3, <2>4, <3>1, <3>2, LoudnessOnce
  <2>9. value' \in 0 .. 100
    <3> HIDE DEF cs
    <3> QED  BY <2>3 DEF IsLoudness
  <2> QED  BY <1>1, <2>8, <2>9 DEF Answered
<1> QED  BY <1>3, <1>4, <1>5

\* Every step keeps the invariant.
LEMMA VolumeStep ==
    ASSUME VInv, [Next]_vars
    PROVE  VInv'
<1>1. CASE Open
  BY <1>1, OpenKeeps
<1>2. CASE ondesc \/ onval
  BY <1>2, ReadKeeps
<1>3. CASE Replace
  BY <1>3, ReplaceKeeps
<1>4. CASE Turn
  BY <1>4, TurnKeeps
<1>5. CASE Show
  BY <1>5, ShowKeeps
<1>6. CASE InitFails \/ Hangup
  <2>1. /\ hdl' = FALSE /\ controls' = <<>> /\ cut' = FALSE /\ queue' = <<>> /\ lost' = {}
        /\ pc' = "idle" /\ value' = NULL /\ initialized' \in {FALSE, initialized}
        /\ UNCHANGED <<server, up, changes, scarce>>
    BY <1>6 DEF InitFails, Hangup, Cleanup, serverVars
  <2>2. Types'
    <3>1. queue' \in Seq(Described \cup Valued)
      BY <2>1
    <3>2. initialized' \in BOOLEAN /\ hdl' \in BOOLEAN /\ cut' \in BOOLEAN
      BY <2>1 DEF VInv, Types
    <3>3. controls' \in Lists /\ lost' \subseteq Addrs
      BY <2>1, EmptyList
    <3> QED  BY <2>1, <3>1, <3>2, <3>3 DEF VInv, Types
  <2>3. Phases' /\ Hearing' /\ Answered'
    BY <2>1 DEF VInv, Phases, Hearing, Answered
  <2> QED  BY <2>2, <2>3 DEF VInv
<1>7. CASE NoHandle \/ Initialize \/ Poll \/ UNCHANGED vars
  <2>1. /\ UNCHANGED <<server, up, changes, scarce, hdl, cut, queue, controls, lost, seen>>
        /\ initialized' \in BOOLEAN /\ pc' \in {"idle", "init", "revents"} /\ value' \in {value, NULL}
        /\ pc' # "idle" => hdl
        /\ pc' = "revents" => initialized'
        /\ ~initialized' /\ pc' = "idle" => ~initialized /\ pc = "idle"
    BY <1>7 DEF VInv, Types, Phases, NoHandle, Initialize, Poll, vars, serverVars
  <2>2. Types'
    BY <2>1 DEF VInv, Types
  <2>3. Phases' /\ Hearing' /\ Answered'
    BY <2>1 DEF VInv, Phases, Hearing, Answered
  <2> QED  BY <2>2, <2>3 DEF VInv
<1>8. CASE Stop \/ Restart \/ Memory
  <2>1. /\ UNCHANGED <<hdl, queue, initialized, controls, pc, value, lost, seen>>
        /\ changes' \in 0 .. MaxChanges /\ up' \in BOOLEAN /\ cut' \in BOOLEAN /\ scarce' \in BOOLEAN
        /\ server' \in Sounds
    <3>1. changes' \in 0 .. MaxChanges
      BY <1>8, AddrsAssumption DEF VInv, Types, Stop, Restart, Memory, Happens
    <3> QED  BY <1>8, <3>1 DEF VInv, Types, Stop, Restart, Memory, unchangedClient, Sounds
  <2>2. Types'
    BY <2>1 DEF VInv, Types
  <2>3. /\ ~up' /\ hdl => cut'
        /\ hdl /\ ~cut' => ~cut /\ server' = server
    BY <1>8 DEF VInv, Phases, Stop, Restart, Memory
  <2>4. Phases' /\ Hearing' /\ Answered'
    BY <2>1, <2>3 DEF VInv, Phases, Hearing, Answered
  <2> QED  BY <2>2, <2>4 DEF VInv
<1> QED  BY <1>1, <1>2, <1>3, <1>4, <1>5, <1>6, <1>7, <1>8 DEF Next, vol_perc, Environment

LEMMA VolumeInit == Init => VInv
<1> SUFFICES ASSUME Init PROVE VInv
  OBVIOUS
<1>1. Types
  <2>1. queue \in Seq(Described \cup Valued)
    BY DEF Init
  <2>2. controls \in Lists /\ lost \subseteq Addrs
    BY EmptyList DEF Init
  <2>3. changes \in 0 .. MaxChanges
    BY AddrsAssumption DEF Init
  <2>4. initialized \in BOOLEAN /\ hdl \in BOOLEAN /\ cut \in BOOLEAN /\ scarce \in BOOLEAN
    BY Zenon DEF Init
  <2> QED  BY <2>1, <2>2, <2>3, <2>4 DEF Init, Types, Sounds
<1>2. Phases /\ Hearing /\ Answered
  BY DEF Init, Phases, Hearing, Answered
<1> QED  BY <1>1, <1>2 DEF VInv

LEMMA VolumeInvariant == Spec => []VInv
<1>1. VInv /\ [Next]_vars => VInv'
  BY VolumeStep
<1> QED  BY <1>1, VolumeInit, PTL DEF Spec

-----------------------------------------------------------------------------
(* What follows from it.                                                     *)

\* The list never outgrows the addresses.
LEMMA ListBound ==
    ASSUME NEW list \in Lists
    PROVE  Len(list) <= Cardinality(Addrs)
<1> DEFINE n == Len(list)
           f == [k \in 1 .. n |-> list[k].addr]
<1>1. /\ n \in Nat /\ \A k \in 1 .. n : list[k].addr \in Addrs
      /\ \A j, k \in 1 .. n : list[j].addr = list[k].addr => j = k
  BY ListType
<1> HIDE DEF n
<1>2. f \in Injection(1 .. n, Addrs)
  BY <1>1 DEF Injection, IsInjective
<1>3. Cardinality(1 .. n) = n
  BY <1>1, FS_Interval
<1>4. Cardinality(1 .. n) <= Cardinality(Addrs)
  BY <1>2, AddrsAssumption, FS_Injection
<1> QED  BY <1>3, <1>4 DEF n

THEOREM VolumeTypes == Spec => []TypeOK
<1>1. ASSUME VInv
      PROVE  TypeOK
  <2>1. Types /\ Answered
    BY <1>1 DEF VInv
  <2>2. \A k \in DOMAIN queue : queue[k].kind \in {"desc", "val"} /\ queue[k].addr \in Addrs
    <3>1. \A m \in Described \cup Valued : m.kind \in {"desc", "val"} /\ m.addr \in Addrs
      BY DEF Described, Valued
    <3>2. \A k \in DOMAIN queue : queue[k] \in Described \cup Valued
      BY <2>1 DEF Types
    <3> QED  BY <3>1, <3>2
  <2>3. Len(controls) <= Cardinality(Addrs)
    BY <2>1, ListBound DEF Types
  <2>4. value \in 0 .. 100 \cup {NULL}
    BY <2>1 DEF Answered
  <2> QED  BY <2>1, <2>2, <2>3, <2>4 DEF Types, TypeOK, Sounds
<1> QED  BY <1>1, VolumeInvariant, PTL

\* Whatever happened on the connection and to the memory: the list holds each
\* control of the server once, as soon as all messages are read.
THEOREM ListMirrors == Spec => []Mirrors
<1>1. ASSUME VInv
      PROVE  Mirrors
  <2>1. ~hdl => controls = <<>>
    BY <1>1 DEF VInv, Phases
  <2>2. ASSUME hdl, ~cut, queue = <<>>
        PROVE  /\ Len(controls) = Cardinality(Used(server) \ lost)
               /\ {controls[k] : k \in DOMAIN controls} =
                     {Entry(addr, server[addr]) : addr \in Used(server) \ lost}
    <3> DEFINE n == Len(controls)
               U == Used(server) \ lost
               f == [k \in 1 .. n |-> controls[k].addr]
    <3>1. Holds(controls, server, lost)
      BY <1>1, <2>2, AllHeard
    <3>2. controls \in Lists /\ server \in Sounds
      BY <1>1 DEF VInv, Types
    <3>3. /\ n \in Nat /\ DOMAIN controls = 1 .. n /\ \A k \in 1 .. n : controls[k].addr \in Addrs
          /\ \A j, k \in 1 .. n : controls[j].addr = controls[k].addr => j = k
      BY <3>2, ListType
    <3>4. U = {addr \in Addrs : ~(addr \in lost \/ server[addr].type = "none")}
      BY <3>2 DEF Used, Sounds
    <3> HIDE DEF n, U
    <3>5. ASSUME NEW k \in 1 .. n
          PROVE  /\ controls[k].addr \in U
                 /\ controls[k] = Entry(controls[k].addr, server[controls[k].addr])
      <4> DEFINE addr == controls[k].addr
      <4>1. addr \in Addrs /\ Has(controls, addr)
        BY <3>3 DEF Has, n
      <4>2. addr \in U
        BY <3>1, <3>4, <4>1 DEF Holds
      <4>3. PICK j \in 1 .. n : controls[j] = Entry(addr, server[addr])
        BY <3>1, <3>4, <4>1, <4>2 DEF Holds, n
      <4>4. controls[j].addr = addr
        BY <4>3 DEF Entry
      <4>5. j = k
        BY <3>3, <4>4
      <4> QED  BY <4>2, <4>3, <4>5
    <3>6. ASSUME NEW addr \in U
          PROVE  \E k \in 1 .. n : controls[k] = Entry(addr, server[addr]) /\ f[k] = addr
      <4>1. PICK k \in 1 .. n : controls[k] = Entry(addr, server[addr])
        BY <3>1, <3>4, <3>6 DEF Holds, n
      <4>2. f[k] = addr
        BY <4>1 DEF Entry
      <4> QED  BY <4>1, <4>2
    <3>7. f \in Bijection(1 .. n, U)
      <4>1. f \in [1 .. n -> U]
        BY <3>5
      <4>2. \A j, k \in 1 .. n : f[j] = f[k] => j = k
        BY <3>3
      <4>3. \A addr \in U : \E k \in 1 .. n : f[k] = addr
        BY <3>6
      <4> HIDE DEF f
      <4> QED  BY <4>1, <4>2, <4>3 DEF Bijection, Injection, IsInjective, Surjection
    <3>8. Cardinality(U) = n
      <4>1. IsFiniteSet(1 .. n) /\ Cardinality(1 .. n) = n
        BY <3>3, FS_Interval
      <4>2. ExistsBijection(1 .. n, U)
        BY <3>7 DEF ExistsBijection
      <4> QED  BY <4>1, <4>2, FS_Bijection
    <3>9. {controls[k] : k \in 1 .. n} = {Entry(addr, server[addr]) : addr \in U}
      BY <3>5, <3>6
    <3> QED  BY <3>3, <3>8, <3>9 DEF n, U
  <2> QED  BY <2>1, <2>2 DEF Mirrors
<1> QED  BY <1>1, VolumeInvariant, PTL

\* Whatever the order of the list, and for controls of every number and scale.
THEOREM VolumeIsShown == Spec => []VolumeShown
<1>1. VInv => VolumeShown
  BY DEF VInv, Answered, VolumeShown
<1> QED  BY <1>1, VolumeInvariant, PTL
=============================================================================
