---------------------------- MODULE RunExecProofs ----------------------------
(* Theorems about a call of run_exec, for buffers and pipes of any size, any *)
(* output and any number of signals.                                         *)
EXTENDS RunExec, FiniteSetTheorems, SequenceTheorems, TLAPS

USE SizeAssumption, ByteAssumption, OutputsAssumption, BehindAssumption

-----------------------------------------------------------------------------
(* The first and the last place of a byte *)

\* A set of numbers has a smallest one.
LEMMA LeastNumber ==
    ASSUME NEW S \in SUBSET Nat, S # {}
    PROVE  \E n \in S : \A m \in S : n <= m
  <1> DEFINE R == {ss \in Nat \X Nat : ss[1] < ss[2]}
  <1>1. IsWellFoundedOn(R, Nat)
    BY NatLessThanWellFounded DEF OpToRel
  <1>2. \A m, n \in Nat : m < n => <<m, n>> \in R
    OBVIOUS
  <1> HIDE DEF R
  <1>3. PICK n \in S : \A m \in S : <<m, n>> \notin R
    BY <1>1, WFMin
  <1>4. ASSUME NEW m \in S PROVE n <= m
    <2>1. m \in Nat /\ n \in Nat /\ ~(m < n)
      BY <1>2, <1>3
    <2> QED BY <2>1
  <1> QED BY <1>4

\* A bounded one has a greatest one.
LEMMA GreatestNumber ==
    ASSUME NEW k \in Nat, NEW S \in SUBSET (0 .. k), S # {}
    PROVE  \E n \in S : \A m \in S : n >= m
  <1> DEFINE T == {n \in Nat : k - n \in S}
  <1>1. T # {}
    <2>1. PICK m \in S : TRUE
      OBVIOUS
    <2>2. k - m \in Nat /\ k - (k - m) = m
      BY <2>1
    <2> QED BY <2>1, <2>2
  <1>2. PICK n \in T : \A m \in T : n <= m
    BY <1>1, LeastNumber
  <1>3. ASSUME NEW m \in S PROVE k - n >= m
    <2>1. k - m \in Nat /\ k - (k - m) = m
      OBVIOUS
    <2>2. n <= k - m /\ n \in Nat
      BY <1>2, <2>1
    <2> QED BY <2>2
  <1> QED BY <1>2, <1>3

\* FirstAt and LastAt, 0 if there is no such byte.
LEMMA Places ==
    ASSUME NEW b \in Seq(Byte), NEW c
    PROVE  /\ FirstAt(b, c) \in 0 .. Len(b) /\ LastAt(b, c) \in 0 .. Len(b)
           /\ FirstAt(b, c) = 0 <=> \A k \in 1 .. Len(b) : b[k] # c
           /\ LastAt(b, c) = 0 <=> \A k \in 1 .. Len(b) : b[k] # c
           /\ FirstAt(b, c) # 0 => /\ b[FirstAt(b, c)] = c
                                   /\ \A k \in 1 .. FirstAt(b, c) - 1 : b[k] # c
           /\ LastAt(b, c) # 0 => /\ b[LastAt(b, c)] = c
                                  /\ \A k \in LastAt(b, c) + 1 .. Len(b) : b[k] # c
  <1> DEFINE I == {k \in 1 .. Len(b) : b[k] = c}
  <1>1. FirstAt(b, c) = IF I # {} THEN Min(I) ELSE 0
    BY DEF FirstAt, SelectInSeq
  <1>2. LastAt(b, c) = IF I # {} THEN Max(I) ELSE 0
    BY DEF LastAt, SelectLastInSeq
  <1>3. Len(b) \in Nat /\ \A k \in 1 .. Len(b) : k \in I <=> b[k] = c
    OBVIOUS
  <1>4. I \in SUBSET Nat /\ I \in SUBSET (0 .. Len(b)) /\ 0 \notin I
    OBVIOUS
  <1> HIDE DEF I
  <1>5. I # {} => Min(I) \in I /\ \A k \in I : Min(I) <= k
    BY <1>4, LeastNumber DEF Min
  <1>6. I # {} => Max(I) \in I /\ \A k \in I : Max(I) >= k
    BY <1>3, <1>4, GreatestNumber DEF Max
  <1>7. CASE I = {}
    BY <1>1, <1>2, <1>3, <1>7
  <1>8. CASE I # {}
    <2>1. FirstAt(b, c) \in I /\ \A k \in I : FirstAt(b, c) <= k
      BY <1>1, <1>5, <1>8
    <2>2. LastAt(b, c) \in I /\ \A k \in I : LastAt(b, c) >= k
      BY <1>2, <1>6, <1>8
    <2>3. /\ FirstAt(b, c) \in 1 .. Len(b) /\ b[FirstAt(b, c)] = c
          /\ LastAt(b, c) \in 1 .. Len(b) /\ b[LastAt(b, c)] = c
      BY <1>3, <2>1, <2>2 DEF I
    <2>4. \A k \in 1 .. FirstAt(b, c) - 1 : b[k] # c
      BY <1>3, <2>1, <2>3
    <2>5. \A k \in LastAt(b, c) + 1 .. Len(b) : b[k] # c
      BY <1>3, <2>2, <2>3
    <2> QED BY <2>3, <2>4, <2>5
  <1> QED BY <1>7, <1>8

\* A string is what is before the first byte that ends it.
LEMMA StringIs ==
    ASSUME NEW b \in Seq(Byte), NEW n \in 0 .. Len(b), \A k \in 1 .. n : b[k] # NUL,
           n = Len(b) \/ b[n + 1] = NUL
    PROVE  CString(b) = SubSeq(b, 1, n)
  <1> DEFINE f == FirstAt(b, NUL)
  <1>1. /\ f \in 0 .. Len(b) /\ Len(b) \in Nat
        /\ f = 0 <=> \A k \in 1 .. Len(b) : b[k] # NUL
        /\ f # 0 => b[f] = NUL /\ \A k \in 1 .. f - 1 : b[k] # NUL
    BY Places
  <1>2. CString(b) = IF f = 0 THEN b ELSE SubSeq(b, 1, f - 1)
    BY DEF CString
  <1> HIDE DEF f
  <1>3. CASE n = Len(b)
    <2>1. f = 0 /\ SubSeq(b, 1, Len(b)) = b
      BY <1>1, <1>3
    <2> QED BY <1>2, <1>3, <2>1
  <1>4. CASE n # Len(b)
    <2>1. n + 1 \in 1 .. Len(b) /\ b[n + 1] = NUL
      BY <1>1, <1>4
    <2>2. f # 0
      BY <1>1, <2>1
    <2>3. ~(f - 1 < n)
      <3>1. f - 1 < n => f \in 1 .. n
        BY <1>1, <2>2
      <3> QED BY <1>1, <2>2, <3>1
    <2>4. ~(n < f - 1)
      <3>1. n < f - 1 => n + 1 \in 1 .. f - 1
        BY <1>1, <2>2
      <3> QED BY <1>1, <2>1, <2>2, <3>1
    <2>5. f - 1 = n
      BY <1>1, <2>3, <2>4
    <2> QED BY <1>2, <2>2, <2>5
  <1> QED BY <1>3, <1>4

\* Every sequence begins with a string.
LEMMA HasString ==
    ASSUME NEW b \in Seq(Byte)
    PROVE  \E n \in 0 .. Len(b) : (\A k \in 1 .. n : b[k] # NUL) /\ (n = Len(b) \/ b[n + 1] = NUL)
  <1> DEFINE f == FirstAt(b, NUL)
  <1>1. /\ f \in 0 .. Len(b) /\ Len(b) \in Nat
        /\ f = 0 <=> \A k \in 1 .. Len(b) : b[k] # NUL
        /\ f # 0 => b[f] = NUL /\ \A k \in 1 .. f - 1 : b[k] # NUL
    BY Places
  <1> HIDE DEF f
  <1>2. CASE f = 0
    BY <1>1, <1>2
  <1>3. CASE f # 0
    <2>1. f - 1 \in 0 .. Len(b) /\ (f - 1) + 1 = f
      BY <1>1, <1>3
    <2> QED BY <1>1, <1>3, <2>1
  <1> QED BY <1>2, <1>3

\* A buffer is a sequence.
LEMMA BufferIsSeq ==
    ASSUME NEW b \in [1 .. BufSize -> Byte]
    PROVE  b \in Seq(Byte) /\ Len(b) = BufSize
  OBVIOUS

\* One line, read in one piece over what has no line break, is what
\* run_command makes of it, also if the line has a byte that ends a string.
LEMMA OneLine ==
    ASSUME NEW text \in Seq(Byte), text # <<>>, Len(text) < BufSize, FirstAt(text, NL) = Len(text),
           NEW old \in [1 .. BufSize -> Byte], LastAt(old, NL) = 0, NEW b \in [1 .. BufSize -> Byte],
           \A k \in 1 .. BufSize : b[k] = IF k <= Len(text) THEN text[k] ELSE old[k]
    PROVE  CString(CutLastLine(b)) = run_command(text)
  <1> DEFINE l == Len(text)
             line == SubSeq(text, 1, l - 1)
  <1>1. l \in 1 .. BufSize - 1 /\ l - 1 \in 0 .. BufSize - 2 /\ b \in Seq(Byte) /\ Len(b) = BufSize
    <2>1. l \in Nat /\ l # 0
      OBVIOUS
    <2> QED BY <2>1, BufferIsSeq
  <1>2. text[l] = NL /\ \A k \in 1 .. l - 1 : text[k] # NL
    <2> DEFINE f == FirstAt(text, NL)
    <2>1. f # 0 => text[f] = NL /\ \A k \in 1 .. f - 1 : text[k] # NL
      BY Places
    <2>2. f = l
      OBVIOUS
    <2> HIDE DEF f
    <2> QED BY <1>1, <2>1, <2>2
  <1>3. line \in Seq(Byte) /\ Len(line) = l - 1 /\ \A k \in 1 .. l - 1 : line[k] = text[k]
    BY <1>1
  <1>4. run_command(text) = CString(line)
    <2>1. run_command(text) = CString(SubSeq(line, 1, IF Len(line) < BufSize - 2 THEN Len(line) ELSE BufSize - 2))
      BY <1>1 DEF run_command
    <2>2. (IF Len(line) < BufSize - 2 THEN Len(line) ELSE BufSize - 2) = Len(line)
      BY <1>1, <1>3
    <2>3. SubSeq(line, 1, Len(line)) = line
      BY <1>3
    <2> QED BY <2>1, <2>2, <2>3
  <1> HIDE DEF line
  <1>5. PICK n \in 0 .. l - 1 : (\A k \in 1 .. n : line[k] # NUL) /\ (n = l - 1 \/ line[n + 1] = NUL)
    BY <1>3, HasString
  <1>6. CString(line) = SubSeq(line, 1, n)
    BY <1>3, <1>5, StringIs
  <1>7. \A k \in 1 .. l - 1 : b[k] = line[k]
    BY <1>1, <1>3
  \* The last line break is at l, unless the string ends before it.
  <1>8. CASE n = l - 1
    <2>1. PICK m \in 0 .. BufSize : (\A k \in 1 .. m : b[k] # NUL) /\ (m = BufSize \/ b[m + 1] = NUL)
      BY <1>1, HasString
    <2>2. \A k \in 1 .. l : b[k] # NUL
      BY <1>1, <1>2, <1>5, <1>7, <1>8 DEF NUL, NL
    <2>3. m >= l
      <3>1. m < l => m + 1 \in 1 .. l /\ m # BufSize
        BY <1>1
      <3> QED BY <1>1, <2>1, <2>2, <3>1
    <2> DEFINE str == SubSeq(b, 1, m)
    <2>4. CString(b) = str /\ str \in Seq(Byte) /\ Len(str) = m /\ \A k \in 1 .. m : str[k] = b[k]
      <3>1. str \in Seq(Byte) /\ Len(str) = m /\ \A k \in 1 .. m : str[k] = b[k]
        BY <1>1
      <3>2. CString(b) = str
        BY <1>1, <2>1, StringIs
      <3> QED BY <3>1, <3>2
    <2> HIDE DEF str
    <2>5. \A k \in l + 1 .. BufSize : b[k] # NL
      <3>1. \A k \in 1 .. BufSize : old[k] # NL
        BY BufferIsSeq, Places
      <3> QED BY <1>1, <3>1
    <2>6. LastAt(str, NL) = l
      <3>1. str[l] = NL /\ l \in 1 .. m
        BY <1>1, <1>2, <2>3, <2>4
      <3>2. /\ LastAt(str, NL) \in 1 .. m /\ str[LastAt(str, NL)] = NL
            /\ \A k \in LastAt(str, NL) + 1 .. m : str[k] # NL
        <4>1. \A u \in Seq(Byte) :
                  /\ LastAt(u, NL) \in 0 .. Len(u)
                  /\ LastAt(u, NL) = 0 <=> \A k \in 1 .. Len(u) : u[k] # NL
                  /\ LastAt(u, NL) # 0 => /\ u[LastAt(u, NL)] = NL
                                          /\ \A k \in LastAt(u, NL) + 1 .. Len(u) : u[k] # NL
          BY Places
        <4>2. LastAt(str, NL) \in 0 .. m /\ LastAt(str, NL) # 0
          BY <2>4, <3>1, <4>1
        <4>3. str[LastAt(str, NL)] = NL
          BY <2>4, <4>1, <4>2
        <4>4. \A k \in LastAt(str, NL) + 1 .. m : str[k] # NL
          BY <2>4, <4>1, <4>2
        <4>5. m \in Nat /\ LastAt(str, NL) \in 1 .. m
          BY <4>2
        <4> QED BY <4>3, <4>4, <4>5
      <3>3. ~(LastAt(str, NL) > l)
        <4>1. LastAt(str, NL) > l => LastAt(str, NL) \in l + 1 .. BufSize
          BY <1>1, <3>2
        <4> QED BY <2>4, <2>5, <3>2, <4>1
      <3>4. ~(LastAt(str, NL) < l)
        BY <1>1, <3>1, <3>2
      <3> QED BY <1>1, <3>2, <3>3, <3>4
    <2>7. CutLastLine(b) = [b EXCEPT ![l] = NUL]
      BY <1>1, <2>4, <2>6 DEF CutLastLine
    <2> DEFINE cut == [b EXCEPT ![l] = NUL]
    <2>8. /\ cut \in Seq(Byte) /\ Len(cut) = BufSize /\ cut[l] = NUL
          /\ \A k \in 1 .. l - 1 : cut[k] = line[k]
      <3>1. cut \in [1 .. BufSize -> Byte]
        OBVIOUS
      <3> QED BY <1>1, <1>7, <3>1, BufferIsSeq
    <2> HIDE DEF cut
    <2>9. CString(cut) = SubSeq(cut, 1, l - 1)
      <3>1. l - 1 \in 0 .. Len(cut) /\ (l - 1) + 1 = l /\ \A k \in 1 .. l - 1 : cut[k] # NUL
        BY <1>1, <1>5, <1>8, <2>8
      <3> QED BY <2>8, <3>1, StringIs
    <2>10. SubSeq(cut, 1, l - 1) = SubSeq(line, 1, l - 1)
      BY <1>1, <1>3, <2>8
    <2> QED BY <1>4, <1>6, <1>8, <2>7, <2>9, <2>10 DEF cut
  <1>9. CASE n # l - 1
    <2>1. n \in 0 .. BufSize /\ n + 1 \in 1 .. l - 1
      BY <1>1, <1>5, <1>9
    <2>2. (\A k \in 1 .. n : b[k] # NUL) /\ b[n + 1] = NUL
      <3>1. n < l
        BY <1>1, <2>1
      <3> QED  BY <1>5, <1>7, <2>1, <3>1
    <2>3. CString(b) = SubSeq(b, 1, n)
      BY <1>1, <2>1, <2>2, StringIs
    <2>4. SubSeq(b, 1, n) = SubSeq(line, 1, n)
      BY <1>1, <1>3, <1>7, <2>1
    <2> DEFINE str == SubSeq(b, 1, n)
    <2>5. str \in Seq(Byte) /\ Len(str) = n /\ \A k \in 1 .. n : str[k] # NL
      <3>1. str \in Seq(Byte) /\ Len(str) = n /\ \A k \in 1 .. n : str[k] = b[k]
        BY <1>1, <2>1
      <3> QED BY <1>1, <1>2, <1>3, <1>7, <2>1, <3>1
    <2> HIDE DEF str
    <2>6. LastAt(str, NL) = 0
      BY <2>5, Places
    <2>7. CutLastLine(b) = b
      BY <2>3, <2>6 DEF CutLastLine, str
    <2> QED BY <1>4, <1>6, <2>3, <2>4, <2>7
  <1> QED BY <1>8, <1>9

-----------------------------------------------------------------------------
(* The invariant *)

Buffers == [1 .. BufSize -> Byte]

Types ==
    /\ buf \in Buffers /\ before \in Buffers
    /\ pipe \in Seq(Byte) /\ out \in Seq(Byte) /\ whole \in Seq(Byte)
    /\ Len(pipe) <= PipeSize
    /\ wr \in BOOLEAN /\ rd \in BOOLEAN /\ held \in BOOLEAN
    /\ ints \in 0 .. MaxInts /\ reads \in Nat

\* Which ends are open and which processes there are at each place of the call.
Phases ==
    \/ pc \in {"idle", "spawn", "died"} /\ child = "none" /\ (pc = "idle" => ~wr /\ ~rd)
       /\ (pc = "spawn" => rd) /\ (pc # "idle" => ~held)
    \/ pc = "spawned" /\ child # "none" /\ rd
    \/ pc \in {"reading", "closing"} /\ child # "none" /\ ~wr /\ rd
    \/ pc = "waiting" /\ child # "none" /\ ~wr /\ ~rd
    \/ pc = "cutting" /\ ~wr /\ ~rd

Children ==
    /\ child \in {"none", "running", "closed", "exited"}
    /\ held => child \in {"none", "exited"}

\* n bytes have been read, in one piece, and the others are on their way.
Got(n) ==
    /\ \A k \in 1 .. BufSize : buf[k] = IF k <= n THEN whole[k] ELSE IF k = 1 THEN NUL ELSE before[k]
    /\ n + Len(pipe) + Len(out) = Len(whole)
    /\ \A k \in 1 .. Len(pipe) : pipe[k] = whole[n + k]
    /\ \A k \in 1 .. Len(out) : out[k] = whole[n + Len(pipe) + k]

\* What has become of the output, as long as no signal has ended the reading;
\* nothing of it is left where nobody has the pipe open.
Flow ==
    (pc \notin {"idle", "died"} /\ ints = 0) =>
        /\ reads = 0 => Got(0)
        /\ reads = 1 => \E n \in 1 .. BufSize : Got(n)
        /\ pc \in {"spawned", "reading"} /\ child # "running" /\ ~held => out = <<>>
        /\ pc \in {"closing", "waiting", "cutting"} => pipe = <<>> /\ out = <<>>

\* Something ends the string in buf until an output has filled it.
Inside ==
    /\ ~filled => buf[BufSize] = NUL
    /\ StaysInside

IInv == Types /\ Phases /\ Children /\ Flow /\ Inside /\ SingleLine

LEMMA InitInv == Init => IInv
  <1> SUFFICES ASSUME Init PROVE IInv
    OBVIOUS
  <1>1. buf \in Buffers /\ before \in Buffers
    BY DEF Init, Buffers
  <1>2. Types
    <2>1. <<>> \in Seq(Byte) /\ Len(<<>>) <= PipeSize /\ 0 \in 0 .. MaxInts
      OBVIOUS
    <2> QED BY <1>1, <2>1, Zenon DEF Init, Types
  <1>3. Inside
    BY DEF Init, Inside, StaysInside
  <1> QED BY <1>2, <1>3 DEF Init, IInv, Phases, Children, Flow, SingleLine

\* A step that leaves the data alone, and only frees who has the pipe open once
\* everything is printed.
LEMMA Quiet ==
    ASSUME IInv, UNCHANGED <<buf, pipe, out, ints, result, ghosts>>,
           Phases', Children', wr' \in BOOLEAN, rd' \in BOOLEAN, held' \in BOOLEAN,
           pc' \notin {"idle", "died"} => pc \notin {"idle", "died"},
           pc' = "idle" => pc = "idle",
           (pc' \in {"spawned", "reading"} /\ child' # "running" /\ ~held' /\ ints = 0) =>
               out = <<>>,
           (pc' \in {"closing", "waiting", "cutting"} /\ ints = 0) => pipe = <<>> /\ out = <<>>
    PROVE  IInv'
  <1>1. Types'
    BY DEF IInv, Types, ghosts
  <1>2. Flow'
    <2>1. \A n : Got(n)' <=> Got(n)
      BY DEF Got, ghosts
    <2>2. SUFFICES ASSUME pc' \notin {"idle", "died"}, ints = 0
          PROVE  /\ reads = 0 => Got(0)'
                 /\ reads = 1 => \E n \in 1 .. BufSize : Got(n)'
                 /\ pc' \in {"spawned", "reading"} /\ child' # "running" /\ ~held' => out = <<>>
                 /\ pc' \in {"closing", "waiting", "cutting"} => pipe = <<>> /\ out = <<>>
      BY DEF Flow, ghosts
    <2> QED BY <2>1, <2>2 DEF IInv, Flow
  <1>3. SingleLine'
    BY DEF IInv, SingleLine, ghosts
  <1>4. Inside'
    BY DEF IInv, Inside, StaysInside, ghosts
  <1> QED BY <1>1, <1>2, <1>3, <1>4 DEF IInv

LEMMA CallInv ==
    ASSUME IInv, Call
    PROVE  IInv'
  <1>1. /\ Types /\ Phases /\ Children
        /\ pc = "idle" /\ pc' = "spawn" /\ buf' = [buf EXCEPT ![1] = NUL] /\ pipe' = <<>>
        /\ wr' /\ wr' = TRUE /\ rd' = TRUE /\ out' \in Outputs /\ whole' = out'
        /\ ints' = 0 /\ reads' = 0 /\ before' = buf /\ held' = FALSE /\ UNCHANGED child
    BY DEF IInv, Call, Goto
  <1>2. buf' \in Buffers /\ before' \in Buffers
    BY <1>1 DEF Types, Buffers
  <1>3. Types'
    <2>1. <<>> \in Seq(Byte) /\ Len(<<>>) <= PipeSize /\ 0 \in 0 .. MaxInts /\ out' \in Seq(Byte)
      BY <1>1
    <2> QED BY <1>1, <1>2, <2>1, Zenon DEF Types
  <1>4. Phases' /\ Children'
    BY <1>1 DEF Phases, Children
  <1>5. Got(0)'
    <2>1. \A k \in 1 .. BufSize : buf'[k] = IF k = 1 THEN NUL ELSE buf[k]
      BY <1>1 DEF Types, Buffers
    <2>2. whole' \in Seq(Byte) /\ Len(pipe') = 0
      BY <1>1
    <2> QED BY <1>1, <2>1, <2>2 DEF Got
  <1>6. Inside'
    <2>1. Inside /\ UNCHANGED <<filled, overrun>> /\ BufSize \in 1 .. BufSize
      BY DEF IInv, Call
    <2> QED BY <1>1, <2>1 DEF Inside, StaysInside, Types, Buffers
  <1> QED BY <1>1, <1>3, <1>4, <1>5, <1>6 DEF IInv, Flow, SingleLine

\* The first read gets the beginning of the output.
LEMMA ReadInv ==
    ASSUME IInv, Read
    PROVE  IInv'
  <1>0. PICK n : n = IF Len(pipe) < BufSize THEN Len(pipe) ELSE BufSize
    OBVIOUS
  <1>1. /\ Types /\ Phases /\ Children /\ Flow
        /\ pc = "reading" /\ pipe # <<>>
        /\ buf' = [k \in 1 .. BufSize |-> IF k <= n THEN pipe[k] ELSE buf[k]]
        /\ pipe' = SubSeq(pipe, n + 1, Len(pipe)) /\ reads' = reads + 1
        /\ UNCHANGED <<pc, wr, rd, out, child, held, ints, result, whole, before>>
    BY <1>0 DEF IInv, Read
  <1>2. pipe \in Seq(Byte) /\ Len(pipe) \in Nat \ {0} /\ Len(out) \in Nat /\ Len(whole) \in Nat /\ reads \in Nat
    BY <1>1 DEF Types
  <1>3. n \in 1 .. BufSize /\ n \in 1 .. Len(pipe)
    BY <1>0, <1>2
  <1>4. buf' \in Buffers
    <2>1. \A k \in 1 .. BufSize : buf[k] \in Byte /\ (k <= n => pipe[k] \in Byte)
      BY <1>1, <1>2, <1>3 DEF Types, Buffers
    <2> QED BY <1>1, <2>1 DEF Buffers
  <1>5. /\ pipe' \in Seq(Byte) /\ Len(pipe') = Len(pipe) - n
        /\ \A k \in 1 .. Len(pipe') : pipe'[k] = pipe[n + k]
    BY <1>1, <1>2, <1>3
  <1>6. Types'
    BY <1>1, <1>2, <1>3, <1>4, <1>5 DEF Types
  <1>7. Phases' /\ Children'
    BY <1>1 DEF Phases, Children
  <1>8. Flow'
    <2>1. SUFFICES ASSUME ints = 0
          PROVE  /\ reads' # 0 /\ (reads' = 1 => Got(n)')
                 /\ (child # "running" /\ ~held) => out = <<>>
      <3>1. pc' = "reading" /\ ints' = ints /\ out' = out /\ child' = child /\ held' = held
        BY <1>1
      <3> QED BY <1>3, <3>1 DEF Flow
    <2>2. reads' # 0 /\ (child # "running" /\ ~held => out = <<>>)
      BY <1>1, <1>2, <2>1 DEF Flow
    <2>3. ASSUME reads' = 1 PROVE Got(n)'
      <3>1. Got(0)
        BY <1>1, <1>2, <2>1, <2>3 DEF Flow
      <3>2. /\ Len(pipe) + Len(out) = Len(whole)
            /\ \A k \in 1 .. Len(pipe) : pipe[k] = whole[k]
            /\ \A k \in 1 .. Len(out) : out[k] = whole[Len(pipe) + k]
            /\ \A k \in 1 .. BufSize : k # 1 => buf[k] = before[k]
        BY <1>2, <3>1 DEF Got
      <3>3. \A k \in 1 .. BufSize :
                buf'[k] = IF k <= n THEN whole[k] ELSE IF k = 1 THEN NUL ELSE before[k]
        <4> TAKE k \in 1 .. BufSize
        <4>1. buf'[k] = IF k <= n THEN pipe[k] ELSE buf[k]
          BY <1>1
        <4>2. k <= n => k \in 1 .. Len(pipe)
          BY <1>2, <1>3
        <4>3. ~(k <= n) => k # 1
          BY <1>3
        <4> QED BY <3>2, <4>1, <4>2, <4>3
      <3>4. n + Len(pipe') + Len(out) = Len(whole) /\ n + Len(pipe') = Len(pipe)
        BY <1>2, <1>3, <1>5, <3>2
      <3>5. \A k \in 1 .. Len(pipe') : pipe'[k] = whole[n + k]
        <4> TAKE k \in 1 .. Len(pipe')
        <4>1. n + k \in 1 .. Len(pipe)
          BY <1>2, <1>3, <1>5
        <4> QED BY <1>5, <3>2, <4>1
      <3>6. \A k \in 1 .. Len(out') : out'[k] = whole'[n + Len(pipe') + k]
        BY <1>1, <3>2, <3>4
      <3>7. n + Len(pipe') + Len(out') = Len(whole')
        BY <1>1, <3>4
      <3> QED BY <1>1, <3>3, <3>5, <3>6, <3>7 DEF Got
    <2> QED BY <2>2, <2>3
  <1>9. SingleLine'
    BY <1>1 DEF SingleLine
  <1>10. Inside'
    <2>1. Inside /\ filled' = (filled \/ n = BufSize) /\ UNCHANGED overrun
      BY <1>0 DEF IInv, Read
    <2>2. n # BufSize => buf'[BufSize] = buf[BufSize]
      BY <1>1, <1>3
    <2> QED BY <2>1, <2>2 DEF Inside, StaysInside
  <1> QED BY <1>6, <1>7, <1>8, <1>9, <1>10 DEF IInv

\* The beginning of a sequence at the end of another, and what is left of it.
LEMMA Moved ==
    ASSUME NEW p \in Seq(Byte), NEW o \in Seq(Byte), NEW n \in 1 .. Len(o)
    PROVE  /\ p \o SubSeq(o, 1, n) \in Seq(Byte) /\ Len(p \o SubSeq(o, 1, n)) = Len(p) + n
           /\ \A k \in 1 .. Len(p) : (p \o SubSeq(o, 1, n))[k] = p[k]
           /\ \A k \in Len(p) + 1 .. Len(p) + n : (p \o SubSeq(o, 1, n))[k] = o[k - Len(p)]
  <1> DEFINE u == SubSeq(o, 1, n)
  <1>1. u \in Seq(Byte) /\ Len(u) = n /\ \A k \in 1 .. n : u[k] = o[k]
    OBVIOUS
  <1> HIDE DEF u
  <1>2. /\ p \o u \in Seq(Byte) /\ Len(p \o u) = Len(p) + n
        /\ \A k \in 1 .. Len(p) + n : (p \o u)[k] = IF k <= Len(p) THEN p[k] ELSE u[k - Len(p)]
    BY <1>1, ConcatProperties
  <1>3. Len(p) \in Nat /\ n \in Nat
    OBVIOUS
  <1>4. \A k \in 1 .. Len(p) : (p \o u)[k] = p[k]
    BY <1>2, <1>3
  <1>5. \A k \in Len(p) + 1 .. Len(p) + n : (p \o u)[k] = o[k - Len(p)]
    <2> TAKE k \in Len(p) + 1 .. Len(p) + n
    <2>1. k \in 1 .. Len(p) + n /\ ~(k <= Len(p)) /\ k - Len(p) \in 1 .. n
      BY <1>3
    <2> QED BY <1>1, <1>2, <2>1
  <1> QED BY <1>2, <1>4, <1>5 DEF u

LEMMA Left ==
    ASSUME NEW o \in Seq(Byte), NEW n \in 1 .. Len(o)
    PROVE  LET rest == SubSeq(o, n + 1, Len(o))
           IN  /\ rest \in Seq(Byte) /\ Len(rest) = Len(o) - n
               /\ \A k \in 1 .. Len(rest) : rest[k] = o[n + k]
  OBVIOUS

\* What is written moves from the command to the pipe.
LEMMA OutputInv ==
    ASSUME IInv, Output
    PROVE  IInv'
  <1>1. PICK n \in 1 .. Len(out) :
            /\ Len(pipe) + n <= PipeSize /\ pipe' = pipe \o SubSeq(out, 1, n)
            /\ out' = SubSeq(out, n + 1, Len(out))
    BY DEF Output
  <1>2. /\ Types /\ Phases /\ Children /\ Flow /\ (child = "running" \/ held) /\ rd
        /\ UNCHANGED <<pc, buf, wr, rd, child, held, ints, result, whole, reads, before>>
    BY DEF IInv, Output, ghosts
  <1>3. /\ pipe \in Seq(Byte) /\ out \in Seq(Byte) /\ Len(pipe) \in Nat /\ Len(out) \in Nat /\ n \in Nat
        /\ whole \in Seq(Byte) /\ Len(whole) \in Nat
    BY <1>2 DEF Types
  <1>4. /\ pipe' \in Seq(Byte) /\ Len(pipe') = Len(pipe) + n
        /\ \A k \in 1 .. Len(pipe) : pipe'[k] = pipe[k]
        /\ \A k \in Len(pipe) + 1 .. Len(pipe) + n : pipe'[k] = out[k - Len(pipe)]
    BY <1>1, <1>3, Moved
  <1>5. /\ out' \in Seq(Byte) /\ Len(out') = Len(out) - n
        /\ \A k \in 1 .. Len(out') : out'[k] = out[n + k]
    BY <1>1, <1>3, Left
  <1>6. Types'
    BY <1>1, <1>2, <1>4, <1>5 DEF Types
  <1>7. Phases' /\ Children'
    BY <1>2 DEF Phases, Children
  <1>8. ASSUME NEW m \in 0 .. BufSize, Got(m) PROVE Got(m)'
    <2>1. /\ m + Len(pipe) + Len(out) = Len(whole)
          /\ \A k \in 1 .. Len(pipe) : pipe[k] = whole[m + k]
          /\ \A k \in 1 .. Len(out) : out[k] = whole[m + Len(pipe) + k]
      BY <1>8 DEF Got
    <2>2. m + Len(pipe') + Len(out') = Len(whole)
      <3>1. Len(pipe') = Len(pipe) + n /\ Len(out') = Len(out) - n
        BY <1>4, <1>5
      <3>2. m + (Len(pipe) + n) + (Len(out) - n) = m + Len(pipe) + Len(out)
        BY <1>3
      <3> QED BY <2>1, <3>1, <3>2
    <2>3. \A k \in 1 .. Len(pipe') : pipe'[k] = whole[m + k]
      <3> TAKE k \in 1 .. Len(pipe')
      <3>1. CASE k <= Len(pipe)
        BY <1>3, <1>4, <2>1, <3>1
      <3>2. CASE k > Len(pipe)
        <4>1. k - Len(pipe) \in 1 .. Len(out) /\ m + Len(pipe) + (k - Len(pipe)) = m + k
          BY <1>3, <1>4, <3>2
        <4>2. pipe'[k] = out[k - Len(pipe)]
          <5>1. k \in Len(pipe) + 1 .. Len(pipe) + n
            BY <1>3, <1>4, <3>2
          <5> QED BY <1>4, <5>1
        <4> QED BY <2>1, <4>1, <4>2
      <3> QED BY <1>3, <1>4, <3>1, <3>2
    <2>4. \A k \in 1 .. Len(out') : out'[k] = whole[m + Len(pipe') + k]
      <3> TAKE k \in 1 .. Len(out')
      <3>1. n + k \in 1 .. Len(out) /\ m + Len(pipe) + (n + k) = m + Len(pipe') + k
        BY <1>3, <1>4, <1>5
      <3> QED BY <1>5, <2>1, <3>1
    <2> QED BY <1>2, <1>8, <2>2, <2>3, <2>4 DEF Got
  <1>9. out # <<>>
    BY <1>3
  <1>10. Flow'
    BY <1>2, <1>8, <1>9 DEF Flow
  <1>11. SingleLine'
    <2>1. pc # "idle"
      BY <1>2 DEF Phases
    <2> QED BY <1>2, <2>1 DEF SingleLine
  <1>12. Inside'
    BY DEF IInv, Output, Inside, StaysInside, ghosts
  <1> QED BY <1>6, <1>7, <1>10, <1>11, <1>12 DEF IInv

\* Where the line break is replaced, or is not there, the rest stays.
LEMMA Cut ==
    ASSUME NEW b \in Seq(Byte)
    PROVE  /\ CutLastLine(b) \in Seq(Byte) /\ Len(CutLastLine(b)) = Len(b)
           /\ \A k \in 1 .. Len(b) : CutLastLine(b)[k] \in {b[k], NUL}
  <1> DEFINE nl == LastAt(CString(b), NL)
             cut == [b EXCEPT ![nl] = NUL]
  <1>1. b \in [1 .. Len(b) -> Byte] /\ Len(b) \in Nat
    OBVIOUS
  <1>2. cut \in [1 .. Len(b) -> Byte] /\ \A k \in 1 .. Len(b) : cut[k] \in {b[k], NUL}
    BY <1>1
  <1>3. cut \in Seq(Byte) /\ Len(cut) = Len(b)
    BY <1>1, <1>2
  <1>4. CutLastLine(b) = b \/ CutLastLine(b) = cut
    BY DEF CutLastLine
  <1> HIDE DEF cut
  <1> QED BY <1>2, <1>3, <1>4

\* Return in a buf in which something ends the string, and in one that is full.
LEMMA ReturnCases ==
    ASSUME Types, Inside, Return
    PROVE  /\ buf' \in Buffers /\ Inside'
           /\ FirstAt(buf, NUL) # 0 => result' = CString(CutLastLine(buf))
  <1>1. PICK behind \in IF FirstAt(buf, NUL) = 0 THEN Behind ELSE {<<>>} :
            /\ buf' = SubSeq(CutLastLine(buf \o behind), 1, BufSize)
            /\ result' = CString(CutLastLine(buf \o behind))
            /\ overrun' = (overrun \/ SubSeq(CutLastLine(buf \o behind), BufSize + 1,
                                             Len(CutLastLine(buf \o behind))) # behind)
    BY DEF Return
  <1>2. buf \in Seq(Byte) /\ Len(buf) = BufSize /\ UNCHANGED filled
    BY BufferIsSeq DEF Types, Buffers, Return
  <1>3. behind \in Seq(Byte) /\ Len(behind) \in Nat
    <2>1. behind \in Seq(Byte \ {NUL})
      <3>1. behind \in Behind \/ behind = <<>>
        BY <1>1, Zenon
      <3>2. <<>> \in Seq(Byte \ {NUL})
        OBVIOUS
      <3>3. behind \in Behind => behind \in Seq(Byte \ {NUL})
        BY Zenon
      <3> QED BY <3>1, <3>2, <3>3
    <2>2. Len(behind) \in Nat /\ \A k \in 1 .. Len(behind) : behind[k] \in Byte
      BY <2>1
    <2>3. behind = [k \in 1 .. Len(behind) |-> behind[k]]
      BY <2>1
    <2> QED BY <2>2, <2>3
  <1> DEFINE b == buf \o behind
             memory == CutLastLine(b)
  <1>4. /\ b \in Seq(Byte) /\ Len(b) = BufSize + Len(behind)
        /\ \A k \in 1 .. BufSize : b[k] = buf[k]
    <2>1. /\ b \in Seq(Byte) /\ Len(b) = Len(buf) + Len(behind)
          /\ \A k \in 1 .. Len(buf) + Len(behind) :
                b[k] = IF k <= Len(buf) THEN buf[k] ELSE behind[k - Len(buf)]
      BY <1>2, <1>3, ConcatProperties
    <2> QED BY <1>2, <1>3, <2>1
  <1>5. behind = <<>> => b = buf
    BY <1>2, ConcatEmptySeq
  <1> HIDE DEF b
  <1>6. /\ memory \in Seq(Byte) /\ Len(memory) = BufSize + Len(behind)
        /\ \A k \in 1 .. BufSize : memory[k] \in {buf[k], NUL}
    <2>1. /\ memory \in Seq(Byte) /\ Len(memory) = Len(b)
          /\ \A k \in 1 .. Len(b) : memory[k] \in {b[k], NUL}
      BY <1>4, Cut
    <2> QED BY <1>3, <1>4, <2>1
  <1>7. /\ buf' = SubSeq(memory, 1, BufSize) /\ result' = CString(memory)
        /\ overrun' = (overrun \/ SubSeq(memory, BufSize + 1, Len(memory)) # behind)
    BY <1>1 DEF b
  <1> HIDE DEF memory
  <1>8. buf' \in Buffers /\ \A k \in 1 .. BufSize : buf'[k] \in {buf[k], NUL}
    <2>1. buf' \in Seq(Byte) /\ Len(buf') = BufSize /\ \A k \in 1 .. BufSize : buf'[k] = memory[k]
      BY <1>3, <1>6, <1>7
    <2>2. buf' \in Buffers
      BY <2>1 DEF Buffers
    <2> QED BY <1>6, <2>1, <2>2
  <1>9. CASE FirstAt(buf, NUL) # 0
    <2>1. behind = <<>> /\ b = buf /\ memory = CutLastLine(buf)
      BY <1>1, <1>5, <1>9 DEF memory
    <2>2. SubSeq(memory, BufSize + 1, Len(memory)) = behind
      <3>1. Len(memory) = BufSize
        BY <1>6, <2>1
      <3> QED BY <1>6, <2>1, <3>1
    <2>3. overrun' <=> overrun
      BY <1>7, <2>2
    <2>4. buf[BufSize] = NUL => buf'[BufSize] = NUL
      <3>1. BufSize \in 1 .. BufSize
        OBVIOUS
      <3> QED BY <1>8, <3>1
    <2>5. Inside'
      BY <1>2, <2>3, <2>4 DEF Inside, StaysInside
    <2> QED BY <1>7, <1>8, <2>1, <2>5
  <1>10. CASE FirstAt(buf, NUL) = 0
    <2>1. buf[BufSize] # NUL
      <3>1. BufSize \in 1 .. Len(buf)
        BY <1>2
      <3> QED BY <1>2, <1>10, <3>1, Places
    <2>2. filled'
      BY <1>2, <2>1 DEF Inside
    <2> QED BY <1>8, <1>10, <2>2 DEF Inside, StaysInside
  <1> QED BY <1>9, <1>10

\* After a single read that no signal ended, buf holds the output, and behind it
\* what the calls before left.
LEMMA ReturnInv ==
    ASSUME IInv, Return
    PROVE  IInv'
  <1>1. /\ Types /\ Phases /\ Children /\ Flow /\ Inside
        /\ pc = "cutting" /\ pc' = "idle"
        /\ child' = "none" /\ UNCHANGED <<pipe, wr, rd, out, held, ints, whole, reads, before>>
    BY DEF IInv, Return, Goto
  <1>2. buf \in Buffers /\ before \in Buffers /\ whole \in Seq(Byte) /\ Len(whole) \in Nat
    BY <1>1 DEF Types
  <1>3. /\ buf' \in Buffers /\ Inside'
        /\ FirstAt(buf, NUL) # 0 => result' = CString(CutLastLine(buf))
    BY <1>1, ReturnCases
  <1>4. Types' /\ Phases' /\ Children' /\ Flow'
    BY <1>1, <1>3 DEF Types, Phases, Children, Flow
  <1>5. SingleLine'
    <2>1. SUFFICES ASSUME reads = 1, ints = 0, LastAt(before, NL) = 0, LastAt(before, NUL) > Len(whole),
                          FirstAt(whole, NL) = Len(whole), whole # <<>>
                   PROVE  result' = run_command(whole)
      BY <1>1 DEF SingleLine
    <2>2. PICK n \in 1 .. BufSize : Got(n) /\ pipe = <<>> /\ out = <<>>
      BY <1>1, <2>1 DEF Flow
    <2>3. n = Len(whole)
      BY <1>2, <2>2 DEF Got
    <2>4. \A k \in 1 .. BufSize : buf[k] = IF k <= Len(whole) THEN whole[k] ELSE before[k]
      BY <2>2, <2>3 DEF Got
    <2> DEFINE z == LastAt(before, NUL)
    <2>5. z \in 1 .. BufSize /\ before[z] = NUL
      <3>1. before \in Seq(Byte) /\ Len(before) = BufSize
        BY <1>2, BufferIsSeq DEF Buffers
      <3>2. z \in 0 .. Len(before) /\ (z # 0 => before[z] = NUL)
        BY <3>1, Places
      <3> QED BY <1>2, <2>1, <3>1, <3>2
    <2>6. z > Len(whole)
      BY <2>1
    <2> HIDE DEF z
    <2>7. Len(whole) < BufSize /\ buf[z] = NUL
      BY <1>2, <2>4, <2>5, <2>6
    <2>8. FirstAt(buf, NUL) # 0
      <3>1. buf \in Seq(Byte) /\ Len(buf) = BufSize
        BY <1>2, BufferIsSeq DEF Buffers
      <3>2. FirstAt(buf, NUL) = 0 => \A k \in 1 .. Len(buf) : buf[k] # NUL
        BY <3>1, Places
      <3> QED BY <2>5, <2>7, <3>1, <3>2
    <2> QED BY <1>2, <1>3, <2>1, <2>4, <2>7, <2>8, OneLine DEF Buffers
  <1> QED BY <1>3, <1>4, <1>5 DEF IInv

LEMMA NextInv == IInv /\ [Next]_vars => IInv'
  <1> SUFFICES ASSUME IInv, [Next]_vars PROVE IInv'
    OBVIOUS
  <1>1. Types /\ Phases /\ Children /\ Flow
    BY DEF IInv
  <1>t. wr \in BOOLEAN /\ rd \in BOOLEAN /\ held \in BOOLEAN
    BY <1>1 DEF Types
  <1> USE DEF Goto
  <1>2. CASE Call
    BY <1>2, CallInv
  <1>3. CASE SpawnFails
    <2>1. Phases' /\ Children'
      BY <1>1, <1>3 DEF SpawnFails, Phases, Children
    <2> QED BY <1>t, <1>3, <2>1, Quiet DEF SpawnFails
  <1>4. CASE Spawn
    <2>1. Phases' /\ Children'
      BY <1>1, <1>4 DEF Spawn, Phases, Children
    <2> QED BY <1>t, <1>4, <2>1, Quiet DEF Spawn
  <1>5. CASE CloseWrite
    <2>1. Phases' /\ Children'
      BY <1>1, <1>5 DEF CloseWrite, Phases, Children
    <2>2. (child # "running" /\ ~held /\ ints = 0) => out = <<>>
      BY <1>1, <1>5 DEF CloseWrite, Flow
    <2> QED BY <1>t, <1>5, <2>1, <2>2, Quiet DEF CloseWrite
  <1>6. CASE Read
    BY <1>6, ReadInv
  <1>7. CASE EndOfFile
    <2>1. Phases' /\ Children'
      BY <1>1, <1>7 DEF EndOfFile, Phases, Children
    <2>2. ints = 0 => pipe = <<>> /\ out = <<>>
      BY <1>1, <1>7 DEF EndOfFile, Flow
    <2> QED BY <1>t, <1>7, <2>1, <2>2, Quiet DEF EndOfFile
  <1>8. CASE CloseRead
    <2>1. Phases' /\ Children'
      BY <1>1, <1>8 DEF CloseRead, Phases, Children
    <2>2. ints = 0 => pipe = <<>> /\ out = <<>>
      BY <1>1, <1>8 DEF CloseRead, Flow
    <2> QED BY <1>t, <1>8, <2>1, <2>2, Quiet DEF CloseRead
  <1>9. CASE WaitPid
    <2>1. Phases' /\ Children'
      BY <1>1, <1>9 DEF WaitPid, Phases, Children
    <2>2. ints = 0 => pipe = <<>> /\ out = <<>>
      BY <1>1, <1>9 DEF WaitPid, Flow
    <2> QED BY <1>t, <1>9, <2>1, <2>2, Quiet DEF WaitPid
  <1>10. CASE Return
    BY <1>10, ReturnInv
  <1>11. CASE Interrupted
    <2>1. Phases' /\ Children'
      BY <1>1, <1>11 DEF Interrupted, Phases, Children
    <2>2. ints' \in 0 .. MaxInts /\ ints' # 0
      BY <1>1, <1>11 DEF Interrupted, Types
    <2>3. Types'
      BY <1>1, <1>11, <2>2 DEF Interrupted, Types, ghosts
    <2>4. Inside'
      BY <1>11 DEF Interrupted, IInv, Inside, StaysInside, ghosts
    <2> QED BY <1>11, <2>1, <2>2, <2>3, <2>4 DEF Interrupted, IInv, Flow, SingleLine
  <1>12. CASE Output
    BY <1>12, OutputInv
  <1>13. CASE BrokenPipe
    <2>1. ~rd /\ out # <<>> /\ pc \notin {"spawned", "reading"}
      BY <1>1, <1>13 DEF BrokenPipe, Phases
    <2>2. Phases' /\ Children'
      BY <1>1, <1>13 DEF BrokenPipe, Phases, Children
    <2>3. held' \in BOOLEAN
      BY <1>t, <1>13 DEF BrokenPipe
    <2>4. (pc \in {"closing", "waiting", "cutting"} /\ ints = 0) => pipe = <<>> /\ out = <<>>
      BY <1>1 DEF Flow
    <2> QED BY <1>t, <1>13, <2>1, <2>2, <2>3, <2>4, Quiet DEF BrokenPipe
  <1>14. CASE LeaveBehind \/ ClosePipe \/ Exit
    <2>1. Phases' /\ Children'
      BY <1>1, <1>14 DEF LeaveBehind, ClosePipe, Exit, Phases, Children
    <2>2. held' \in BOOLEAN /\ UNCHANGED <<pc, buf, pipe, wr, rd, out, ints, result, ghosts>>
      BY <1>t, <1>14 DEF LeaveBehind, ClosePipe, Exit
    <2>3. (pc \in {"closing", "waiting", "cutting"} /\ ints = 0) => pipe = <<>> /\ out = <<>>
      BY <1>1 DEF Flow
    <2>4. (pc \in {"spawned", "reading"} /\ child' # "running" /\ ~held' /\ ints = 0) => out = <<>>
      BY <1>1, <1>14 DEF LeaveBehind, ClosePipe, Exit, Flow, Children
    <2> QED BY <1>t, <2>1, <2>2, <2>3, <2>4, Quiet
  <1>15. CASE BackgroundEnds
    <2>1. Phases' /\ Children'
      BY <1>1, <1>15 DEF BackgroundEnds, Phases, Children
    <2>2. (pc \in {"closing", "waiting", "cutting"} /\ ints = 0) => pipe = <<>> /\ out = <<>>
      BY <1>1 DEF Flow
    <2> QED BY <1>t, <1>15, <2>1, <2>2, Quiet DEF BackgroundEnds
  <1>16. CASE UNCHANGED vars
    <2>1. Phases' /\ Children'
      BY <1>1, <1>16 DEF vars, Phases, Children
    <2>2. (pc \in {"closing", "waiting", "cutting"} /\ ints = 0) => pipe = <<>> /\ out = <<>>
      BY <1>1 DEF Flow
    <2>3. (pc \in {"spawned", "reading"} /\ child # "running" /\ ~held /\ ints = 0) => out = <<>>
      BY <1>1 DEF Flow
    <2> QED BY <1>t, <1>16, <2>1, <2>2, <2>3, Quiet DEF vars, ghosts
  <1> QED BY <1>2, <1>3, <1>4, <1>5, <1>6, <1>7, <1>8, <1>9, <1>10, <1>11, <1>12, <1>13, <1>14,
             <1>15, <1>16 DEF Next, Parent, Command

LEMMA Invariance == Spec => []IInv
  BY InitInv, NextInv, PTL DEF Spec

-----------------------------------------------------------------------------
(* The theorems *)

\* Types, and which ends of the pipe are open while the call waits for what:
\* the write end is closed before the first read, the read end before waitpid
\* (run_exec.c:56, 61).
THEOREM RunExecTypes == Spec => []TypeOK
  <1>1. IInv => TypeOK
    <2> SUFFICES ASSUME IInv PROVE TypeOK
      OBVIOUS
    <2>1. Types /\ Phases /\ Children
      BY DEF IInv
    <2>2. Len(buf) = BufSize /\ Len(pipe) <= PipeSize /\ ints \in 0 .. MaxInts
      BY <2>1, BufferIsSeq DEF Types, Buffers
    <2> QED BY <2>1, <2>2 DEF Phases, Children, TypeOK
  <1> QED BY <1>1, Invariance, PTL

\* One line that one read returns is shown as run_command would show it, with
\* what the calls before have left in buf behind it, if that ends the string
\* (run_exec.c:58-70, run_command.c:19-30).
THEOREM LineShown == Spec => []SingleLine
  <1>1. IInv => SingleLine
    BY DEF IInv
  <1> QED BY <1>1, Invariance, PTL

\* No call writes behind buf as long as no output has filled it: without that
\* its last byte is the zero it was at the start (run_exec.c:59, 69-70).
THEOREM CutsInside == Spec => []StaysInside
  <1>1. IInv => StaysInside
    BY DEF IInv, Inside
  <1> QED BY <1>1, Invariance, PTL

\* A call of run_exec is what the main loop takes it for.
LEMMA NextAsSeen == IInv /\ [Next]_vars => [AsSeen!Next]_(AsSeen!vars)
  <1> SUFFICES ASSUME IInv, [Next]_vars PROVE [AsSeen!Next]_(AsSeen!vars)
    OBVIOUS
  <1>1. Phases /\ Children /\ ints \in Nat
    BY DEF IInv, Types
  <1> USE DEF Goto, AsSeen!vars
  <1>2. CASE Call
    <2>1. AsSeen!Recount
      BY <1>1, <1>2 DEF Call, Phases, AsSeen!Recount
    <2> QED BY <2>1 DEF AsSeen!Next
  <1>3. CASE SpawnFails
    <2>1. AsSeen!SpawnFails
      BY <1>1, <1>3 DEF SpawnFails, Phases, AsSeen!SpawnFails
    <2> QED BY <2>1 DEF AsSeen!Next
  <1>4. CASE Spawn
    <2>1. AsSeen!Spawn
      BY <1>1, <1>4 DEF Spawn, Phases, AsSeen!Spawn
    <2> QED BY <2>1 DEF AsSeen!Next
  <1>5. CASE EndOfFile
    <2>1. AsSeen!ReadToEnd
      BY <1>1, <1>5 DEF EndOfFile, Phases, AsSeen!ReadToEnd
    <2> QED BY <2>1 DEF AsSeen!Next
  <1>6. CASE WaitPid
    <2>1. AsSeen!Reap
      BY <1>1, <1>6 DEF WaitPid, Phases, AsSeen!Reap
    <2> QED BY <2>1 DEF AsSeen!Next
  <1>7. CASE Interrupted
    <2>1. CASE pc = "reading"
      <3>1. AsSeen!ReadToEnd
        BY <1>1, <1>7, <2>1 DEF Interrupted, Phases, AsSeen!ReadToEnd
      <3> QED BY <3>1 DEF AsSeen!Next
    <2>2. CASE pc = "waiting"
      <3>1. AsSeen!Abandon
        BY <1>1, <1>7, <2>2 DEF Interrupted, Phases, AsSeen!Abandon
      <3> QED BY <3>1 DEF AsSeen!Next
    <2> QED BY <1>7, <2>1, <2>2 DEF Interrupted
  \* The child ends, and the loop sees it if the call still waits for it.
  <1>8. ASSUME child \in {"running", "closed"}, child' = "exited", UNCHANGED <<pc, ints>>
        PROVE  [AsSeen!Next]_(AsSeen!vars)
    <2>1. CASE pc = "cutting"
      BY <1>8, <2>1
    <2>2. CASE pc # "cutting"
      <3>1. AsSeen!Exit
        BY <1>1, <1>8, <2>2 DEF Phases, AsSeen!Exit
      <3> QED BY <3>1 DEF AsSeen!Next
    <2> QED BY <2>1, <2>2
  <1>9. CASE CloseWrite \/ Read \/ CloseRead \/ Return \/ Output \/ ClosePipe \/ BackgroundEnds
    <2>1. CASE ClosePipe
      BY <1>1, <2>1 DEF ClosePipe, Phases
    <2>2. CASE Return
      BY <1>1, <2>2 DEF Return, Phases
    <2>3. CASE CloseWrite \/ Read \/ CloseRead \/ Output \/ BackgroundEnds
      BY <1>1, <2>3 DEF CloseWrite, Read, CloseRead, Output, BackgroundEnds, Phases
    <2> QED BY <1>9, <2>1, <2>2, <2>3
  <1>10. CASE BrokenPipe \/ LeaveBehind \/ Exit
    <2>1. CASE UNCHANGED child
      BY <1>10, <2>1 DEF BrokenPipe, LeaveBehind, Exit
    <2>2. CASE child' # child
      BY <1>8, <1>10, <2>2 DEF BrokenPipe, LeaveBehind, Exit
    <2> QED BY <2>1, <2>2
  <1>11. CASE UNCHANGED vars
    BY <1>11 DEF vars
  <1> QED BY <1>2, <1>3, <1>4, <1>5, <1>6, <1>7, <1>9, <1>10, <1>11 DEF Next, Parent, Command

\* To the main loop run_exec is what CommandCall says: the child it starts is
\* waited for unless a signal ends the waiting (run_exec.c:53-64).
THEOREM ServesTheLoop == Spec => ImplementsCall
  <1>1. Init => AsSeen!Init
    BY DEF Init, AsSeen!Init
  <1>2. IInv /\ [Next]_vars => [AsSeen!Next]_(AsSeen!vars)
    BY NextAsSeen
  <1> QED BY <1>1, <1>2, Invariance, PTL DEF Spec, AsSeen!Spec, ImplementsCall
=============================================================================
