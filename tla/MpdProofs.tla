------------------------------ MODULE MpdProofs ------------------------------
(* First scroll_text by itself: for every text, separator, width and index,  *)
(* also a negative one, its copying loop yields the window of ScrollText.    *)
(* Then mpdonair, which calls it: what the reader sees from one call to the  *)
(* next.                                                                     *)
EXTENDS Mpd, TLAPS, FiniteSetTheorems, NaturalsInduction

\* Quotient and remainder by a positive number.
LEMMA Division ==
    ASSUME NEW k \in Int, NEW n \in Nat \ {0}
    PROVE  /\ k % n \in 0 .. n - 1
           /\ k \div n \in Int
           /\ k = n * (k \div n) + (k % n)
  BY SMT

\* The remainder is the only one.
LEMMA Unique ==
    ASSUME NEW k \in Int, NEW n \in Nat \ {0}, NEW q \in Int, NEW r \in 0 .. n - 1,
           k = n * q + r
    PROVE  k % n = r
  BY SMT

\* Multiplication is kept out of sight of what follows.
LEMMA Steps ==
    ASSUME NEW n \in Int, NEW q \in Int
    PROVE  /\ n * q \in Int
           /\ n * (q + 1) = n * q + n
           /\ n * (-q) = -(n * q)
           /\ n * (-q - 1) = -(n * q) - n
  BY SMT

\* One character further on.
LEMMA NextMod ==
    ASSUME NEW k \in Int, NEW n \in Nat \ {0}
    PROVE  (k + 1) % n = IF k % n = n - 1 THEN 0 ELSE (k % n) + 1
<1> DEFINE q == k \div n
           r == k % n
<1>1. r \in 0 .. n - 1 /\ q \in Int /\ k = n * q + r
  BY Division
<1>2. n * q \in Int /\ n * (q + 1) = n * q + n
  BY <1>1, Steps
<1> HIDE DEF q, r
<1>3. CASE r = n - 1
  <2>1. k + 1 = n * (q + 1) + 0
    BY <1>1, <1>2, <1>3
  <2>2. (k + 1) % n = 0
    BY <1>1, <2>1, Unique
  <2> QED  BY <1>3, <2>2 DEF r
<1>4. CASE r # n - 1
  <2>1. k + 1 = n * q + (r + 1) /\ r + 1 \in 0 .. n - 1
    BY <1>1, <1>2, <1>4
  <2>2. (k + 1) % n = r + 1
    BY <1>1, <2>1, Unique
  <2> QED  BY <1>4, <2>2 DEF r
<1> QED  BY <1>3, <1>4

\* C's remainder, with a negative result turned around (lines 86-91), is the
\* remainder of mathematics.
LEMMA NormaliseIsMod ==
    ASSUME NEW k \in Int, NEW n \in Nat \ {0}
    PROVE  Normalise(k, n) = k % n
<1>1. CASE k >= 0
  <2>1. k % n \in 0 .. n - 1
    BY Division
  <2> QED  BY <1>1, <2>1 DEF Normalise, Rem
<1>2. CASE k < 0
  <2> DEFINE q == (-k) \div n
             r == (-k) % n
  <2>0. -k \in Int
    OBVIOUS
  <2>1. r \in 0 .. n - 1 /\ q \in Int /\ -k = n * q + r
    BY <2>0, Division
  <2>2. n * q \in Int /\ n * (-q) = -(n * q) /\ n * (-q - 1) = -(n * q) - n
    BY <2>1, Steps
  <2>3. Normalise(k, n) = IF r > 0 THEN n - r ELSE -r
    BY <1>2, <2>1 DEF Normalise, Rem
  <2> HIDE DEF q, r
  <2>4. CASE r = 0
    <3>1. k = n * (-q) + 0 /\ -q \in Int /\ 0 \in 0 .. n - 1
      BY <2>1, <2>2, <2>4
    <3>2. k % n = 0
      <4>1. ASSUME NEW p \in Int, k = n * p + 0
            PROVE  k % n = 0
        BY <3>1, <4>1, Unique
      <4> QED  BY <3>1, <4>1
    <3> QED  BY <2>3, <2>4, <3>2
  <2>5. CASE r > 0
    <3>1. k = n * (-q - 1) + (n - r) /\ -q - 1 \in Int /\ n - r \in 0 .. n - 1
      BY <2>1, <2>2, <2>5
    <3>2. k % n = n - r
      BY <3>1, Unique
    <3> QED  BY <2>3, <2>5, <3>2
  <2> QED  BY <2>1, <2>4, <2>5
<1> QED  BY <1>1, <1>2
-----------------------------------------------------------------------------
(* The inductive invariant.  The iterator lies at some offset of the text it *)
(* is in, and that place is the one of the window's next character; the end  *)
(* of the separator stands for the beginning of the text.                    *)

ScrollTypes ==
    /\ state \in {"idle", "copy", "done", "crashed"}
    /\ input_text \in Seq(Char) /\ loop_text \in Seq(Char)
    /\ num_chars \in Nat /\ idx \in Int /\ s \in BOOLEAN
    /\ text_iter \in Seq(Char) /\ output_text \in Seq(Char)

Length == Len(input_text) + Len(loop_text)
Source == IF s THEN loop_text ELSE input_text
Base   == IF s THEN Len(input_text) ELSE 0

At(place, k) == place = k % Length \/ (place = Length /\ k % Length = 0)

Placed ==
    \E offset \in 0 .. Len(Source) :
        /\ text_iter = SubSeq(Source, offset + 1, Len(Source))
        /\ At(Base + offset, idx + Len(output_text))

Copied ==
    /\ Length > 0
    /\ Len(output_text) <= num_chars
    /\ output_text = Window(input_text, loop_text, idx, Len(output_text))

ScrollInv ==
    /\ ScrollTypes
    /\ state \in {"copy", "done"} => Copied
    /\ state = "copy" => Placed
    /\ state = "done" => Len(output_text) = num_chars

\* The characters of the endless text are those of its two parts.
LEMMA EndlessChar ==
    ASSUME NEW text \in Seq(Char), NEW sep \in Seq(Char), NEW k \in Int,
           Len(text) + Len(sep) > 0
    PROVE  Endless(text, sep, k) \in Char
<1> DEFINE n == Len(text) + Len(sep)
           at == k % n
<1>1. n \in Nat \ {0} /\ Len(text) \in Nat /\ Len(sep) \in Nat
  OBVIOUS
<1>2. at \in 0 .. n - 1
  BY <1>1, Division
<1>3. Endless(text, sep, k) = IF at < Len(text) THEN text[at + 1] ELSE sep[at - Len(text) + 1]
  BY DEF Endless
<1> HIDE DEF at
<1>4. CASE at < Len(text)
  <2>1. at + 1 \in 1 .. Len(text)
    BY <1>1, <1>2, <1>4
  <2> QED  BY <1>3, <1>4, <2>1
<1>5. CASE ~(at < Len(text))
  <2>1. at - Len(text) + 1 \in 1 .. Len(sep)
    BY <1>1, <1>2, <1>5
  <2> QED  BY <1>3, <1>5, <2>1
<1> QED  BY <1>4, <1>5

\* A call leaves the iterator at the character the index names.
LEMMA CallPlaces ==
    ASSUME ScrollInv,
           NEW text \in Seq(Char), NEW k \in Int, NEW n \in Nat,
           NEW loop \in Seq(Char) \cup {NULL}, NEW fits \in Fits,
           Call(text, k, n, loop, fits)
    PROVE  ScrollInv'
<1> DEFINE sep   == Separator(text, n, loop, fits)
           total == Len(text) + Len(sep)
           first == IF Len(text) <= n /\ fits = "NO_SCROLL" THEN 0 ELSE k
           at    == Normalise(first, total)
<1>1. sep \in Seq(Char)
  BY SpaceAssumption DEF Separator, Spaces
<1>2. Len(text) \in Nat /\ Len(sep) \in Nat /\ total \in Nat /\ first \in Int
  BY <1>1
<1>3. /\ input_text' = text /\ loop_text' = sep /\ num_chars' = n /\ idx' = first
      /\ output_text' = <<>>
  BY DEF Call
<1>4. CASE total = 0
  <2>1. state' = "crashed" /\ s' = s /\ text_iter' = text_iter
    BY <1>4 DEF Call
  <2> QED  BY <1>1, <1>2, <1>3, <2>1 DEF ScrollInv, ScrollTypes
<1>5. CASE total # 0
  <2>1. /\ state' = "copy" /\ s' = (at >= Len(text))
        /\ text_iter' = IF at >= Len(text) THEN From(sep, at - Len(text)) ELSE From(text, at)
    BY <1>5 DEF Call
  <2>2. at = first % total /\ at \in 0 .. total - 1
    BY <1>2, <1>5, NormaliseIsMod, Division
  <2>3. Length' = total /\ Length' > 0
    BY <1>2, <1>3, <1>5 DEF Length
  <2>4. Copied'
    <3>1. Len(output_text') = 0
      BY <1>3
    <3>2. Window(input_text', loop_text', idx', 0) = <<>>
      BY DEF Window
    <3> QED  BY <1>3, <2>3, <3>1, <3>2 DEF Copied
  <2>5. idx' + Len(output_text') = first
    BY <1>2, <1>3
  <2> HIDE DEF sep, total, first, at
  <2>6. CASE at >= Len(text)
    <3>1. s' = TRUE /\ text_iter' = SubSeq(sep, at - Len(text) + 1, Len(sep))
      BY <2>1, <2>6 DEF From
    <3>2. Source' = sep /\ Base' = Len(text)
      BY <1>3, <3>1 DEF Source, Base
    <3>3. at - Len(text) \in 0 .. Len(sep) /\ Len(text) + (at - Len(text)) = at
      BY <1>2, <2>2, <2>6 DEF total
    <3>4. At(Base + (at - Len(text)), idx + Len(output_text))'
      BY <2>2, <2>3, <2>5, <3>2, <3>3 DEF At
    <3>5. Placed'
      BY <3>1, <3>2, <3>3, <3>4 DEF Placed
    <3>6. text_iter' \in Seq(Char)
      BY <1>1, <1>2, <3>1, <3>3
    <3> QED  BY <1>1, <1>2, <1>3, <2>1, <2>4, <3>1, <3>5, <3>6 DEF ScrollInv, ScrollTypes
  <2>7. CASE at < Len(text)
    <3>0. ~(at >= Len(text))
      BY <1>2, <2>2, <2>7
    <3>1. ~s' /\ s' \in BOOLEAN /\ text_iter' = SubSeq(text, at + 1, Len(text))
      <4>1. s' = (at >= Len(text))
        BY <2>1
      <4>2. ~s'
        BY <3>0, <4>1
      <4>3. s' \in BOOLEAN
        BY <1>2, <2>2, <4>1, SMT
      <4>4. text_iter' = From(text, at)
        BY <2>1, <3>0
      <4> QED  BY <4>2, <4>3, <4>4 DEF From
    <3>2. Source' = text /\ Base' = 0
      BY <1>3, <3>1 DEF Source, Base
    <3>3. at \in 0 .. Len(text) /\ 0 + at = at
      BY <1>2, <2>2, <2>7
    <3>4. At(Base + at, idx + Len(output_text))'
      BY <2>2, <2>3, <2>5, <3>2, <3>3 DEF At
    <3>5. Placed'
      BY <3>1, <3>2, <3>3, <3>4 DEF Placed
    <3>6. text_iter' \in Seq(Char)
      BY <1>2, <3>1, <3>3
    <3> QED  BY <1>1, <1>2, <1>3, <2>1, <2>4, <3>1, <3>5, <3>6 DEF ScrollInv, ScrollTypes
  <2> QED  BY <1>2, <2>2, <2>6, <2>7
<1> QED  BY <1>4, <1>5

\* A copied character is the next one of the window.
LEMMA CopyPlaces ==
    ASSUME ScrollInv, Copy
    PROVE  ScrollInv'
<1> DEFINE m == Len(output_text)
<1>1. /\ state = "copy" /\ m < num_chars /\ text_iter # <<>>
      /\ output_text' = Append(output_text, Head(text_iter))
      /\ text_iter' = Tail(text_iter)
      /\ input_text' = input_text /\ loop_text' = loop_text
      /\ num_chars' = num_chars /\ idx' = idx /\ s' = s /\ state' = state
  BY DEF Copy, sargs
<1>2. ScrollTypes /\ Copied /\ Placed
  BY <1>1 DEF ScrollInv
<1>3. /\ input_text \in Seq(Char) /\ loop_text \in Seq(Char) /\ s \in BOOLEAN
      /\ text_iter \in Seq(Char) /\ output_text \in Seq(Char)
      /\ num_chars \in Nat /\ idx \in Int
  BY <1>2 DEF ScrollTypes
<1>4. /\ Len(input_text) \in Nat /\ Len(loop_text) \in Nat /\ m \in Nat
      /\ Length \in Nat \ {0} /\ Source \in Seq(Char) /\ Len(Source) \in Nat
  BY <1>2, <1>3 DEF Copied, Length, Source
<1>5. PICK offset \in 0 .. Len(Source) :
          /\ text_iter = SubSeq(Source, offset + 1, Len(Source))
          /\ At(Base + offset, idx + m)
  BY <1>2 DEF Placed
<1>6. offset < Len(Source)
  BY <1>1, <1>4, <1>5
<1>7. /\ Head(text_iter) = Source[offset + 1] /\ Head(text_iter) \in Char
      /\ Tail(text_iter) = SubSeq(Source, offset + 2, Len(Source))
  BY <1>4, <1>5, <1>6
<1>8. Base + offset = (idx + m) % Length
  BY <1>3, <1>4, <1>5, <1>6 DEF At, Base, Source, Length
<1>9. Endless(input_text, loop_text, idx + m) = Source[offset + 1]
  <2>1. CASE s
    <3>1. /\ Source = loop_text /\ Base = Len(input_text)
          /\ ~(Base + offset < Len(input_text)) /\ Base + offset - Len(input_text) + 1 = offset + 1
      BY <1>4, <1>5, <2>1 DEF Source, Base
    <3> QED  BY <1>8, <3>1 DEF Endless, Length
  <2>2. CASE ~s
    <3>1. /\ Source = input_text /\ Base = 0 /\ Base + offset = offset
          /\ Base + offset < Len(input_text)
      BY <1>4, <1>5, <1>6, <2>2 DEF Source, Base
    <3> QED  BY <1>8, <3>1 DEF Endless, Length
  <2> QED  BY <1>3, <2>1, <2>2
<1>10. Copied'
  <2>1. Len(output_text') = m + 1 /\ m + 1 <= num_chars
    BY <1>1, <1>3, <1>4, <1>7
  <2>2. output_text = [j \in 1 .. m |-> Endless(input_text, loop_text, idx + j - 1)]
    BY <1>2 DEF Copied, Window
  <2>3. output_text' = [j \in 1 .. m + 1 |-> Endless(input_text, loop_text, idx + j - 1)]
    <3>1. idx + (m + 1) - 1 = idx + m
      BY <1>3, <1>4
    <3>2. /\ output_text' \in Seq(Char) /\ Len(output_text') = m + 1
          /\ output_text'[m + 1] = Source[offset + 1]
          /\ \A j \in 1 .. m : output_text'[j] = output_text[j]
      BY <1>1, <1>3, <1>4, <1>7
    <3>3. output_text' = [j \in 1 .. m + 1 |-> output_text'[j]]
      BY <3>2
    <3>4. \A j \in 1 .. m + 1 : output_text'[j] = Endless(input_text, loop_text, idx + j - 1)
      <4> TAKE j \in 1 .. m + 1
      <4>1. CASE j = m + 1
        BY <1>9, <3>1, <3>2, <4>1
      <4>2. CASE j # m + 1
        <5>1. j \in 1 .. m
          BY <1>4, <4>2
        <5>2. output_text[j] = Endless(input_text, loop_text, idx + j - 1)
          BY <2>2, <5>1
        <5> QED  BY <3>2, <5>1, <5>2
      <4> QED  BY <4>1, <4>2
    <3> QED  BY <3>3, <3>4
  <2>4. Length' = Length /\ Length > 0
    BY <1>1, <1>4 DEF Length
  <2>5. output_text' = Window(input_text', loop_text', idx', Len(output_text'))
    BY <1>1, <2>1, <2>3 DEF Window
  <2> QED  BY <1>1, <2>1, <2>4, <2>5 DEF Copied
<1>11. Placed'
  <2>1. /\ Source' = Source /\ Base' = Base /\ Length' = Length
        /\ Len(output_text') = m + 1
    BY <1>1, <1>3, <1>4, <1>7 DEF Source, Base, Length
  <2>2. (idx + (m + 1)) % Length
        = IF (idx + m) % Length = Length - 1 THEN 0 ELSE ((idx + m) % Length) + 1
    <3>1. idx + m \in Int /\ idx + (m + 1) = (idx + m) + 1
      BY <1>3, <1>4
    <3> QED  BY <1>4, <3>1, NextMod
  <2>3. Base \in Nat /\ (idx + m) % Length \in Int
    BY <1>3, <1>4, <1>5, <1>8 DEF Base
  <2>4. Base + (offset + 1) = ((idx + m) % Length) + 1
    BY <1>5, <1>8, <2>3
  <2>5. At(Base + (offset + 1), idx + (m + 1))
    BY <1>4, <2>2, <2>3, <2>4 DEF At
  <2>6. offset + 1 \in 0 .. Len(Source) /\ (offset + 1) + 1 = offset + 2
    BY <1>4, <1>5, <1>6
  <2>7. At(Base + (offset + 1), idx + Len(output_text))'
    BY <1>1, <2>1, <2>5 DEF At
  <2>8. text_iter' = SubSeq(Source, (offset + 1) + 1, Len(Source))
    BY <1>1, <1>7, <2>6
  <2> QED  BY <2>1, <2>6, <2>7, <2>8 DEF Placed
<1>12. ScrollTypes'
  BY <1>1, <1>2, <1>3, <1>7 DEF ScrollTypes
<1> QED  BY <1>1, <1>10, <1>11, <1>12 DEF ScrollInv

\* Where one text ends the other begins.
LEMMA SwapPlaces ==
    ASSUME ScrollInv, Swap
    PROVE  ScrollInv'
<1>1. /\ state = "copy" /\ text_iter = <<>>
      /\ text_iter' = (IF s THEN input_text ELSE loop_text) /\ s' = ~s
      /\ output_text' = output_text /\ input_text' = input_text /\ loop_text' = loop_text
      /\ num_chars' = num_chars /\ idx' = idx /\ state' = state
  BY DEF Swap, sargs
<1>2. ScrollTypes /\ Copied /\ Placed
  BY <1>1 DEF ScrollInv
<1>3. /\ input_text \in Seq(Char) /\ loop_text \in Seq(Char) /\ s \in BOOLEAN
      /\ output_text \in Seq(Char) /\ num_chars \in Nat /\ idx \in Int
  BY <1>2 DEF ScrollTypes
<1>4. /\ Len(input_text) \in Nat /\ Len(loop_text) \in Nat
      /\ Length \in Nat \ {0} /\ Source \in Seq(Char) /\ Len(Source) \in Nat
  BY <1>2, <1>3 DEF Copied, Length, Source
<1>5. PICK offset \in 0 .. Len(Source) :
          /\ text_iter = SubSeq(Source, offset + 1, Len(Source))
          /\ At(Base + offset, idx + Len(output_text))
  BY <1>2 DEF Placed
<1>6. offset = Len(Source)
  <2>1. Len(SubSeq(Source, offset + 1, Len(Source))) = Len(Source) - offset
    BY <1>4
  <2>2. Len(text_iter) = 0
    BY <1>1
  <2> QED  BY <1>4, <1>5, <2>1, <2>2
<1>7. At(Base', idx + Len(output_text)) /\ text_iter' = Source'
  <2>1. CASE s
    <3>1. Base' = 0 /\ Source' = input_text /\ Base + offset = Length
      BY <1>1, <1>4, <1>6, <2>1 DEF Base, Source, Length
    <3>2. (idx + Len(output_text)) % Length = 0
      <4>1. (idx + Len(output_text)) % Length \in 0 .. Length - 1
        BY <1>3, <1>4, Division
      <4> QED  BY <1>4, <1>5, <3>1, <4>1 DEF At
    <3> QED  BY <1>1, <2>1, <3>1, <3>2 DEF At
  <2>2. CASE ~s
    <3>1. Base' = Base + offset /\ Source' = loop_text
      <4>1. Base = 0 /\ Source = input_text
        BY <2>2 DEF Base, Source
      <4>2. s' = TRUE
        BY <1>1, <1>3, <2>2
      <4>3. Base' = Len(input_text) /\ Source' = loop_text
        BY <1>1, <4>2 DEF Base, Source
      <4> QED  BY <1>4, <1>6, <4>1, <4>3
    <3> QED  BY <1>1, <1>5, <2>2, <3>1
  <2> QED  BY <1>3, <2>1, <2>2
<1>8. Placed'
  <2>1. Source' \in Seq(Char) /\ Base' \in Nat
    BY <1>1, <1>3, <1>4 DEF Source, Base
  <2>2. text_iter' = SubSeq(Source', 0 + 1, Len(Source')) /\ 0 \in 0 .. Len(Source') /\ Base' + 0 = Base'
    <3>1. \A t \in Seq(Char) : SubSeq(t, 0 + 1, Len(t)) = t
      OBVIOUS
    <3>2. text_iter' = SubSeq(Source', 0 + 1, Len(Source'))
      BY <1>7, <2>1, <3>1
    <3>3. Len(Source') \in Nat
      BY <2>1
    <3>4. 0 \in 0 .. Len(Source')
      BY <3>3
    <3>5. Base' + 0 = Base'
      <4>1. \A b \in Nat : b + 0 = b
        OBVIOUS
      <4> QED  BY <2>1, <4>1
    <3> QED  BY <3>2, <3>4, <3>5
  <2>3. Length' = Length
    BY <1>1 DEF Length
  <2>4. At(Base + 0, idx + Len(output_text))'
    BY <1>1, <1>7, <2>2, <2>3 DEF At
  <2> QED  BY <2>2, <2>4 DEF Placed
<1>9. Copied'
  BY <1>1, <1>2 DEF Copied, Length
<1>10. ScrollTypes'
  BY <1>1, <1>2, <1>3 DEF ScrollTypes
<1> QED  BY <1>1, <1>8, <1>9, <1>10 DEF ScrollInv

\* At first there is no call.
LEMMA IdlePlaces == Idle => ScrollInv
<1>1. Idle => ScrollTypes /\ state = "idle"
  <2>1. <<>> \in Seq(Char)
    OBVIOUS
  <2>2. Idle => s \in BOOLEAN
    BY Zenon DEF Idle
  <2>3. Idle => /\ input_text \in Seq(Char) /\ loop_text \in Seq(Char)
                /\ text_iter \in Seq(Char) /\ output_text \in Seq(Char)
    BY <2>1, Zenon DEF Idle
  <2>4. Idle => num_chars \in Nat /\ idx \in Int /\ state = "idle"
    BY DEF Idle
  <2> QED  BY <2>2, <2>3, <2>4 DEF ScrollTypes
<1> QED  BY <1>1 DEF ScrollInv

\* Every step of scroll_text and of its callers keeps the invariant.
LEMMA ScrollKept ==
    ASSUME ScrollInv, [ScrollNext]_svars
    PROVE  ScrollInv'
<1>1. ASSUME NEW text \in Seq(Char), NEW k \in Int, NEW n \in Nat,
             NEW loop \in Seq(Char) \cup {NULL}, NEW fits \in Fits, Call(text, k, n, loop, fits)
      PROVE  ScrollInv'
  BY <1>1, CallPlaces
<1>2. CASE Copy
  BY <1>2, CopyPlaces
<1>3. CASE Swap
  BY <1>3, SwapPlaces
<1>4. CASE Finish
  BY <1>4 DEF Finish, sargs, ScrollInv, ScrollTypes, Copied, Length
<1>5. CASE Taken
  <2>1. <<>> \in Seq(Char)
    OBVIOUS
  <2>2. ScrollTypes' /\ state' = "idle"
    <3>1. s' \in BOOLEAN
      BY <1>5, Zenon DEF Taken
    <3>2. /\ input_text' \in Seq(Char) /\ loop_text' \in Seq(Char)
          /\ text_iter' \in Seq(Char) /\ output_text' \in Seq(Char)
      BY <1>5, <2>1, Zenon DEF Taken
    <3>3. num_chars' \in Nat /\ idx' \in Int /\ state' = "idle"
      BY <1>5 DEF Taken
    <3> QED  BY <3>1, <3>2, <3>3 DEF ScrollTypes
  <2> QED  BY <2>2 DEF ScrollInv
<1>6. CASE UNCHANGED svars
  BY <1>6 DEF svars, ScrollInv, ScrollTypes, Copied, Placed, Length, Source, Base, At
<1> QED  BY <1>1, <1>2, <1>3, <1>4, <1>5, <1>6 DEF ScrollNext, ScrollStep

\* The invariant holds for callers of every kind.
THEOREM ScrollInvariant == ScrollSpec => []ScrollInv
<1>1. ScrollInv /\ [ScrollNext]_svars => ScrollInv'
  BY ScrollKept
<1> QED  BY <1>1, IdlePlaces, PTL DEF ScrollSpec

\* Whatever is scrolled, however far and in which direction: scroll_text
\* returns the window of the endless text that begins at the index.
THEOREM WindowCorrect == ScrollSpec => []WindowShown
<1>1. ScrollInv => WindowShown
  BY DEF ScrollInv, Copied, WindowShown
<1> QED  BY <1>1, ScrollInvariant, PTL
-----------------------------------------------------------------------------
(* mpdonair.  The invariant: a call that is going on, what it has used up of *)
(* the scroll, the text it has built; the text that the reader sees, and how *)
(* the indexes and the tags that are kept belong to it.                      *)

Song == <<title, artist>>
InCall == pc \in {"fmt", "tag", "all"}
Indexes == -IntMax - 1 .. IntMax
Tags(set) == set \cup {NULL}
Words == Seq(Char)

\* A character of fmt, for a song.
TagOf(ch, song) ==
    CASE ch \in {"a", "A"} -> song[2] [] ch \in {"t", "T"} -> song[1] [] OTHER -> <<ch>>
Written(text, ch, song) == IF TagOf(ch, song) = NULL THEN text ELSE Cat(text, TagOf(ch, song))

\* text is what the first m characters of a format yield for the song, where
\* nothing of it scrolls by itself: g[j] is the text after j of them.
Writes(g, format, song, m) ==
    /\ g[0] = <<>>
    /\ \A j \in 1 .. m : g[j] = Written(g[j - 1], format[j], song)
BuiltTo(text, format, song, m) ==
    \E g \in [0 .. m -> Words] : Writes(g, format, song, m) /\ g[m] = text

\* A tag has been scrolled before the character k.
Moved(k) == \E j \in 1 .. k - 1 : Moves(j)

\* scroll_text shows a text that fits from its beginning.
First(text, k, fits) == IF Len(text) <= mpd_title_length /\ fits = "NO_SCROLL" THEN 0 ELSE k
Between(text, fits) == Separator(text, mpd_title_length, mpd_loop_text, fits)
Whole(text, k, fits) == Window(text, Between(text, fits), First(text, k, fits), mpd_title_length)
Alone(text, k) == Window(text, <<Space>>, k, Len(text))

MpdTypes ==
    /\ fmt \in Formats /\ mpd_on_text_fits \in FitsOptions
    /\ server \in BOOLEAN /\ conn \in {NULL, "up", "dead"}
    /\ pc \in {"idle", "status", "fmt", "tag", "all"}
    /\ pos \in 1 .. Len(fmt) + 1
    /\ playing \in {0, 1} /\ scroll \in {0, playing}
    /\ title \in Tags(Titles) /\ artist \in Tags(Artists)
    /\ titlebuffer \in Words /\ Len(titlebuffer) < TitleSize
    /\ scroll_idx \in Indexes /\ artist_idx \in Indexes /\ title_idx \in Indexes
    /\ prev_title \in Words /\ Len(prev_title) <= PrevSize
    /\ prev_artist \in Words /\ Len(prev_artist) <= PrevSize
    /\ seen \in [who : {"none", "A", "T", "all"}, song : Tags(Titles) \X Tags(Artists),
                 at : Indexes, out : Words, moves : {0, 1}]

Phase ==
    /\ pc = "status" => conn # NULL
    /\ (pc \in {"tag", "all"}) = (state # "idle")
    /\ pc = "tag" => pos <= Len(fmt) /\ Moves(pos)
    /\ pc = "all" => pos = Len(fmt) + 1

\* What the call of scroll_text that is going on was given.
Args ==
    /\ pc = "tag" =>
          /\ input_text = Tag(fmt[pos]) /\ loop_text = <<Space>> /\ num_chars = Len(Tag(fmt[pos]))
          /\ idx = IF fmt[pos] = "A" THEN artist_idx ELSE title_idx
    /\ pc = "all" =>
          /\ input_text = titlebuffer
          /\ loop_text = Between(titlebuffer, mpd_on_text_fits)
          /\ num_chars = mpd_title_length /\ idx = First(titlebuffer, scroll_idx, mpd_on_text_fits)

\* The first text that moves uses up the scroll and is the one that is seen.
Used ==
    InCall => /\ scroll = IF Moved(pos) THEN 0 ELSE playing
              /\ ~Moved(pos) => BuiltTo(titlebuffer, fmt, Song, pos - 1)
              /\ Moved(pos) => seen.who \in {"A", "T"}

\* What was seen is a window of the song's text, and the index has gone on by
\* what the call was to move.
Shown ==
    /\ seen.who = "A" =>
          /\ seen.song[2] # NULL /\ seen.out = Alone(seen.song[2], seen.at)
          /\ artist_idx = Add(seen.at, seen.moves)
    /\ seen.who = "T" =>
          /\ seen.song[1] # NULL /\ seen.out = Alone(seen.song[1], seen.at)
          /\ title_idx = Add(seen.at, seen.moves)
    /\ seen.who = "all" =>
          /\ \E text \in Words : /\ BuiltTo(text, fmt, seen.song, Len(fmt))
                                /\ seen.out = Whole(text, seen.at, mpd_on_text_fits)
          /\ (~InCall \/ (Song = seen.song /\ Short(Song))) => scroll_idx = Add(seen.at, seen.moves)

\* prev_title and prev_artist are the tags of a song, those it has.
Remembered(song) ==
    /\ song[1] # NULL => prev_title = Cut(song[1], PrevSize)
    /\ song[2] # NULL => prev_artist = Cut(song[2], PrevSize)

Kept ==
    /\ InCall => Remembered(Song)
    /\ ~InCall /\ seen.who = "all" => Remembered(seen.song)
    /\ (/\ InCall /\ seen.who = "all" /\ Song # seen.song
        /\ NULL \notin {title, artist, seen.song[1], seen.song[2]}
        /\ Short(Song) \/ Short(seen.song)) => scroll_idx = 0

IInv == MpdTypes /\ Phase /\ ScrollInv /\ Args /\ Used /\ Shown /\ Kept

-----------------------------------------------------------------------------
(* The operators of mpdonair.                                                *)

\* A non-empty set of numbers has a least one.
LEMMA LeastNumber ==
    ASSUME NEW S \in SUBSET Nat, NEW k \in S
    PROVE  \E least \in S : \A j \in S : least <= j
<1> DEFINE R == {ss \in Nat \X Nat : ss[1] < ss[2]}
<1>1. IsWellFoundedOn(R, Nat)
  BY NatLessThanWellFounded DEF OpToRel
<1>2. \A m, n \in Nat : m < n => <<m, n>> \in R
  OBVIOUS
<1> HIDE DEF R
<1>3. PICK n \in S : \A m \in S : <<m, n>> \notin R
  BY <1>1, WFMin
<1>4. ASSUME NEW m \in S
      PROVE  n <= m
  <2>1. m \in Nat /\ n \in Nat /\ ~(m < n)
    BY <1>2, <1>3
  <2> QED  BY <2>1
<1> QED  BY <1>4

\* The format is a sequence, and a song has tags or NULL.
LEMMA Consts ==
    /\ \A format \in Formats : format \in Seq({"a", "A", "t", "T"} \cup Char)
    /\ Tags(Titles) \subseteq Words \cup {NULL} /\ Tags(Artists) \subseteq Words \cup {NULL}
    /\ NULL \notin Words /\ <<Space>> \in Words
    /\ mpd_loop_text \in Words /\ mpd_title_length \in Nat
    /\ PrevSize \in Nat \ {0} /\ TitleSize \in Nat \ {0} /\ IntMax \in Nat \ {0}
BY FormatAssumption, TagAssumption, NULLTextAssumption, SpaceAssumption, LoopTextAssumption,
   LengthAssumption, SizeAssumption DEF Tags, Words

LEMMA TagOfType ==
    ASSUME NEW format \in Formats, NEW j \in 1 .. Len(format),
           NEW song \in Tags(Titles) \X Tags(Artists)
    PROVE  TagOf(format[j], song) \in Words \cup {NULL}
<1>1. format[j] \in {"a", "A", "t", "T"} \cup Char
  BY Consts
<1>2. song[1] \in Words \cup {NULL} /\ song[2] \in Words \cup {NULL}
  BY Consts
<1>3. CASE format[j] \in {"a", "A"}
  BY <1>2, <1>3 DEF TagOf
<1>4. CASE format[j] \in {"t", "T"}
  BY <1>2, <1>4 DEF TagOf
<1>5. CASE format[j] \notin {"a", "A", "t", "T"}
  <2>1. TagOf(format[j], song) = <<format[j]>>
    BY <1>5 DEF TagOf
  <2> QED  BY <1>1, <1>5, <2>1 DEF Words
<1> QED  BY <1>3, <1>4, <1>5

LEMMA CutType ==
    ASSUME NEW text \in Words, NEW n \in Nat
    PROVE  /\ Cut(text, n) \in Words /\ Len(Cut(text, n)) <= n
           /\ Len(text) <= n => Cut(text, n) = text
           /\ Len(text) > n => Len(Cut(text, n)) = n
BY DEF Cut, Words

LEMMA CatType ==
    ASSUME NEW text \in Words, NEW more \in Words
    PROVE  Cat(text, more) \in Words /\ Len(Cat(text, more)) < TitleSize
<1> DEFINE both == text \o more
           room == TitleSize - 1
<1>1. both \in Words /\ room \in Nat /\ TitleSize \in Nat /\ TitleSize = room + 1
  BY Consts DEF Words
<1>2. Cat(text, more) = Cut(both, room)
  BY DEF Cat
<1> HIDE DEF both, room
<1>3. Cut(both, room) \in Words /\ Len(Cut(both, room)) <= room
  BY <1>1, CutType
<1>4. Len(Cut(both, room)) \in Nat
  BY <1>3 DEF Words
<1> QED  BY <1>1, <1>2, <1>3, <1>4

LEMMA AddType ==
    ASSUME NEW k \in Indexes, NEW n \in {0, 1}
    PROVE  /\ Add(k, n) \in Indexes
           /\ n = 0 => Add(k, n) = k
           /\ k + n <= IntMax => Add(k, n) = k + n
BY Consts DEF Add, Indexes

\* The empty text is built of no character, each further one adds to it, and
\* what is built is one text.
LEMMA BuiltNone ==
    ASSUME NEW format, NEW song
    PROVE  BuiltTo(<<>>, format, song, 0)
<1> DEFINE g == [j \in 0 .. 0 |-> <<>>]
<1>1. g \in [0 .. 0 -> Words] /\ g[0] = <<>>
  BY DEF Words
<1>2. Writes(g, format, song, 0)
  BY <1>1 DEF Writes
<1> QED  BY <1>1, <1>2 DEF BuiltTo

LEMMA BuiltMore ==
    ASSUME NEW format, NEW song, NEW m \in Nat, NEW text, BuiltTo(text, format, song, m),
           Written(text, format[m + 1], song) \in Words
    PROVE  BuiltTo(Written(text, format[m + 1], song), format, song, m + 1)
<1> DEFINE more == Written(text, format[m + 1], song)
<1>1. PICK g \in [0 .. m -> Words] : Writes(g, format, song, m) /\ g[m] = text
  BY DEF BuiltTo
<1> DEFINE h == [j \in 0 .. m + 1 |-> IF j = m + 1 THEN more ELSE g[j]]
<1>2. h \in [0 .. m + 1 -> Words]
  <2>1. ASSUME NEW j \in 0 .. m + 1
        PROVE  (IF j = m + 1 THEN more ELSE g[j]) \in Words
    BY <1>1, <2>1
  <2> QED  BY <2>1
<1>3. h[m + 1] = more /\ \A j \in 0 .. m : h[j] = g[j]
  OBVIOUS
<1> HIDE DEF h
<1>4. h[0] = <<>>
  BY <1>1, <1>3 DEF Writes
<1>5. ASSUME NEW j \in 1 .. m + 1
      PROVE  h[j] = Written(h[j - 1], format[j], song)
  <2>1. j - 1 \in 0 .. m /\ h[j - 1] = g[j - 1]
    BY <1>3, <1>5
  <2>2. CASE j = m + 1
    <3>1. j - 1 = m /\ h[j - 1] = text
      BY <1>1, <2>1, <2>2
    <3> QED  BY <1>3, <2>2, <3>1
  <2>3. CASE j # m + 1
    <3>1. j \in 1 .. m /\ h[j] = g[j]
      BY <1>3, <1>5, <2>3
    <3>2. g[j] = Written(g[j - 1], format[j], song)
      BY <1>1, <3>1 DEF Writes
    <3> QED  BY <2>1, <3>1, <3>2
  <2> QED  BY <2>2, <2>3
<1>6. Writes(h, format, song, m + 1)
  BY <1>4, <1>5 DEF Writes
<1> QED  BY <1>2, <1>3, <1>6 DEF BuiltTo

LEMMA BuiltOnce ==
    ASSUME NEW format, NEW song, NEW m \in Nat, NEW text, NEW other,
           BuiltTo(text, format, song, m), BuiltTo(other, format, song, m)
    PROVE  text = other
<1>1. PICK g \in [0 .. m -> Words] : Writes(g, format, song, m) /\ g[m] = text
  BY DEF BuiltTo
<1>2. PICK h \in [0 .. m -> Words] : Writes(h, format, song, m) /\ h[m] = other
  BY DEF BuiltTo
<1> DEFINE Differ == {j \in 0 .. m : g[j] # h[j]}
<1>3. SUFFICES ASSUME m \in Differ PROVE FALSE
  BY <1>1, <1>2
<1>4. Differ \in SUBSET Nat
  OBVIOUS
<1>5. PICK least \in Differ : \A j \in Differ : least <= j
  BY <1>3, <1>4, LeastNumber
<1>6. least # 0
  BY <1>1, <1>2, <1>5 DEF Writes
<1>7. least \in 1 .. m /\ least - 1 \in 0 .. m /\ least - 1 \notin Differ
  BY <1>5, <1>6
<1>8. g[least - 1] = h[least - 1]
  BY <1>7
<1>9. g[least] = h[least]
  BY <1>1, <1>2, <1>7, <1>8 DEF Writes
<1> QED  BY <1>5, <1>9

\* One character further on, the window shows the same text one to the left.
LEMMA WindowMoves ==
    ASSUME NEW text, NEW sep, NEW k \in Int, NEW n \in Nat
    PROVE  /\ Len(Window(text, sep, k, n)) = n
           /\ \A j \in 1 .. n - 1 : Window(text, sep, k + 1, n)[j] = Window(text, sep, k, n)[j + 1]
<1>1. Len(Window(text, sep, k, n)) = n
  BY DEF Window
<1>2. ASSUME NEW j \in 1 .. n - 1
      PROVE  Window(text, sep, k + 1, n)[j] = Window(text, sep, k, n)[j + 1]
  <2>1. j \in 1 .. n /\ j + 1 \in 1 .. n /\ (k + 1) + j - 1 = k + (j + 1) - 1
    BY <1>2
  <2> QED  BY <2>1 DEF Window
<1> QED  BY <1>1, <1>2

\* A tag that prev_title can hold is found unchanged when it is the same, and
\* changed when it is another.
LEMMA NotChanged ==
    ASSUME NEW tag \in Words \cup {NULL}, NEW prev,
           tag # NULL => Len(tag) < PrevSize /\ prev = Cut(tag, PrevSize)
    PROVE  Changed(tag, prev) = {FALSE}
<1>1. CASE tag = NULL
  BY <1>1 DEF Changed
<1>2. CASE tag # NULL
  <2>1. tag \in Words /\ prev = tag /\ Len(tag) < PrevSize
    BY <1>2, CutType, Consts DEF Words
  <2>2. ~(Len(tag) = PrevSize) /\ ~(Len(tag) > PrevSize)
    BY <2>1, Consts DEF Words
  <2> QED  BY <1>2, <2>1, <2>2 DEF Changed
<1> QED  BY <1>1, <1>2

LEMMA IsChanged ==
    ASSUME NEW tag \in Words, NEW old \in Words, tag # old,
           Len(tag) < PrevSize \/ Len(old) < PrevSize
    PROVE  Changed(tag, Cut(old, PrevSize)) = {TRUE}
<1>1. tag # NULL /\ Len(tag) \in Nat /\ Len(old) \in Nat /\ PrevSize \in Nat
  BY Consts DEF Words
<1> DEFINE prev == Cut(old, PrevSize)
<1>2. tag # Cut(old, PrevSize)
  <2>1. CASE Len(old) <= PrevSize
    BY <2>1, <1>1, CutType
  <2>2. CASE Len(old) > PrevSize
    <3>1. Len(tag) < PrevSize /\ Len(Cut(old, PrevSize)) = PrevSize
      BY <1>1, <2>2, CutType
    <3> QED  BY <1>1, <3>1
  <2> QED  BY <1>1, <2>1, <2>2
<1> HIDE DEF prev
<1>3. tag # prev
  BY <1>2 DEF prev
<1>4. CASE Len(tag) < PrevSize
  <2>1. ~(Len(tag) = PrevSize) /\ ~(Len(tag) > PrevSize)
    BY <1>1, <1>4
  <2> QED  BY <1>1, <1>3, <1>4, <2>1 DEF Changed, prev
<1>5. CASE Len(tag) = PrevSize
  <2>1. ~(Len(tag) < PrevSize) /\ ~(Len(tag) > PrevSize)
    BY <1>1, <1>5
  <2> QED  BY <1>1, <1>3, <1>5, <2>1 DEF Changed, prev
<1>6. CASE Len(tag) > PrevSize
  <2>1. ~(Len(tag) < PrevSize) /\ ~(Len(tag) = PrevSize)
    BY <1>1, <1>6
  <2> QED  BY <1>1, <1>6, <2>1 DEF Changed, prev
<1>7. Len(tag) < PrevSize \/ Len(tag) = PrevSize \/ Len(tag) > PrevSize
  BY <1>1
<1> QED  BY <1>4, <1>5, <1>6, <1>7

-----------------------------------------------------------------------------
(* The steps of mpdonair.                                                    *)

\* Whatever mpdonair does is a step of a caller of scroll_text.
LEMMA StepScrolls ==
    ASSUME IInv, [Next]_vars
    PROVE  [ScrollNext]_svars
<1>1. fmt \in Formats /\ title \in Words \cup {NULL} /\ artist \in Words \cup {NULL}
      /\ titlebuffer \in Words /\ scroll_idx \in Int /\ artist_idx \in Int /\ title_idx \in Int
      /\ mpd_on_text_fits \in Fits /\ pos \in Nat /\ pos >= 1
  <2>1. MpdTypes
    BY DEF IInv
  <2>2. Indexes \subseteq Int
    BY Consts DEF Indexes
  <2>3. Len(fmt) \in Nat
    BY <2>1, Consts DEF MpdTypes
  <2> QED  BY <2>1, <2>2, <2>3, Consts, FitsAssumption DEF MpdTypes
<1>2. CASE ScrollTag
  <2> DEFINE tag == Tag(fmt[pos])
             k == IF fmt[pos] = "A" THEN artist_idx ELSE title_idx
  <2>1. pos \in 1 .. Len(fmt) /\ fmt[pos] \in {"A", "T"} /\ tag # NULL
        /\ Call(tag, k, Len(tag), <<Space>>, "FORCE_SCROLL")
    BY <1>1, <1>2, Consts DEF ScrollTag
  <2>2. tag \in Words /\ k \in Int
    BY <1>1, <2>1 DEF Tag
  <2> HIDE DEF tag, k
  <2>3. Len(tag) \in Nat /\ <<Space>> \in Seq(Char) /\ "FORCE_SCROLL" \in Fits
    BY <2>2, Consts DEF Words, Fits
  <2> QED  BY <2>1, <2>2, <2>3 DEF ScrollNext, Words
<1>3. CASE ScrollAll
  <2>1. Call(titlebuffer, scroll_idx, mpd_title_length, mpd_loop_text, mpd_on_text_fits)
    BY <1>3 DEF ScrollAll
  <2> QED  BY <1>1, <2>1, Consts DEF ScrollNext, Words
<1>4. CASE TagScrolled \/ Return
  BY <1>4 DEF TagScrolled, Return, ScrollNext
<1>5. CASE Scrolling
  BY <1>5 DEF Scrolling, ScrollNext
<1>6. CASE Connect \/ NoAnswer \/ Stopped \/ Plain \/ ServerDown \/ ServerUp \/ UNCHANGED vars
  BY <1>6 DEF Connect, NoAnswer, Stopped, Plain, ServerDown, ServerUp, vars
<1>7. ASSUME NEW t \in Titles, NEW a \in Artists, NEW play \in {0, 1}, Receive(t, a, play)
      PROVE  [ScrollNext]_svars
  BY <1>7 DEF Receive
<1> QED  BY <1>2, <1>3, <1>4, <1>5, <1>6, <1>7 DEF Next, Step

\* Before the call, and after it: a step that only concerns the server.
LEMMA Quiet ==
    ASSUME IInv, UNCHANGED <<svars, choice, call, static, seen>>,
           pc \in {"idle", "status"}, pc' \in {"idle", "status"},
           conn' \in {NULL, "up", "dead"}, server' \in BOOLEAN,
           pc' = "status" => conn' # NULL
    PROVE  IInv'
<1> USE DEF IInv
<1>1. MpdTypes'
  BY DEF MpdTypes, choice, call, static
<1>2. Phase'
  BY DEF Phase, svars
<1>3. ScrollInv'
  <2>1. UNCHANGED svars
    OBVIOUS
  <2> QED  BY <2>1, ScrollKept
<1>4. Args' /\ Used'
  BY DEF Args, Used, InCall
<1>5. UNCHANGED <<fmt, mpd_on_text_fits, scroll_idx, artist_idx, title_idx, prev_title, prev_artist, seen>>
  BY DEF choice, static
<1>6. ~InCall /\ ~InCall'
  BY DEF InCall
<1>7. Shown'
  BY <1>5, <1>6 DEF Shown
<1>8. Kept'
  BY <1>5, <1>6 DEF Kept, Remembered
<1> QED  BY <1>1, <1>2, <1>3, <1>4, <1>7, <1>8

\* A step of scroll_text itself, or none.
LEMMA WithinCall ==
    ASSUME IInv, UNCHANGED <<choice, server, conn, pc, call, static, seen>>, UNCHANGED sargs,
           [ScrollNext]_svars, (state' = "idle") = (state = "idle")
    PROVE  IInv'
<1> USE DEF IInv
<1>1. UNCHANGED <<fmt, mpd_on_text_fits, pos, playing, scroll, title, artist, titlebuffer,
                  scroll_idx, artist_idx, title_idx, prev_title, prev_artist>>
  BY DEF choice, call, static
<1>2. MpdTypes'
  BY <1>1 DEF MpdTypes
<1>3. Moves(pos)' = Moves(pos) /\ Moved(pos)' = Moved(pos) /\ InCall' = InCall /\ Song' = Song
      /\ Tag(fmt[pos])' = Tag(fmt[pos])
  BY <1>1 DEF Moves, Moved, InCall, Song, Tag
<1>4. Phase'
  BY <1>1, <1>3 DEF Phase
<1>5. ScrollInv'
  BY ScrollKept
<1>6. Args'
  BY <1>1, <1>3 DEF Args, sargs
<1>7. Used'
  BY <1>1, <1>3 DEF Used
<1>8. Shown'
  BY <1>1, <1>3 DEF Shown
<1>9. Kept'
  BY <1>1, <1>3 DEF Kept, Remembered
<1> QED  BY <1>2, <1>4, <1>5, <1>6, <1>7, <1>8, <1>9

\* A song is received: whether its tags are the remembered ones decides
\* whether the index is reset.
LEMMA ReceiveKeeps ==
    ASSUME IInv, NEW t \in Titles, NEW a \in Artists, NEW play \in {0, 1}, Receive(t, a, play)
    PROVE  IInv'
<1> USE DEF IInv
<1>1. PICK rt \in Changed(t, prev_title), ra \in Changed(a, prev_artist) :
          scroll_idx' = IF rt \/ ra THEN 0 ELSE scroll_idx
  BY DEF Receive
<1>2. /\ pc = "status" /\ pc' = "fmt" /\ pos' = 1 /\ titlebuffer' = <<>>
      /\ title' = t /\ artist' = a /\ playing' = play /\ scroll' = play
      /\ prev_title' = Remember(t, prev_title) /\ prev_artist' = Remember(a, prev_artist)
      /\ UNCHANGED <<svars, fmt, mpd_on_text_fits, server, conn, artist_idx, title_idx, seen>>
  BY DEF Receive, choice
<1>3. t \in Words \cup {NULL} /\ a \in Words \cup {NULL} /\ PrevSize \in Nat /\ NULL \notin Words
  BY Consts DEF Tags
<1>4. \A tag \in Words \cup {NULL}, prev \in Words :
          Len(prev) <= PrevSize => Remember(tag, prev) \in Words /\ Len(Remember(tag, prev)) <= PrevSize
  BY <1>3, CutType DEF Remember
<1>5. MpdTypes'
  <2>1. 0 \in Indexes /\ scroll_idx' \in Indexes
    BY <1>1, Consts DEF MpdTypes, Indexes
  <2>2. /\ prev_title' \in Words /\ Len(prev_title') <= PrevSize
        /\ prev_artist' \in Words /\ Len(prev_artist') <= PrevSize
    BY <1>2, <1>3, <1>4 DEF MpdTypes
  <2>3. titlebuffer' \in Words /\ Len(titlebuffer') < TitleSize
    BY <1>2, Consts DEF Words
  <2>4. pos' \in 1 .. Len(fmt') + 1
    <3>1. Len(fmt) \in Nat
      BY Consts DEF MpdTypes
    <3> QED  BY <1>2, <3>1
  <2> QED  BY <1>2, <2>1, <2>2, <2>3, <2>4 DEF MpdTypes, Tags
<1>6. Phase' /\ Args'
  BY <1>2 DEF Phase, Args, svars
<1>7. ScrollInv'
  <2>1. UNCHANGED svars
    BY <1>2
  <2> QED  BY <2>1, ScrollKept
<1>8. ~Moved(1)' /\ Song' = <<t, a>> /\ InCall' /\ ~InCall
  BY <1>2 DEF Moved, Song, InCall
<1>9. Used'
  <2>1. BuiltTo(titlebuffer', fmt', Song', 0)
    BY <1>2, BuiltNone
  <2>2. pos' - 1 = 0 /\ ~Moved(pos)'
    BY <1>2 DEF Moved
  <2> QED  BY <1>2, <2>1, <2>2 DEF Used
<1>10. seen.who = "all" => Remembered(seen.song) /\ scroll_idx = Add(seen.at, seen.moves)
  BY <1>8 DEF Kept, Shown
<1>11. ASSUME seen.who = "all", Song' = seen.song, Short(Song')
       PROVE  scroll_idx' = scroll_idx
  <2>1. seen.song[1] = t /\ seen.song[2] = a
    BY <1>8, <1>11
  <2>2. t # NULL => Len(t) < PrevSize /\ prev_title = Cut(t, PrevSize)
    BY <1>8, <1>10, <1>11, <2>1 DEF Short, Remembered
  <2>3. a # NULL => Len(a) < PrevSize /\ prev_artist = Cut(a, PrevSize)
    BY <1>8, <1>10, <1>11, <2>1 DEF Short, Remembered
  <2>4. Changed(t, prev_title) = {FALSE} /\ Changed(a, prev_artist) = {FALSE}
    BY <1>3, <2>2, <2>3, NotChanged
  <2> QED  BY <1>1, <2>4
<1>12. Shown'
  BY <1>2, <1>8, <1>10, <1>11 DEF Shown
<1>13. Remembered(Song)'
  <2>1. \A tag, prev : tag # NULL => Remember(tag, prev) = Cut(tag, PrevSize)
    BY DEF Remember
  <2>2. Song'[1] = t /\ Song'[2] = a
    BY <1>8
  <2> QED  BY <1>2, <2>1, <2>2 DEF Remembered
<1>14. ASSUME seen.who = "all", Song' # seen.song,
              NULL \notin {t, a, seen.song[1], seen.song[2]}, Short(Song') \/ Short(seen.song)
       PROVE  scroll_idx' = 0
  <2>1. /\ seen.song \in Tags(Titles) \X Tags(Artists)
        /\ seen.song = <<seen.song[1], seen.song[2]>>
    BY DEF MpdTypes
  <2>2. seen.song[1] \in Words /\ seen.song[2] \in Words /\ t \in Words /\ a \in Words
    BY <1>3, <1>14, <2>1, Consts
  <2>3. prev_title = Cut(seen.song[1], PrevSize) /\ prev_artist = Cut(seen.song[2], PrevSize)
    BY <1>10, <1>14 DEF Remembered
  <2>4. /\ Len(t) < PrevSize \/ Len(seen.song[1]) < PrevSize
        /\ Len(a) < PrevSize \/ Len(seen.song[2]) < PrevSize
    <3>1. Song'[1] = t /\ Song'[2] = a
      BY <1>8
    <3> QED  BY <1>14, <3>1 DEF Short
  <2>5. CASE t # seen.song[1]
    <3>1. Changed(t, prev_title) = {TRUE}
      BY <2>2, <2>3, <2>4, <2>5, IsChanged
    <3> QED  BY <1>1, <3>1
  <2>6. CASE a # seen.song[2]
    <3>1. Changed(a, prev_artist) = {TRUE}
      BY <2>2, <2>3, <2>4, <2>6, IsChanged
    <3> QED  BY <1>1, <3>1
  <2> QED  BY <1>8, <1>14, <2>1, <2>5, <2>6
<1>15. Kept'
  BY <1>2, <1>8, <1>13, <1>14 DEF Kept
<1> QED  BY <1>5, <1>6, <1>7, <1>9, <1>12, <1>15

\* One character on, a tag has been scrolled if one had been before or this is one.
LEMMA MovedMore ==
    ASSUME pos \in Nat \ {0}, pos' = pos + 1, UNCHANGED <<fmt, title, artist>>
    PROVE  Moved(pos)' = (Moved(pos) \/ Moves(pos))
<1>1. \A j : Moves(j)' = Moves(j)
  BY DEF Moves, Tag
<1>2. \A j : j \in 1 .. pos' - 1 <=> (j \in 1 .. pos - 1 \/ j = pos)
  OBVIOUS
<1>3. Moved(pos)' = \E j \in 1 .. pos' - 1 : Moves(j)
  BY <1>1 DEF Moved
<1>4. (\E j \in 1 .. pos' - 1 : Moves(j)) <=> (Moved(pos) \/ Moves(pos))
  BY <1>2 DEF Moved
<1>5. Moved(pos)' <=> (Moved(pos) \/ Moves(pos))
  BY <1>3, <1>4
<1> QED  BY <1>5 DEF Moved, Moves

\* A character is copied.
LEMMA PlainKeeps ==
    ASSUME IInv, Plain
    PROVE  IInv'
<1> USE DEF IInv
<1>1. /\ pc = "fmt" /\ pos <= Len(fmt) /\ ~Moves(pos) /\ pos' = pos + 1
      /\ titlebuffer' = IF Tag(fmt[pos]) = NULL THEN titlebuffer ELSE Cat(titlebuffer, Tag(fmt[pos]))
      /\ UNCHANGED <<svars, fmt, mpd_on_text_fits, server, conn, pc, playing, scroll, title, artist,
                     scroll_idx, artist_idx, title_idx, prev_title, prev_artist, seen>>
  BY DEF Plain, Moves, choice, static
<1>2. fmt \in Formats /\ pos \in 1 .. Len(fmt) /\ Len(fmt) \in Nat /\ Song \in Tags(Titles) \X Tags(Artists)
  BY <1>1, Consts DEF MpdTypes, Song
<1>3. Tag(fmt[pos]) = TagOf(fmt[pos], Song) /\ Tag(fmt[pos]) \in Words \cup {NULL}
  <2>1. Tag(fmt[pos]) = TagOf(fmt[pos], Song)
    BY DEF Tag, TagOf, Song
  <2> QED  BY <1>2, <2>1, TagOfType
<1>4. titlebuffer' = Written(titlebuffer, fmt[pos], Song)
  BY <1>1, <1>3 DEF Written
<1>5. titlebuffer' \in Words /\ Len(titlebuffer') < TitleSize
  BY <1>1, <1>3, CatType DEF MpdTypes
<1>6. pos' \in 1 .. Len(fmt) + 1
  BY <1>1, <1>2
<1>7. MpdTypes'
  BY <1>1, <1>5, <1>6 DEF MpdTypes
<1>8. Song' = Song /\ InCall' /\ InCall /\ Moved(pos)' = Moved(pos)
  <2>1. Moved(pos)' = (Moved(pos) \/ Moves(pos))
    BY <1>1, <1>2, MovedMore
  <2> QED  BY <1>1, <2>1 DEF Song, InCall, Moved
<1>9. Phase' /\ Args'
  BY <1>1 DEF Phase, Args, svars
<1>10. ScrollInv'
  <2>1. UNCHANGED svars
    BY <1>1
  <2> QED  BY <2>1, ScrollKept
<1>11. ASSUME ~Moved(pos)
       PROVE  BuiltTo(titlebuffer', fmt', Song', pos' - 1)
  <2> DEFINE m == pos - 1
  <2>1. BuiltTo(titlebuffer, fmt, Song, m)
    BY <1>8, <1>11 DEF Used
  <2>2. m \in Nat /\ m + 1 = pos /\ pos' - 1 = pos
    BY <1>1, <1>2
  <2> HIDE DEF m
  <2>3. Written(titlebuffer, fmt[m + 1], Song) \in Words
    BY <1>4, <1>5, <2>2
  <2>4. BuiltTo(Written(titlebuffer, fmt[m + 1], Song), fmt, Song, m + 1)
    BY <2>1, <2>2, <2>3, BuiltMore
  <2>5. BuiltTo(titlebuffer', fmt, Song, pos)
    BY <1>4, <2>2, <2>4
  <2> QED  BY <1>1, <1>8, <2>2, <2>5
<1>12. Used'
  BY <1>1, <1>8, <1>11 DEF Used
<1>13. Shown'
  BY <1>1, <1>8 DEF Shown
<1>14. Kept'
  BY <1>1, <1>8 DEF Kept, Remembered
<1> QED  BY <1>7, <1>9, <1>10, <1>12, <1>13, <1>14

\* A call of scroll_text begins: for a tag, or for the whole text.
LEMMA CallKeeps ==
    ASSUME IInv, [Next]_vars, ScrollTag \/ ScrollAll
    PROVE  IInv'
<1> USE DEF IInv
<1>1. /\ pc = "fmt" /\ pc' \in {"tag", "all"} /\ state' # "idle"
      /\ UNCHANGED <<fmt, mpd_on_text_fits, server, conn, pos, playing, scroll, title, artist,
                     titlebuffer, scroll_idx, artist_idx, title_idx, prev_title, prev_artist, seen>>
  BY DEF ScrollTag, ScrollAll, Call, choice, call, static
<1>2. MpdTypes'
  BY <1>1 DEF MpdTypes
<1>3. /\ Song' = Song /\ InCall' /\ InCall /\ Moved(pos)' = Moved(pos) /\ Moves(pos)' = Moves(pos)
      /\ Tag(fmt[pos])' = Tag(fmt[pos])
  BY <1>1 DEF Song, InCall, Moved, Moves, Tag
<1>4. ScrollInv'
  BY StepScrolls, ScrollKept
<1>5. Phase'
  <2>1. pc' = "tag" => pos <= Len(fmt) /\ Moves(pos)
    BY DEF ScrollTag, ScrollAll, Moves
  <2>2. pc' = "all" => pos = Len(fmt) + 1
    <3>1. Len(fmt) \in Nat /\ pos \in 1 .. Len(fmt) + 1
      BY Consts DEF MpdTypes
    <3>2. pc' = "all" => pos > Len(fmt)
      BY DEF ScrollTag, ScrollAll
    <3> QED  BY <3>1, <3>2
  <2> QED  BY <1>1, <1>3, <2>1, <2>2 DEF Phase
<1>6. Args'
  <2>1. CASE ScrollTag
    <3>1. Separator(Tag(fmt[pos]), Len(Tag(fmt[pos])), <<Space>>, "FORCE_SCROLL") = <<Space>>
      BY Consts DEF Separator
    <3>2. /\ input_text' = Tag(fmt[pos]) /\ loop_text' = <<Space>> /\ num_chars' = Len(Tag(fmt[pos]))
          /\ idx' = IF fmt[pos] = "A" THEN artist_idx ELSE title_idx
      BY <2>1, <3>1 DEF ScrollTag, Call
    <3>3. pc' = "tag"
      BY <2>1 DEF ScrollTag
    <3> QED  BY <1>1, <1>3, <3>2, <3>3 DEF Args
  <2>2. CASE ScrollAll
    <3>1. /\ input_text' = titlebuffer /\ loop_text' = Between(titlebuffer, mpd_on_text_fits)
          /\ num_chars' = mpd_title_length /\ idx' = First(titlebuffer, scroll_idx, mpd_on_text_fits)
      BY <2>2 DEF ScrollAll, Call, Between, First
    <3>2. pc' = "all"
      BY <2>2 DEF ScrollAll
    <3> QED  BY <1>1, <3>1, <3>2 DEF Args
  <2> QED  BY <2>1, <2>2
<1>7. Used' /\ Shown' /\ Kept'
  BY <1>1, <1>3 DEF Used, Shown, Kept, Remembered
<1> QED  BY <1>2, <1>4, <1>5, <1>6, <1>7

\* A finished call of scroll_text has yielded the window.
LEMMA Finished ==
    ASSUME IInv, state = "done"
    PROVE  output_text = Window(input_text, loop_text, idx, num_chars) /\ output_text \in Words
BY DEF IInv, ScrollInv, Copied, ScrollTypes, Words

\* A scrolled tag is appended; the first one is what the reader sees.
LEMMA TagScrolledKeeps ==
    ASSUME IInv, [Next]_vars, TagScrolled
    PROVE  IInv'
<1> USE DEF IInv
<1> DEFINE tag == Tag(fmt[pos])
           isA == fmt[pos] = "A"
           k == IF isA THEN artist_idx ELSE title_idx
<1>1. /\ pc = "tag" /\ state = "done" /\ pc' = "fmt" /\ pos' = pos + 1 /\ scroll' = 0
      /\ titlebuffer' = Cat(titlebuffer, output_text) /\ state' = "idle"
      /\ artist_idx' = IF isA THEN Add(artist_idx, scroll) ELSE artist_idx
      /\ title_idx' = IF isA THEN title_idx ELSE Add(title_idx, scroll)
      /\ UNCHANGED <<fmt, mpd_on_text_fits, server, conn, playing, title, artist,
                     scroll_idx, prev_title, prev_artist>>
  BY DEF TagScrolled, Taken, choice
<1>2. /\ Moved(pos) => seen' = seen
      /\ ~Moved(pos) => seen' = [who |-> fmt[pos], song |-> Song, at |-> k,
                                 out |-> output_text, moves |-> playing]
  BY DEF TagScrolled, Moved, Show, Song
<1>3. /\ fmt \in Formats /\ Len(fmt) \in Nat /\ pos \in 1 .. Len(fmt) /\ Moves(pos)
      /\ fmt[pos] \in {"A", "T"} /\ tag # NULL /\ tag = (IF isA THEN artist ELSE title)
      /\ tag \in Words
  <2>1. pos \in 1 .. Len(fmt) /\ Moves(pos) /\ fmt \in Formats /\ Len(fmt) \in Nat
    BY <1>1, Consts DEF Phase, MpdTypes
  <2>2. fmt[pos] \in {"A", "T"} /\ tag # NULL
    BY <2>1 DEF Moves
  <2>3. tag = (IF isA THEN artist ELSE title)
    BY <2>2 DEF Tag
  <2>4. tag \in Words
    BY <2>2, <2>3, Consts DEF MpdTypes
  <2> QED  BY <2>1, <2>2, <2>3, <2>4
<1>4. output_text = Alone(tag, k) /\ output_text \in Words
  BY <1>1, Finished DEF Args, Alone
<1> HIDE DEF tag, k
<1>5. InCall /\ InCall' /\ Song' = Song /\ Moved(pos)'
  <2>1. Moved(pos)' = (Moved(pos) \/ Moves(pos))
    BY <1>1, <1>3, MovedMore
  <2> QED  BY <1>1, <1>3, <2>1 DEF InCall, Song
<1>6. /\ scroll = IF Moved(pos) THEN 0 ELSE playing
      /\ Moved(pos) => seen.who \in {"A", "T"}
  BY <1>5 DEF Used
<1>7. /\ scroll \in {0, 1} /\ playing \in {0, 1}
      /\ artist_idx \in Indexes /\ title_idx \in Indexes /\ k \in Indexes
  BY DEF MpdTypes, k
<1>8. /\ Moved(pos) => artist_idx' = artist_idx /\ title_idx' = title_idx
      /\ artist_idx' \in Indexes /\ title_idx' \in Indexes
  BY <1>1, <1>6, <1>7, AddType
<1>9. seen'.who \in {"A", "T"}
  BY <1>2, <1>3, <1>6
<1>10. MpdTypes'
  <2>1. titlebuffer' \in Words /\ Len(titlebuffer') < TitleSize
    BY <1>1, <1>4, CatType DEF MpdTypes
  <2>2. pos' \in 1 .. Len(fmt') + 1
    BY <1>1, <1>3
  <2>3. seen' \in [who : {"none", "A", "T", "all"}, song : Tags(Titles) \X Tags(Artists),
                   at : Indexes, out : Words, moves : {0, 1}]
    BY <1>2, <1>3, <1>4, <1>7 DEF MpdTypes, Song
  <2> QED  BY <1>1, <1>8, <2>1, <2>2, <2>3 DEF MpdTypes
<1>11. Phase' /\ Args'
  BY <1>1 DEF Phase, Args
<1>12. ScrollInv'
  BY StepScrolls, ScrollKept
<1>13. Used'
  BY <1>1, <1>5, <1>9 DEF Used
<1>14. Shown'
  <2>1. CASE Moved(pos)
    <3>1. seen' = seen /\ artist_idx' = artist_idx /\ title_idx' = title_idx
      BY <1>2, <1>8, <2>1
    <3> QED  BY <1>9, <3>1 DEF Shown
  <2>2. CASE ~Moved(pos)
    <3>1. /\ seen'.who = fmt[pos] /\ seen'.song = <<title, artist>> /\ seen'.at = k
          /\ seen'.out = Alone(tag, k) /\ seen'.moves = playing /\ scroll = playing
      BY <1>2, <1>4, <1>6, <2>2 DEF Song
    <3>2. CASE isA
      <4>1. seen'.who = "A" /\ seen'.song[2] = tag /\ k = artist_idx
        BY <1>3, <3>1, <3>2 DEF k
      <4>2. artist_idx' = Add(k, playing)
        BY <1>1, <3>1, <3>2, <4>1
      <4> QED  BY <1>3, <3>1, <4>1, <4>2 DEF Shown
    <3>3. CASE ~isA
      <4>1. seen'.who = "T" /\ seen'.song[1] = tag /\ k = title_idx
        BY <1>3, <3>1, <3>3 DEF k
      <4>2. title_idx' = Add(k, playing)
        BY <1>1, <3>1, <3>3, <4>1
      <4> QED  BY <1>3, <3>1, <4>1, <4>2 DEF Shown
    <3> QED  BY <3>2, <3>3
  <2> QED  BY <2>1, <2>2
<1>15. Kept'
  BY <1>1, <1>5, <1>9 DEF Kept, Remembered
<1> QED  BY <1>10, <1>11, <1>12, <1>13, <1>14, <1>15

\* The whole text is returned.
LEMMA ReturnKeeps ==
    ASSUME IInv, [Next]_vars, Return
    PROVE  IInv'
<1> USE DEF IInv
<1>1. /\ pc = "all" /\ state = "done" /\ pc' = "idle" /\ state' = "idle"
      /\ scroll_idx' = Add(scroll_idx, scroll) /\ pos' = 1 /\ playing' = 0 /\ scroll' = 0
      /\ title' = NULL /\ artist' = NULL /\ titlebuffer' = <<>>
      /\ UNCHANGED <<fmt, mpd_on_text_fits, server, conn, artist_idx, title_idx,
                     prev_title, prev_artist>>
  BY DEF Return, Taken, choice
<1>2. InCall /\ ~InCall' /\ pos = Len(fmt) + 1 /\ pos - 1 = Len(fmt) /\ fmt \in Formats /\ Len(fmt) \in Nat
  BY <1>1, Consts DEF InCall, Phase, MpdTypes
<1>3. Moved(pos) = \E j \in 1 .. Len(fmt) : Moves(j)
  BY <1>2 DEF Moved
<1>4. /\ Moved(pos) => seen' = seen
      /\ ~Moved(pos) => seen' = [who |-> "all", song |-> Song, at |-> scroll_idx,
                                 out |-> output_text, moves |-> playing]
  BY <1>3 DEF Return, Show, Song
<1>5. /\ Moved(pos) => scroll = 0 /\ seen.who \in {"A", "T"}
      /\ ~Moved(pos) => scroll = playing /\ BuiltTo(titlebuffer, fmt, Song, Len(fmt))
  BY <1>2 DEF Used
<1>6. output_text = Whole(titlebuffer, scroll_idx, mpd_on_text_fits) /\ output_text \in Words
  BY <1>1, Finished DEF Args, Whole
<1>7. scroll \in {0, 1} /\ playing \in {0, 1} /\ scroll_idx \in Indexes /\ scroll_idx' \in Indexes
  <2>1. scroll \in {0, 1} /\ playing \in {0, 1} /\ scroll_idx \in Indexes
    BY DEF MpdTypes
  <2> QED  BY <1>1, <2>1, AddType
<1>8. MpdTypes'
  <2>1. titlebuffer' \in Words /\ Len(titlebuffer') < TitleSize
    BY <1>1, Consts DEF Words
  <2>2. pos' \in 1 .. Len(fmt') + 1
    BY <1>1, <1>2
  <2>3. seen' \in [who : {"none", "A", "T", "all"}, song : Tags(Titles) \X Tags(Artists),
                   at : Indexes, out : Words, moves : {0, 1}]
    BY <1>4, <1>6, <1>7 DEF MpdTypes, Song
  <2> QED  BY <1>1, <1>7, <2>1, <2>2, <2>3 DEF MpdTypes, Tags
<1>9. Phase' /\ Args'
  BY <1>1 DEF Phase, Args
<1>10. ScrollInv'
  BY StepScrolls, ScrollKept
<1>11. Used'
  BY <1>2 DEF Used
<1>12. CASE Moved(pos)
  <2>1. seen' = seen /\ seen.who \in {"A", "T"}
    BY <1>4, <1>5, <1>12
  <2>2. Shown'
    BY <1>1, <2>1 DEF Shown
  <2>3. Kept'
    BY <1>2, <2>1 DEF Kept
  <2> QED  BY <1>8, <1>9, <1>10, <1>11, <2>2, <2>3
<1>13. CASE ~Moved(pos)
  <2>1. /\ seen'.who = "all" /\ seen'.song = Song /\ seen'.at = scroll_idx
        /\ seen'.out = Whole(titlebuffer, scroll_idx, mpd_on_text_fits) /\ seen'.moves = playing
    BY <1>4, <1>6, <1>13
  <2>2. titlebuffer \in Words /\ BuiltTo(titlebuffer, fmt', seen'.song, Len(fmt'))
    BY <1>1, <1>5, <1>13, <2>1 DEF MpdTypes
  <2>3. scroll_idx' = Add(seen'.at, seen'.moves)
    BY <1>1, <1>5, <1>13, <2>1
  <2>4. seen'.out = Whole(titlebuffer, seen'.at, mpd_on_text_fits')
    BY <1>1, <2>1
  <2>5. Shown'
    BY <2>1, <2>2, <2>3, <2>4 DEF Shown
  <2>6. Remembered(Song)
    BY <1>2 DEF Kept
  <2>7. Kept'
    BY <1>1, <1>2, <2>1, <2>6 DEF Kept, Remembered
  <2> QED  BY <1>8, <1>9, <1>10, <1>11, <2>5, <2>7
<1> QED  BY <1>12, <1>13

\* Every step keeps the invariant.
LEMMA MpdStep ==
    ASSUME IInv, [Next]_vars
    PROVE  IInv'
<1>1. CASE Connect \/ NoAnswer \/ Stopped \/ ServerDown \/ ServerUp
  <2>1. conn \in {NULL, "up", "dead"} /\ server \in BOOLEAN /\ (pc = "status" => conn # NULL)
    BY DEF IInv, MpdTypes, Phase
  <2>2. /\ UNCHANGED <<svars, choice, call, static, seen>>
        /\ pc \in {"idle", "status"} /\ pc' \in {"idle", "status"}
    BY <1>1 DEF Connect, NoAnswer, Stopped, ServerDown, ServerUp
  <2>3. conn' \in {NULL, "up", "dead"} /\ server' \in BOOLEAN /\ (pc' = "status" => conn' # NULL)
    BY <1>1, <2>1, ConnAssumption DEF Connect, NoAnswer, Stopped, ServerDown, ServerUp
  <2> QED  BY <2>2, <2>3, Quiet
<1>2. ASSUME NEW t \in Titles, NEW a \in Artists, NEW play \in {0, 1}, Receive(t, a, play)
      PROVE  IInv'
  BY <1>2, ReceiveKeeps
<1>3. CASE Plain
  BY <1>3, PlainKeeps
<1>4. CASE ScrollTag \/ ScrollAll
  BY <1>4, CallKeeps
<1>5. CASE TagScrolled
  BY <1>5, TagScrolledKeeps
<1>6. CASE Return
  BY <1>6, ReturnKeeps
<1>7. CASE Scrolling \/ UNCHANGED vars
  <2>1. UNCHANGED <<choice, server, conn, pc, call, static, seen>> /\ UNCHANGED sargs
        /\ (state' = "idle") = (state = "idle")
    BY <1>7 DEF Scrolling, ScrollStep, Copy, Swap, Finish, vars, svars, sargs
  <2> QED  BY <2>1, StepScrolls, WithinCall
<1> QED  BY <1>1, <1>2, <1>3, <1>4, <1>5, <1>6, <1>7 DEF Next, Step

LEMMA MpdInit == Init => IInv
<1> SUFFICES ASSUME Init PROVE IInv
  OBVIOUS
<1>1. ScrollInv
  BY IdlePlaces DEF Init
<1>2. MpdTypes
  <2>1. 0 \in Indexes /\ <<>> \in Words /\ Len(<<>>) = 0 /\ \A format \in Formats : Len(format) \in Nat
    BY Consts DEF Indexes, Words
  <2>2. NothingSeen \in [who : {"none", "A", "T", "all"}, song : Tags(Titles) \X Tags(Artists),
                         at : Indexes, out : Words, moves : {0, 1}]
    BY <2>1 DEF NothingSeen, Tags
  <2>3. pos \in 1 .. Len(fmt) + 1
    BY <2>1 DEF Init
  <2> QED  BY <2>1, <2>2, <2>3, Consts DEF Init, MpdTypes, Tags
<1>3. Phase /\ Args /\ Used /\ Shown /\ Kept
  BY DEF Init, Idle, Phase, Args, Used, InCall, Shown, Kept, NothingSeen
<1> QED  BY <1>1, <1>2, <1>3 DEF IInv

LEMMA MpdInvariant == Spec => []IInv
<1>1. IInv /\ [Next]_vars => IInv'
  BY MpdStep
<1> QED  BY <1>1, MpdInit, PTL DEF Spec

-----------------------------------------------------------------------------
(* What follows from it.                                                     *)

\* Whatever the player does, the values keep their types and bounds, and
\* scroll_text is busy only while mpdonair waits for it.
THEOREM MpdTypesHold == Spec => []TypeOK
<1>1. ASSUME IInv
      PROVE  TypeOK
  <2>1. MpdTypes /\ Phase
    BY <1>1 DEF IInv
  <2> QED  BY <2>1 DEF MpdTypes, Phase, TypeOK, Indexes
<1> QED  BY <1>1, MpdInvariant, PTL

\* mpdonair is a caller of scroll_text like any other.
THEOREM MpdScrolls == Spec => ScrollSpec
<1>1. Init => Idle
  BY DEF Init
<1>2. IInv /\ [Next]_vars => [ScrollNext]_svars
  BY StepScrolls
<1> QED  BY <1>1, <1>2, MpdInvariant, PTL DEF Spec, ScrollSpec

\* So each text that it scrolls is the window that begins at its index.
THEOREM MpdWindow == Spec => []WindowShown
BY MpdScrolls, WindowCorrect, PTL

\* What the reader sees changes with the first tag that scrolls, or with the
\* whole text.
LEMMA Sights ==
    ASSUME IInv, [Next]_vars, seen' # seen
    PROVE  /\ InCall /\ fmt' = fmt /\ mpd_on_text_fits' = mpd_on_text_fits /\ seen'.song = Song
           /\ \/ seen'.who = "A" /\ seen'.at = artist_idx
              \/ seen'.who = "T" /\ seen'.at = title_idx
              \/ seen'.who = "all" /\ seen'.at = scroll_idx
<1>1. TagScrolled \/ Return
  BY DEF Next, Step, Connect, NoAnswer, Stopped, Receive, Plain, ScrollTag, ScrollAll, Scrolling,
         ServerDown, ServerUp, vars
<1>2. CASE TagScrolled
  <2>1. /\ pc = "tag" /\ fmt' = fmt /\ mpd_on_text_fits' = mpd_on_text_fits
        /\ seen' = [who |-> fmt[pos], song |-> Song,
                    at |-> IF fmt[pos] = "A" THEN artist_idx ELSE title_idx,
                    out |-> output_text, moves |-> playing]
    BY <1>2 DEF TagScrolled, Show, Song, choice
  <2>2. fmt[pos] \in {"A", "T"}
    BY <2>1 DEF IInv, Phase, Moves
  <2> QED  BY <2>1, <2>2 DEF InCall
<1>3. CASE Return
  <2>1. /\ pc = "all" /\ fmt' = fmt /\ mpd_on_text_fits' = mpd_on_text_fits
        /\ seen' = [who |-> "all", song |-> Song, at |-> scroll_idx,
                    out |-> output_text, moves |-> playing]
    BY <1>3 DEF Return, Show, Song, choice
  <2> QED  BY <2>1 DEF InCall
<1> QED  BY <1>1, <1>2, <1>3

\* A new song is shown from its beginning, for tags of every length that the
\* property speaks of.
THEOREM NewSongFromStart == Spec => FromStart
<1>1. ASSUME IInv, [Next]_vars, seen' # seen,
             seen.who = "all", seen'.who = "all", seen'.song # seen.song,
             NULL \notin {seen.song[1], seen.song[2], seen'.song[1], seen'.song[2]},
             Short(seen.song) \/ Short(seen'.song)
      PROVE  seen'.at = 0
  <2>1. InCall /\ seen'.song = Song /\ seen'.at = scroll_idx
    BY <1>1, Sights
  <2>2. seen'.song[1] = title /\ seen'.song[2] = artist
    BY <2>1 DEF Song
  <2>3. scroll_idx = 0
    BY <1>1, <2>1, <2>2 DEF IInv, Kept
  <2> QED  BY <2>1, <2>3
<1>2. IInv /\ [Next]_vars =>
        [ (/\ seen.who = "all" /\ seen'.who = "all" /\ seen'.song # seen.song
           /\ NULL \notin {seen.song[1], seen.song[2], seen'.song[1], seen'.song[2]}
           /\ Short(seen.song) \/ Short(seen'.song))
          => seen'.at = 0 ]_seen
  BY <1>1
<1> QED  BY <1>2, MpdInvariant, PTL DEF Spec, FromStart

\* Two windows of one text, the second as far on as the first was to move.
LEMMA WindowAfter ==
    ASSUME NEW text, NEW sep, NEW k \in Int, NEW n \in Nat, NEW m \in {0, 1}
    PROVE  \/ m = 1 /\ \A j \in 1 .. Len(Window(text, sep, k, n)) - 1 :
                          Window(text, sep, k + m, n)[j] = Window(text, sep, k, n)[j + 1]
           \/ m = 0 /\ Window(text, sep, k + m, n) = Window(text, sep, k, n)
<1>1. CASE m = 0
  BY <1>1
<1>2. CASE m = 1
  BY <1>2, WindowMoves
<1> QED  BY <1>1, <1>2

\* From one call to the next the text of a song moves by the one character
\* that a playing song moves, and by none while it is paused.
THEOREM SmoothScroll == Spec => Smooth
<1>1. ASSUME IInv, IInv', [Next]_vars, seen' # seen,
             seen.who # "none", seen'.who = seen.who, seen'.song = seen.song,
             seen.at + seen.moves <= IntMax, seen.who = "all" => Short(seen.song)
      PROVE  \/ seen.moves = 1 /\ Shifted
             \/ (seen.moves = 0 \/ MayRest) /\ seen'.out = seen.out
  <2> DEFINE k == seen.at
             m == seen.moves
  <2>1. /\ k \in Indexes /\ k \in Int /\ m \in {0, 1} /\ Add(k, m) = k + m
        /\ fmt \in Formats /\ Len(fmt) \in Nat /\ seen.song \in Tags(Titles) \X Tags(Artists)
        /\ seen.who \in {"A", "T", "all"}
    <3>1. k \in Indexes /\ m \in {0, 1}
      BY <1>1 DEF IInv, MpdTypes
    <3>2. k \in Int
      BY <3>1, Consts DEF Indexes
    <3>3. Add(k, m) = k + m
      BY <1>1, <3>1, AddType
    <3> QED  BY <1>1, <3>1, <3>2, <3>3, Consts DEF IInv, MpdTypes
  <2>2. /\ InCall /\ fmt' = fmt /\ mpd_on_text_fits' = mpd_on_text_fits
        /\ Song = seen.song
        /\ \/ seen'.who = "A" /\ seen'.at = artist_idx
           \/ seen'.who = "T" /\ seen'.at = title_idx
           \/ seen'.who = "all" /\ seen'.at = scroll_idx
    BY <1>1, Sights
  <2>3. Shown /\ Shown'
    BY <1>1 DEF IInv
  <2> HIDE DEF k, m
  <2>4. ASSUME NEW tag \in Words, seen.out = Alone(tag, k), seen'.out = Alone(tag, k + m)
        PROVE  \/ m = 1 /\ Shifted
               \/ m = 0 /\ seen'.out = seen.out
    <3>1. Len(tag) \in Nat
      BY DEF Words
    <3>2. /\ seen.out = Window(tag, <<Space>>, k, Len(tag))
          /\ seen'.out = Window(tag, <<Space>>, k + m, Len(tag))
      BY <2>4 DEF Alone
    <3>3. \/ m = 1 /\ \A j \in 1 .. Len(seen.out) - 1 : seen'.out[j] = seen.out[j + 1]
          \/ m = 0 /\ seen'.out = seen.out
      <4> DEFINE W(i) == Window(tag, <<Space>>, i, Len(tag))
      <4>1. \/ m = 1 /\ \A j \in 1 .. Len(W(k)) - 1 : W(k + m)[j] = W(k)[j + 1]
            \/ m = 0 /\ W(k + m) = W(k)
        BY <2>1, <3>1, WindowAfter
      <4>2. seen.out = W(k) /\ seen'.out = W(k + m)
        BY <3>2
      <4> HIDE DEF W
      <4> QED  BY <4>1, <4>2, Zenon
    <3> QED  BY <3>3 DEF Shifted
  <2>5. CASE seen.who = "A"
    <3>1. seen'.at = k + m /\ seen.song[2] # NULL /\ seen.song[2] \in Words
      BY <1>1, <2>1, <2>2, <2>3, <2>5, Consts DEF Shown, k, m
    <3>2. seen.out = Alone(seen.song[2], k) /\ seen'.out = Alone(seen.song[2], k + m)
      BY <1>1, <2>3, <2>5, <3>1 DEF Shown, k
    <3> QED  BY <2>4, <3>1, <3>2 DEF m
  <2>6. CASE seen.who = "T"
    <3>1. seen'.at = k + m /\ seen.song[1] # NULL /\ seen.song[1] \in Words
      BY <1>1, <2>1, <2>2, <2>3, <2>6, Consts DEF Shown, k, m
    <3>2. seen.out = Alone(seen.song[1], k) /\ seen'.out = Alone(seen.song[1], k + m)
      BY <1>1, <2>3, <2>6, <3>1 DEF Shown, k
    <3> QED  BY <2>4, <3>1, <3>2 DEF m
  <2>7. CASE seen.who = "all"
    <3>1. seen'.at = k + m
      BY <1>1, <2>1, <2>2, <2>3, <2>7 DEF Shown, k, m
    <3>2. PICK text \in Words : /\ BuiltTo(text, fmt, seen.song, Len(fmt))
                                /\ seen.out = Whole(text, k, mpd_on_text_fits)
      BY <2>3, <2>7 DEF Shown, k
    <3>3. PICK other \in Words : /\ BuiltTo(other, fmt', seen'.song, Len(fmt'))
                                 /\ seen'.out = Whole(other, seen'.at, mpd_on_text_fits')
      BY <1>1, <2>3, <2>7 DEF Shown
    <3>4. text = other
      BY <1>1, <2>1, <2>2, <3>2, <3>3, BuiltOnce
    <3>5. seen'.out = Whole(text, k + m, mpd_on_text_fits)
      BY <2>2, <3>1, <3>3, <3>4
    <3>6. CASE Len(text) <= mpd_title_length /\ mpd_on_text_fits = "NO_SCROLL"
      <4>1. seen'.out = seen.out
        BY <3>2, <3>5, <3>6 DEF Whole, First
      <4> QED  BY <2>7, <3>6, <4>1 DEF MayRest
    <3>7. CASE ~(Len(text) <= mpd_title_length /\ mpd_on_text_fits = "NO_SCROLL")
      <4>1. /\ seen.out = Window(text, Between(text, mpd_on_text_fits), k, mpd_title_length)
            /\ seen'.out = Window(text, Between(text, mpd_on_text_fits), k + m, mpd_title_length)
        BY <3>2, <3>5, <3>7 DEF Whole, First
      <4> DEFINE W(i) == Window(text, Between(text, mpd_on_text_fits), i, mpd_title_length)
      <4>2. \/ m = 1 /\ \A j \in 1 .. Len(W(k)) - 1 : W(k + m)[j] = W(k)[j + 1]
            \/ m = 0 /\ W(k + m) = W(k)
        BY <2>1, WindowAfter, Consts
      <4>3. seen.out = W(k) /\ seen'.out = W(k + m)
        BY <4>1
      <4> HIDE DEF W
      <4>4. \/ m = 1 /\ \A j \in 1 .. Len(seen.out) - 1 : seen'.out[j] = seen.out[j + 1]
            \/ m = 0 /\ seen'.out = seen.out
        BY <4>2, <4>3, Zenon
      <4> QED  BY <4>4 DEF Shifted, m
    <3> QED  BY <3>6, <3>7
  <2> QED  BY <2>1, <2>5, <2>6, <2>7
<1>2. IInv /\ IInv' /\ [Next]_vars =>
        [ (/\ seen.who # "none" /\ seen'.who = seen.who /\ seen'.song = seen.song
           /\ seen.at + seen.moves <= IntMax
           /\ seen.who = "all" => Short(seen.song))
          => \/ seen.moves = 1 /\ Shifted
             \/ (seen.moves = 0 \/ MayRest) /\ seen'.out = seen.out ]_seen
  BY <1>1
<1> QED  BY <1>2, MpdInvariant, PTL DEF Spec, Smooth
=============================================================================
