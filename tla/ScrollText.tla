----------------------------- MODULE ScrollText -----------------------------
(* scroll_text of src/components/mpd.c: a window of num_chars characters on  *)
(* the endless repetition of a text and the loop text that separates it from *)
(* its next appearance.  A text is a sequence of user-perceived characters   *)
(* (libgrapheme finds their limits), and the two iterators of the code are   *)
(* what is left to copy and what has been copied.                            *)
EXTENDS Integers, Sequences

CONSTANTS
    Char,       \* characters
    Space,      \* the character " "
    NULL        \* the null pointer

ASSUME SpaceAssumption == Space \in Char
ASSUME NULLTextAssumption == NULL \notin Seq(Char)

Fits == {"NO_SCROLL", "FULL_SPACE_SEPARATOR", "FORCE_SCROLL"}

VARIABLES
    input_text, \* the text to scroll
    loop_text,  \* what separates its appearances
    num_chars,  \* the width of the window
    idx,        \* where the window begins
    s,          \* whether text_iter is in loop_text
    text_iter,  \* what is left of the text being copied
    output_text, \* what has been copied
    state       \* where the call is

svars == <<input_text, loop_text, num_chars, idx, s, text_iter, output_text, state>>
sargs == <<input_text, loop_text, num_chars, idx>>

-----------------------------------------------------------------------------
Spaces(n) == [k \in 1 .. n |-> Space]

\* % of C, which rounds to zero.
Rem(a, n) == IF a >= 0 THEN a % n ELSE -((-a) % n)

\* Mutant of Normalise: a negative index is turned into a positive one.
NormaliseAbs(k, total) == IF Rem(k, total) < 0 THEN -Rem(k, total) ELSE Rem(k, total)

\* idx %= total; a negative index counts from the end.
Normalise(k, total) == IF Rem(k, total) < 0 THEN Rem(k, total) + total ELSE Rem(k, total)

From(text, k) == SubSeq(text, k + 1, Len(text))

Separator(text, n, loop, fits) ==
    IF loop = NULL \/ (Len(text) <= n /\ fits # "FORCE_SCROLL") THEN Spaces(n) ELSE loop

Idle ==
    /\ state = "idle"
    /\ input_text = <<>> /\ loop_text = <<>> /\ num_chars = 0 /\ idx = 0
    /\ s = FALSE /\ text_iter = <<>> /\ output_text = <<>>

\* scroll_text(text, k, n, loop, fits), up to the copying.  Without a
\* character to show, idx %= 0 raises SIGFPE.
Call(text, k, n, loop, fits) ==
    LET sep   == Separator(text, n, loop, fits)
        total == Len(text) + Len(sep)
        first == IF Len(text) <= n /\ fits = "NO_SCROLL" THEN 0 ELSE k
        at    == Normalise(first, total)
    IN  /\ state = "idle"
        /\ input_text' = text /\ loop_text' = sep /\ num_chars' = n /\ idx' = first
        /\ output_text' = <<>>
        /\ IF total = 0
           THEN state' = "crashed" /\ UNCHANGED <<s, text_iter>>
           ELSE /\ state' = "copy"
                /\ s' = (at >= Len(text))
                /\ text_iter' = IF at >= Len(text) THEN From(sep, at - Len(text)) ELSE From(text, at)

\* One character is copied.
Copy ==
    /\ state = "copy" /\ Len(output_text) < num_chars /\ text_iter # <<>>
    /\ output_text' = Append(output_text, Head(text_iter))
    /\ text_iter' = Tail(text_iter)
    /\ UNCHANGED <<sargs, s, state>>

\* Mutant of Swap: s is not negated.
SwapOnce ==
    /\ state = "copy" /\ Len(output_text) < num_chars /\ text_iter = <<>>
    /\ text_iter' = IF s THEN input_text ELSE loop_text
    /\ UNCHANGED <<sargs, s, output_text, state>>

\* At the end of one text the other one follows.
Swap ==
    /\ state = "copy" /\ Len(output_text) < num_chars /\ text_iter = <<>>
    /\ text_iter' = IF s THEN input_text ELSE loop_text
    /\ s' = ~s
    /\ UNCHANGED <<sargs, output_text, state>>

\* The window is full: output_text is returned.
Finish ==
    /\ state = "copy" /\ Len(output_text) >= num_chars
    /\ state' = "done"
    /\ UNCHANGED <<sargs, s, text_iter, output_text>>

\* The caller has copied the text and freed it.
Taken ==
    /\ state = "done"
    /\ state' = "idle"
    /\ input_text' = <<>> /\ loop_text' = <<>> /\ num_chars' = 0 /\ idx' = 0
    /\ s' = FALSE /\ text_iter' = <<>> /\ output_text' = <<>>

ScrollStep == Copy \/ Swap \/ Finish

\* Callers of every kind, one call after another.
ScrollNext ==
    \/ \E text \in Seq(Char), k \in Int, n \in Nat, loop \in Seq(Char) \cup {NULL}, fits \in Fits :
          Call(text, k, n, loop, fits)
    \/ ScrollStep
    \/ Taken

ScrollSpec == Idle /\ [][ScrollNext]_svars
-----------------------------------------------------------------------------
\* What a window of n characters shows of the endless text, text and separator
\* in turn, from its character number k on.
Endless(text, sep, k) ==
    LET at == k % (Len(text) + Len(sep))
    IN  IF at < Len(text) THEN text[at + 1] ELSE sep[at - Len(text) + 1]

Window(text, sep, k, n) == [j \in 1 .. n |-> Endless(text, sep, k + j - 1)]

\* The copying loop (lines 102-121) yields exactly the window of num_chars
\* characters that begins at the index, wherever that lies, also a negative one.
WindowShown ==
    state = "done" => output_text = Window(input_text, loop_text, idx, num_chars)
=============================================================================
