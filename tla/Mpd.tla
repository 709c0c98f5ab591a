-------------------------------- MODULE Mpd --------------------------------
(* mpdonair of src/components/mpd.c: the connection to the music player,     *)
(* which is kept between calls, and the indexes that make the title scroll.  *)
(* Every call of scroll_text goes through the steps of ScrollText.  The      *)
(* server may come and go, and its state and song change at any time.        *)
EXTENDS ScrollText

CONSTANTS
    Formats,        \* arguments of the module
    Titles, Artists, \* tags of songs, NULL where a song has none
    mpd_title_length, mpd_loop_text, FitsOptions, \* the configuration
    PrevSize,       \* sizeof(prev_title), 255
    TitleSize,      \* sizeof(titlebuffer), 256
    IntMax          \* INT_MAX

ASSUME FormatAssumption == Formats \subseteq Seq({"a", "A", "t", "T"} \cup Char)
ASSUME TagAssumption == Titles \cup Artists \subseteq Seq(Char) \cup {NULL}
ASSUME ConnAssumption == NULL \notin {"up", "dead"}
ASSUME LengthAssumption == mpd_title_length \in Nat
ASSUME LoopTextAssumption == mpd_loop_text \in Seq(Char)
ASSUME FitsAssumption == FitsOptions \subseteq Fits
ASSUME SizeAssumption == PrevSize \in Nat \ {0} /\ TitleSize \in Nat \ {0} /\ IntMax \in Nat \ {0}

VARIABLES
    fmt, mpd_on_text_fits, \* one choice of both, which then stays
    server,     \* whether the music player can be reached
    conn,       \* the connection kept between calls
    pc,         \* where mpdonair is
    pos,        \* the character of fmt it is at
    playing,    \* scroll, before anything has used it up
    scroll,     \* how far the next scrolled text moves on
    title, artist,
    titlebuffer,
    scroll_idx, artist_idx, title_idx,
    prev_title, prev_artist,
    seen        \* ghost: the scrolling text as it was last shown

call == <<pos, playing, scroll, title, artist, titlebuffer>>
static == <<scroll_idx, artist_idx, title_idx, prev_title, prev_artist>>
choice == <<fmt, mpd_on_text_fits>>
vars == <<svars, choice, server, conn, pc, call, static, seen>>

-----------------------------------------------------------------------------
\* ++ of an int: the build wraps around.
Add(k, n) == IF k + n > IntMax THEN k + n - 2 * (IntMax + 1) ELSE k + n

Cut(text, n) == IF Len(text) <= n THEN text ELSE SubSeq(text, 1, n)
Cat(text, more) == Cut(text \o more, TitleSize - 1)    \* strlcat

\* Whether strcmp finds the tag changed.  A tag that fills prev_title leaves it
\* without a terminator: what follows it in memory decides, and for a longer
\* tag, it does not happen to be the rest of it.
Changed(tag, prev) ==
    IF tag = NULL THEN {FALSE}
    ELSE CASE Len(tag) < PrevSize -> {tag # prev}
           [] Len(tag) = PrevSize -> IF tag = prev THEN BOOLEAN ELSE {TRUE}
           [] Len(tag) > PrevSize -> {TRUE}

\* Mutant of Remember: the tag is compared but not kept.
RememberNot(tag, prev) == prev

Remember(tag, prev) == IF tag = NULL THEN prev ELSE Cut(tag, PrevSize)

NothingSeen == [who |-> "none", song |-> <<NULL, NULL>>, at |-> 0, out |-> <<>>, moves |-> 0]

Init ==
    /\ Idle
    /\ fmt \in Formats /\ mpd_on_text_fits \in FitsOptions
    /\ server \in BOOLEAN /\ conn = NULL
    /\ pc = "idle" /\ pos = 1 /\ playing = 0 /\ scroll = 0
    /\ title = NULL /\ artist = NULL /\ titlebuffer = <<>>
    /\ scroll_idx = 0 /\ artist_idx = 0 /\ title_idx = 0
    /\ prev_title = <<>> /\ prev_artist = <<>>
    /\ seen = NothingSeen

\* if (conn == NULL) conn = mpd_connection_new(...), which does not say
\* whether the server answers; then the status is asked for.
Connect ==
    /\ pc = "idle"
    /\ pc' = "status"
    /\ conn' = IF conn = NULL THEN (IF server THEN "up" ELSE "dead") ELSE conn
    /\ UNCHANGED <<svars, choice, server, call, static, seen>>

\* Mutant of NoAnswer: the connection is not forgotten.
NoAnswerKeeps ==
    /\ pc = "status"
    /\ pc' = "idle"
    /\ UNCHANGED <<svars, choice, server, conn, call, static, seen>>

\* mpdout: no status, no current song or an unknown state.
NoAnswer ==
    /\ pc = "status"
    /\ pc' = "idle"
    /\ conn' = NULL
    /\ UNCHANGED <<svars, choice, server, call, static, seen>>

\* MPD_STATE_STOP: only the icon is shown.
Stopped ==
    /\ pc = "status" /\ conn = "up"
    /\ pc' = "idle"
    /\ UNCHANGED <<svars, choice, server, conn, call, static, seen>>

\* Mutants of Receive: a changed title does not reset the index, and a paused
\* song scrolls.
ReceiveArtistOnly(t, a, play) ==
    /\ pc = "status" /\ conn = "up"
    /\ pc' = "fmt" /\ pos' = 1 /\ titlebuffer' = <<>>
    /\ title' = t /\ artist' = a
    /\ playing' = play /\ scroll' = play
    /\ \E reset \in Changed(a, prev_artist) : scroll_idx' = IF reset THEN 0 ELSE scroll_idx
    /\ prev_title' = Remember(t, prev_title)
    /\ prev_artist' = Remember(a, prev_artist)
    /\ UNCHANGED <<svars, choice, server, conn, artist_idx, title_idx, seen>>
ReceiveScrolls(t, a, play) ==
    /\ pc = "status" /\ conn = "up"
    /\ pc' = "fmt" /\ pos' = 1 /\ titlebuffer' = <<>>
    /\ title' = t /\ artist' = a
    /\ playing' = play /\ scroll' = 1
    /\ \E rt \in Changed(t, prev_title), ra \in Changed(a, prev_artist) :
          scroll_idx' = IF rt \/ ra THEN 0 ELSE scroll_idx
    /\ prev_title' = Remember(t, prev_title)
    /\ prev_artist' = Remember(a, prev_artist)
    /\ UNCHANGED <<svars, choice, server, conn, artist_idx, title_idx, seen>>

\* A song that is played (play = 1) or paused, with its tags.
Receive(t, a, play) ==
    /\ pc = "status" /\ conn = "up"
    /\ pc' = "fmt" /\ pos' = 1 /\ titlebuffer' = <<>>
    /\ title' = t /\ artist' = a
    /\ playing' = play /\ scroll' = play
    /\ \E rt \in Changed(t, prev_title), ra \in Changed(a, prev_artist) :
          scroll_idx' = IF rt \/ ra THEN 0 ELSE scroll_idx
    /\ prev_title' = Remember(t, prev_title)
    /\ prev_artist' = Remember(a, prev_artist)
    /\ UNCHANGED <<svars, choice, server, conn, artist_idx, title_idx, seen>>

-----------------------------------------------------------------------------
(* The format, character by character.                                       *)

Tag(ch) == CASE ch \in {"a", "A"} -> artist [] ch \in {"t", "T"} -> title [] OTHER -> <<ch>>

\* A character that is copied, or whose tag the song does not have.
Plain ==
    /\ pc = "fmt" /\ pos <= Len(fmt)
    /\ fmt[pos] \in {"A", "T"} => Tag(fmt[pos]) = NULL
    /\ titlebuffer' = IF Tag(fmt[pos]) = NULL THEN titlebuffer ELSE Cat(titlebuffer, Tag(fmt[pos]))
    /\ pos' = pos + 1
    /\ UNCHANGED <<svars, choice, server, conn, pc, playing, scroll, title, artist, static, seen>>

\* 'A' and 'T': the tag itself scrolls.
ScrollTag ==
    /\ pc = "fmt" /\ pos <= Len(fmt)
    /\ fmt[pos] \in {"A", "T"} /\ Tag(fmt[pos]) # NULL
    /\ Call(Tag(fmt[pos]), IF fmt[pos] = "A" THEN artist_idx ELSE title_idx,
            Len(Tag(fmt[pos])), <<Space>>, "FORCE_SCROLL")
    /\ pc' = "tag"
    /\ UNCHANGED <<choice, server, conn, call, static, seen>>

\* The text that moves: the first 'A' or 'T' with a tag, or else all of it.
Moves(j) == fmt[j] \in {"A", "T"} /\ Tag(fmt[j]) # NULL

\* The reader sees it, from the index k.
Show(who, k) ==
    seen' = [who |-> who, song |-> <<title, artist>>, at |-> k, out |-> output_text, moves |-> playing]

\* The scrolled tag is appended, and has used up the scroll.
TagScrolled ==
    /\ pc = "tag" /\ state = "done"
    /\ titlebuffer' = Cat(titlebuffer, output_text)
    /\ IF fmt[pos] = "A"
       THEN artist_idx' = Add(artist_idx, scroll) /\ UNCHANGED title_idx
       ELSE title_idx' = Add(title_idx, scroll) /\ UNCHANGED artist_idx
    /\ scroll' = 0
    /\ pc' = "fmt" /\ pos' = pos + 1
    /\ IF \E j \in 1 .. pos - 1 : Moves(j)
       THEN UNCHANGED seen
       ELSE Show(fmt[pos], IF fmt[pos] = "A" THEN artist_idx ELSE title_idx)
    /\ Taken
    /\ UNCHANGED <<choice, server, conn, playing, title, artist, scroll_idx, prev_title, prev_artist>>

\* The end of fmt: the whole text scrolls.
ScrollAll ==
    /\ pc = "fmt" /\ pos > Len(fmt)
    /\ Call(titlebuffer, scroll_idx, mpd_title_length, mpd_loop_text, mpd_on_text_fits)
    /\ pc' = "all"
    /\ UNCHANGED <<choice, server, conn, call, static, seen>>

\* mpdreturn: the text is in buf.
Return ==
    /\ pc = "all" /\ state = "done"
    /\ scroll_idx' = Add(scroll_idx, scroll)
    /\ pc' = "idle"
    /\ IF \E j \in 1 .. Len(fmt) : Moves(j) THEN UNCHANGED seen ELSE Show("all", scroll_idx)
    /\ pos' = 1 /\ playing' = 0 /\ scroll' = 0
    /\ title' = NULL /\ artist' = NULL /\ titlebuffer' = <<>>
    /\ Taken
    /\ UNCHANGED <<choice, server, conn, artist_idx, title_idx, prev_title, prev_artist>>

-----------------------------------------------------------------------------
\* The steps of scroll_text, while mpdonair is in it.
Scrolling ==
    /\ pc \in {"tag", "all"}
    /\ ScrollStep
    /\ UNCHANGED <<choice, server, conn, pc, call, static, seen>>

\* The music player is stopped, which closes its connections, and started.
\* When, matters only before the call asks it.
ServerDown ==
    /\ server /\ pc \in {"idle", "status"}
    /\ server' = FALSE
    /\ conn' = IF conn = "up" THEN "dead" ELSE conn
    /\ UNCHANGED <<svars, choice, pc, call, static, seen>>

ServerUp ==
    /\ ~server /\ pc \in {"idle", "status"}
    /\ server' = TRUE
    /\ UNCHANGED <<svars, choice, conn, pc, call, static, seen>>

Step ==
    \/ Connect \/ NoAnswer \/ Stopped
    \/ \E t \in Titles, a \in Artists, play \in {0, 1} : Receive(t, a, play)
    \/ Plain \/ ScrollTag \/ TagScrolled \/ ScrollAll \/ Return
    \/ Scrolling

Next == Step \/ ServerDown \/ ServerUp

Spec == Init /\ [][Next]_vars

\* The main loop calls mpdonair again and again, and each call runs on.
FairSpec == Spec /\ WF_vars(Step)
-----------------------------------------------------------------------------
(* Properties *)

\* Types, and that scroll_text is only busy while mpdonair waits for it.
TypeOK ==
    /\ pc \in {"idle", "status", "fmt", "tag", "all"}
    /\ conn \in {NULL, "up", "dead"} /\ server \in BOOLEAN
    /\ pc = "status" => conn # NULL
    /\ (pc \in {"tag", "all"}) = (state # "idle")
    /\ pos \in 1 .. Len(fmt) + 1
    /\ scroll \in {0, playing} /\ playing \in {0, 1}
    /\ Len(titlebuffer) < TitleSize
    /\ Len(prev_title) <= PrevSize /\ Len(prev_artist) <= PrevSize
    /\ {scroll_idx, artist_idx, title_idx} \subseteq -IntMax - 1 .. IntMax

\* A tag that prev_title or prev_artist can hold with its terminator.
Short(song) == \A k \in 1 .. 2 : song[k] = NULL \/ Len(song[k]) < PrevSize

\* The whole text stands still where it fits and need not scroll.
MayRest == seen.who = "all" /\ mpd_on_text_fits = "NO_SCROLL"

Shifted == \A k \in 1 .. Len(seen.out) - 1 : seen'.out[k] = seen.out[k + 1]

\* A song that goes on scrolls smoothly (lines 86-91, 190-198, 216-244): the
\* text moves by one character for a call that found it playing, by none for
\* one that found it paused, also where the index wraps around the text.  Not
\* so where the int overflows, nor for a tag that prev_title cannot hold, for
\* which every call finds a new song.
Smooth ==
    [][ (/\ seen.who # "none" /\ seen'.who = seen.who /\ seen'.song = seen.song
         /\ seen.at + seen.moves <= IntMax
         /\ seen.who = "all" => Short(seen.song))
        => \/ seen.moves = 1 /\ Shifted
           \/ (seen.moves = 0 \/ MayRest) /\ seen'.out = seen.out ]_seen

\* A new song is shown from its beginning (line 188), if no tag of it or of the
\* song before is missing and no tag scrolls by itself, and if prev_title and
\* prev_artist can hold the tags of one of the two.  Where neither has such
\* tags, a tag that just fills prev_title may pass for the longer one before it.
FromStart ==
    [][ (/\ seen.who = "all" /\ seen'.who = "all" /\ seen'.song # seen.song
         /\ NULL \notin {seen.song[1], seen.song[2], seen'.song[1], seen'.song[2]}
         /\ Short(seen.song) \/ Short(seen'.song))
        => seen'.at = 0 ]_seen

\* The same for every song, which is what the comment of line 188 says.
ResetOnNewSong ==
    [][ seen.who # "none" /\ seen'.song # seen.song => seen'.at = 0 ]_seen

\* A player that is up again is reached again (lines 150-156, 252-256), and
\* every call returns, whatever it is that scrolls.
Reconnects == <>[]server => []<>(pc = "status" /\ conn = "up")
=============================================================================
