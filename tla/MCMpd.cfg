SPECIFICATION FairSpec
CONSTANTS
    Char = {"x", "y", "z", "-", " "}
    Space = " "
    NULL = NULL
    Formats <- MCFormats
    Titles <- MCTitles
    Artists <- MCArtists
    mpd_title_length = 2
    mpd_loop_text <- MCLoop
    FitsOptions = {"NO_SCROLL", "FULL_SPACE_SEPARATOR", "FORCE_SCROLL"}
    PrevSize = 2
    TitleSize = 4
    IntMax = 3
INVARIANTS
    TypeOK
    WindowShown
PROPERTIES
    Smooth
    FromStart
    Reconnects
