SPECIFICATION Spec
CONSTANTS
    Char = {"x", "y", "z", "-", " "}
    Space = " "
    NULL = NULL
    Formats <- MCFormats
    Titles <- MCTitles
    Artists <- MCArtists
    mpd_title_length = 2
    mpd_loop_text <- MCLoop
    FitsOptions = {"NO_SCROLL"}
    PrevSize = 2
    TitleSize = 4
    IntMax = 3
PROPERTIES
    ResetOnNewSong
