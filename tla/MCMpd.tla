------------------------------- MODULE MCMpd -------------------------------
(* A small music player: titles longer and shorter than the window, one that *)
(* fills prev_title, songs without a title or an artist.                     *)
EXTENDS Mpd

MCFormats == {<<"a", "t">>, <<"A", "T">>}
MCTitles  == {<<"x">>, <<"x", "y">>, <<"x", "y", "z">>, NULL}
MCArtists == {<<"y">>, NULL}
MCLoop    == <<"-">>
=============================================================================
