------------------------------ MODULE MCVolume ------------------------------
(* A mute switch and two levels, of different scales.                        *)
EXTENDS Volume

MCControls == {Absent}
    \cup [type : {"mute"}, maxval : {1}, val : 0 .. 1]
    \cup [type : {"level"}, maxval : {2}, val : {0, 1}]
    \cup [type : {"level"}, maxval : {3}, val : {1}]
=============================================================================
