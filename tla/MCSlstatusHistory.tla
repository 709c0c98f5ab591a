------------------------- MODULE MCSlstatusHistory --------------------------
(* The observed main loop, with the configurations of MCSlstatus.            *)
EXTENDS SlstatusHistory, MCSlstatus
=============================================================================
