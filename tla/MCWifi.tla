------------------------------- MODULE MCWifi -------------------------------
(* Two networks, one strong and one weaker than the scale reaches.           *)
EXTENDS Wifi

MCRssi == [n \in Networks |-> IF n = "home" THEN -60 ELSE -110]
=============================================================================
