------------------------------ MODULE MCPacing ------------------------------
(* Pacing with two milliseconds per second and two nanoseconds per           *)
(* millisecond: every borrow of the two subtractions occurs.                 *)
EXTENDS Pacing
=============================================================================
