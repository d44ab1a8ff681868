------------------------------ MODULE MCSpscRing ------------------------------
(* The ring for TLC: two slots, two distinguishable elements, five pushes,   *)
(* so that the producer laps the ring twice and finds it full.               *)
EXTENDS SpscRing
=============================================================================
