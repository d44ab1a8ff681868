----------------------------- MODULE MCEventQueue -----------------------------
(* The event queue for TLC.  Three slots are the fewest in which a flush can *)
(* drop one event and move two; the counters wrap after two laps; strings    *)
(* have 0, 1 or 2 bytes, and 2 bytes do not fit with their final zero.       *)
EXTENDS EventQueue
=============================================================================
