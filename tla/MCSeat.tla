-------------------------------- MODULE MCSeat --------------------------------
(* The seat for TLC.  Two windows, so that focus, mode, lock and fingers can *)
(* move from one to another and a freed address can come back; three fingers *)
(* for two slots, so that several are tracked and the table overflows.  The  *)
(* fingers are interchangeable, and so are the windows.                      *)
EXTENDS Seat, TLC

Symmetry == Permutations(Windows) \cup Permutations(Fingers)
=============================================================================
