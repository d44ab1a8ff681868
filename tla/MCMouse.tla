-------------------------------- MODULE MCMouse --------------------------------
(* The mouse for TLC: a window of two positions and one of three, so that    *)
(* the pointer can come from a larger window, reach both edges and move      *)
(* between them.                                                             *)
EXTENDS Mouse
CONSTANTS small, large
MCWidth == [w \in {small, large} |-> IF w = small THEN 2 ELSE 3]
=============================================================================
