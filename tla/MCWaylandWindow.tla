---------------------------- MODULE MCWaylandWindow ----------------------------
(* The window for TLC: two sizes, so that a configure or a call can change   *)
(* the size and change it back.  The client may be a whole configure, and    *)
(* two requests, behind the compositor, or two configures in the runs that   *)
(* check an invariant only.                                                  *)
EXTENDS WaylandWindow
=============================================================================
