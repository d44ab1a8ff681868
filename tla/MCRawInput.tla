------------------------------ MODULE MCRawInput ------------------------------
(* The raw input worker and the waiting main thread for TLC.  Two devices    *)
(* share the rings; the poll ring of one slot overflows within one batch of  *)
(* two, and the SDL ring of two slots when both devices are read before the  *)
(* main thread drains it.                                                    *)
EXTENDS RawInput
=============================================================================
