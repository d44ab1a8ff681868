------------------------------ MODULE MCGLContexts ------------------------------
(* OpenGL contexts for TLC: addresses are interchangeable. *)
EXTENDS GLContexts, TLC
Symmetry == Permutations(Windows) \cup Permutations(Contexts)
=============================================================================
