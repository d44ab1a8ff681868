------------------------------ MODULE MCKeyboard ------------------------------
(* The keyboard for TLC: the two shift keys, which are alike, and one that   *)
(* repeats.                                                                  *)
EXTENDS Keyboard, TLC
CONSTANTS lshift, rshift, a, shift
MCKeys == {lshift, rshift, a}
MCGroup == [m \in {lshift, rshift} |-> shift]
Shifts == Permutations({lshift, rshift})
=============================================================================
