-------------------------------- MODULE MCWeb ---------------------------------
(***************************************************************************)
(* The instance of the web driver that TLC checks.  Its keyboard, its      *)
(* pointer and its graphics share no variable, and drawing and fullscreen  *)
(* nothing but the windows, so each is explored by itself: part says which *)
(* one a behaviour is of.  The mouse changes nothing that windows and lock *)
(* read, so it moves only over the first two canvases; a key of the keypad *)
(* is there with the keys that change what it means.  A lock that concerns *)
(* no key of its part stays off.                                           *)
(***************************************************************************)
EXTENDS WebKeyboard, WebPointer, WebGraphics, TLC

VARIABLE part

Init ==
  /\ part \in {"keys", "keypad", "windows", "mouse", "drawing", "screen"}
  /\ KeyInit /\ locks = {} /\ PointerInit /\ GraphicsInit

Next ==
  \/ part = "keys" /\ KeyNext /\ "Numpad1" \notin held' /\ Num \notin locks' /\ UNCHANGED <<part, pointerVars, graphicsVars>>
  \/ /\ part = "keypad" /\ KeyNext /\ held' \subseteq {"Numpad1", "ShiftLeft", "ControlLeft"} /\ Caps \notin locks'
     /\ UNCHANGED <<part, pointerVars, graphicsVars>>
  \/ part = "windows" /\ PointerNext /\ UNCHANGED <<part, pointer, mouse_x, keyVars, graphicsVars>>
  \/ part = "mouse" /\ PointerNext /\ next_canvas_id' < 2 /\ UNCHANGED <<part, keyVars, graphicsVars>>
  \/ part = "drawing" /\ (PaneNext \/ DrawingNext) /\ UNCHANGED <<part, keyVars, pointerVars>>
  \/ part = "screen" /\ (PaneNext \/ ScreenNext) /\ UNCHANGED <<part, keyVars, pointerVars>>

Spec == Init /\ [][Next]_<<part, keyVars, pointerVars, graphicsVars>>

MCCodes == {"KeyA", "Numpad1", "ShiftLeft", "ShiftRight", "ControlLeft", "Unidentified"}

\* Nothing tells one window from another.
MCSymmetry == Permutations(Windows) \cup Permutations(Panes)
===============================================================================
