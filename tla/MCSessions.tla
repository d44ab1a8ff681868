------------------------------ MODULE MCSessions ------------------------------
(***************************************************************************)
(* The instance TLC checks of what a session opens, makes and must give    *)
(* back.  The parts below share no variable that another one changes, so   *)
(* each is explored by itself: part says which one a behaviour is of.      *)
(***************************************************************************)
EXTENDS RawDevices, Keymap, Libraries, Registry, Windows, Surfaces, TLC

VARIABLE part

notDevices == <<keymapVars, librariesVars, registryVars, windowsVars, surfaceVars>>
notKeymap == <<deviceVars, librariesVars, registryVars, windowsVars, surfaceVars>>
notLibraries == <<deviceVars, keymapVars, registryVars, windowsVars, surfaceVars>>
notRegistry == <<deviceVars, keymapVars, librariesVars, windowsVars, surfaceVars>>
notWindows == <<deviceVars, keymapVars, librariesVars, registryVars, surfaceVars>>
notSurface == <<deviceVars, keymapVars, librariesVars, registryVars, windowsVars>>

Init == /\ part \in {"devices", "callbacks", "keymap", "libraries", "outputs", "seat",
                     "states", "extents", "ids", "types", "surface"}
        /\ DevicesInit /\ KeymapInit /\ LibrariesInit /\ RegistryInit
        /\ WindowsInit /\ SurfaceInit

\* A worker with one keyboard, and everything an application can register.
CallbackSteps ==
  \/ StartInit(3, TRUE) \/ OpenDevice({"keyboard"}, "added") \/ NoDevices \/ StartWorker
  \/ CallbacksNext

\* One window through every change it can go through, its states and its size and
\* position apart; the ids and the focus of
\* several, which do not depend on what each is like; and user events, which
\* depend on no window.
Views ==
  \/ made = 0 /\ \E w \in Extents, hidden, fullscreen \in BOOLEAN : CreateWindow(w, hidden, fullscreen)
  \/ LifeNext \/ ChangeNext \/ InitSubSystem({"video"}, TRUE)
Ids ==
  \/ \E hidden \in BOOLEAN : CreateWindow(0, hidden, FALSE)
  \/ LifeNext \/ InitSubSystem({"video"}, TRUE) \/ QuitSubSystem({"video"}) \/ Quit
\* A surface is given back once its arithmetic has overflowed, as nothing is said
\* of it any more; and one that is painted is not filled so that it overflows.
Painting ==
  \/ ~overflowed /\ MakeNext
  \/ DestroySurface
  \/ \E x, y \in Corners, n, m \in Edges, c \in Colors :
       /\ ~overflowed
       /\ (IsInt(x + n) /\ IsInt(y + m)) \/ \A p \in Cells : image[p] = Unpainted
       /\ FillSurfaceRect(x, y, n, m, c)
Types == SessionNext \/ \E n \in 1..UserTypes : RegisterEvents(n)

Next ==
  /\ UNCHANGED part
  /\ \/ part = "devices" /\ DevicesNext /\ UNCHANGED notDevices
     \/ part = "callbacks" /\ CallbackSteps /\ UNCHANGED notDevices
     \/ part = "keymap" /\ KeymapNext /\ UNCHANGED notKeymap
     \/ part = "libraries" /\ LibrariesNext /\ UNCHANGED notLibraries
     \/ part = "outputs" /\ (ConnectionNext \/ OutputsNext) /\ UNCHANGED notRegistry
     \/ part = "seat" /\ (ConnectionNext \/ SeatNext) /\ UNCHANGED notRegistry
     \/ /\ part = "states" /\ Views /\ \A o \in Objects : win'[o].view.w = 0 /\ win'[o].view.x = 0
        /\ UNCHANGED notWindows
     \/ /\ part = "extents" /\ Views
        /\ \A o \in Objects : ~win'[o].view.minimized /\ ~win'[o].view.maximized
        /\ UNCHANGED notWindows
     \/ part = "ids" /\ Ids /\ UNCHANGED notWindows
     \/ part = "types" /\ Types /\ UNCHANGED notWindows
     \/ part = "surface" /\ Painting /\ UNCHANGED notSurface

Spec == Init /\ [][Next]_<<part, deviceVars, notDevices>>

\* Evdev codes of the A, Q, 1 and print screen keys, of another print screen
\* key, of none, and of the keypad's 1.
MCEvdev == <<4, 20, 30, 70, 70, 0, 89>>

\* The symbols of those keys: an American, a French and a Russian layout.
MCLayouts ==
  [us |-> (1 :> <<97, 65>>) @@ (2 :> <<113, 81>>) @@ (3 :> <<49, 33>>)
          @@ (4 :> <<\hff61, \hff61>>) @@ (7 :> <<\hff9c, \hffb1>>),
   fr |-> (1 :> <<113, 81>>) @@ (2 :> <<97, 65>>) @@ (3 :> <<38, 49>>)
          @@ (4 :> <<\hff61, \hff61>>) @@ (7 :> <<\hff9c, \hffb1>>),
   ru |-> (1 :> <<\h6c6, \h6e6>>) @@ (2 :> <<\h6ca, \h6ea>>) @@ (3 :> <<49, 33>>)
          @@ (5 :> <<\hff61, \hff61>>) @@ (7 :> <<\hff9c, \hffb1>>)]

\* They are layouts of the kind the theorem on key codes is about.
ASSUME MCLayoutsUsual == LayoutsUsual

MCCorners == {-1, 0, 1}
MCEdges == {-16, 1, 15}
MCSymmetry == Permutations(Callbacks)
===============================================================================
