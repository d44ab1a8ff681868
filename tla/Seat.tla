--------------------------------- MODULE Seat ---------------------------------
(***************************************************************************)
(* The pointer and the touch screen of the seat of the Wayland driver      *)
(* (src/video/wayland/sdlop_wayland.c), with the windows they point at     *)
(* (src/SDL_video.c) and relative mouse mode (src/SDL_mouse.c): which      *)
(* window has the pointer, for which one the pointer is locked, and which  *)
(* fingers are down.                                                       *)
(*                                                                         *)
(* A window is its address: an address that was freed can be handed out    *)
(* again.  The surface of a destroyed window is Gone: events that still    *)
(* carry it are delivered with a null surface.  Events are delivered when  *)
(* the compositor may send them, and what it sent before it saw a request  *)
(* is among that.  Positions and cursors are left out.                     *)
(***************************************************************************)
EXTENDS Integers, FiniteSets

CONSTANTS
  Windows,
  Fingers, \* ids the compositor gives to touch points
  Slots,   \* the length of wl_data.fingers
  None, Gone

ASSUME SeatAssumption ==
  /\ None \notin Windows /\ Gone \notin Windows \cup {None}
  /\ Slots \in Nat \ {0}

VARIABLES
  windows,              \* sdlop.windows
  pointer,              \* wl_data.pointer is there
  pointer_focus,        \* wl_data.pointer_focus
  mouse_focus,          \* sdlop.mouse_focus
  focus_flag,           \* windows with SDL_WINDOW_MOUSE_FOCUS
  constraints,          \* the compositor has both protocols of the pointer lock
  relative_mode_window,
  relative_flag,        \* windows with SDL_WINDOW_MOUSE_RELATIVE_MODE
  relative_lock_window,
  locked_pointer,       \* wl_data.locked_pointer: "none", "asked", "locked"
  relative_pointer,     \* wl_data.relative_pointer is there
  rel_acc,              \* rel_x_acc or rel_y_acc is not 0
  touch,                \* wl_data.touch is there
  fingers,              \* ids of the active slots of wl_data.fingers
  touch_focus,
  on,                   \* the surface the compositor says the pointer is on
  under,                \* the surface the compositor says each finger is on
  inside,               \* history: windows told MOUSE_ENTER and not MOUSE_LEAVE
  told,                 \* history: window of the last FINGER_DOWN of each finger
                        \* that was not followed by FINGER_UP or FINGER_CANCELED
  pointer_lost,         \* history: the pointer went away while on a window
  touch_lost            \* history: the touch screen went away with fingers down,
                        \* or a cancel came while one of them had no slot

lockVars == <<relative_lock_window, locked_pointer, relative_pointer, rel_acc>>
modeVars == <<relative_mode_window, relative_flag>>
pointerVars == <<pointer, pointer_focus, mouse_focus, focus_flag, constraints, on, inside,
                 pointer_lost>>
touchVars == <<touch, fingers, touch_focus, under, told, touch_lost>>
vars == <<windows, pointerVars, modeVars, lockVars, touchVars>>

Init ==
  /\ windows = {} /\ pointer = FALSE /\ pointer_focus = None /\ mouse_focus = None
  /\ focus_flag = {} /\ constraints \in BOOLEAN
  /\ relative_mode_window = None /\ relative_flag = {} /\ relative_lock_window = None
  /\ locked_pointer = "none" /\ relative_pointer = FALSE /\ rel_acc = FALSE
  /\ touch = FALSE /\ fingers = {} /\ touch_focus = None
  /\ on = None /\ under = [f \in Fingers |-> None]
  /\ inside = {} /\ told = [f \in Fingers |-> None]
  /\ pointer_lost = FALSE /\ touch_lost = FALSE

Surfaces == windows \cup {Gone}

-----------------------------------------------------------------------------
(* The pointer lock. *)

\* wayland_release_pointer_lock
ReleaseLock ==
  /\ locked_pointer' = "none"
  /\ relative_pointer' = FALSE
  /\ rel_acc' = FALSE

\* wayland_arm_pointer_lock fails without a pointer and without the protocols.
CanArm == pointer /\ constraints

\* ... and else makes a new lock, for this window alone.
ArmLock(w) ==
  /\ locked_pointer' = "asked"
  /\ relative_pointer' = TRUE
  /\ rel_acc' = FALSE
  /\ relative_lock_window' = w

Locked ==
  /\ locked_pointer = "asked" /\ pointer
  /\ locked_pointer' = "locked"
  /\ UNCHANGED <<windows, pointerVars, modeVars, touchVars,
                 relative_lock_window, relative_pointer, rel_acc>>

\* locked_pointer_unlocked
Unlocked ==
  /\ locked_pointer = "locked"
  /\ locked_pointer' = "none"
  /\ UNCHANGED <<windows, pointerVars, modeVars, touchVars,
                 relative_lock_window, relative_pointer, rel_acc>>

\* relative_pointer_motion
RelativeMotion ==
  /\ relative_pointer /\ pointer
  /\ rel_acc' = TRUE
  /\ UNCHANGED <<windows, pointerVars, modeVars, touchVars,
                 relative_lock_window, locked_pointer, relative_pointer>>

\* pointer_frame reports the motion and starts over.
PointerFrame ==
  /\ pointer /\ relative_pointer /\ rel_acc
  /\ rel_acc' = FALSE
  /\ UNCHANGED <<windows, pointerVars, modeVars, touchVars,
                 relative_lock_window, locked_pointer, relative_pointer>>

\* Mutant: the lock of the window stays when its mode is switched off.
DriverRelativeOffKeepsLock(w) == UNCHANGED lockVars

\* wayland_SetWindowRelativeMouseMode(w, false)
DriverRelativeOff(w) ==
  IF relative_lock_window = w
  THEN ReleaseLock /\ relative_lock_window' = None
  ELSE UNCHANGED lockVars

\* SDL_SetWindowRelativeMouseMode(w, false)
RelativeOff(w) ==
  /\ w \in windows
  /\ relative_mode_window' = IF relative_mode_window = w THEN None ELSE relative_mode_window
  /\ relative_flag' = relative_flag \ {w}
  /\ DriverRelativeOff(w)
  /\ UNCHANGED <<windows, pointerVars, touchVars>>

\* SDL_SetWindowRelativeMouseMode(w, true), undone when the driver refuses.
RelativeOn(w) ==
  /\ w \in windows
  /\ IF CanArm
     THEN /\ relative_mode_window' = w
          /\ relative_flag' = relative_flag \cup {w}
          /\ ArmLock(w)
     ELSE UNCHANGED <<modeVars, lockVars>>
  /\ UNCHANGED <<windows, pointerVars, touchVars>>

-----------------------------------------------------------------------------
(* The pointer. *)

\* Mutant: a lock the compositor took back stays taken back.
RearmNever(s) == UNCHANGED lockVars

\* pointer_enter re-arms the lock of a window in relative mode.
Rearm(s) ==
  IF s = relative_mode_window /\ locked_pointer = "none" /\ CanArm
  THEN ArmLock(s)
  ELSE UNCHANGED lockVars

PointerEnter(s) ==
  /\ pointer /\ on = None /\ s \in Surfaces
  /\ on' = s
  /\ IF s = Gone
     THEN UNCHANGED <<pointer_focus, mouse_focus, focus_flag, inside>>
     ELSE /\ pointer_focus' = s /\ mouse_focus' = s
          /\ focus_flag' = focus_flag \cup {s} /\ inside' = inside \cup {s}
  /\ Rearm(s)
  /\ UNCHANGED <<windows, modeVars, touchVars, pointer, constraints, pointer_lost>>

\* Mutant: only the driver forgets the window.
PointerLeaveDriverOnly ==
  /\ pointer /\ on # None
  /\ on' = None
  /\ pointer_focus' = None
  /\ focus_flag' = focus_flag \ {pointer_focus}
  /\ inside' = inside \ {pointer_focus}
  /\ UNCHANGED <<windows, modeVars, lockVars, touchVars, pointer, mouse_focus, constraints,
                 pointer_lost>>

PointerLeave ==
  /\ pointer /\ on # None
  /\ on' = None
  /\ pointer_focus' = None
  /\ mouse_focus' = IF mouse_focus = pointer_focus THEN None ELSE mouse_focus
  /\ focus_flag' = focus_flag \ {pointer_focus}
  /\ inside' = inside \ {pointer_focus}
  /\ UNCHANGED <<windows, modeVars, lockVars, touchVars, pointer, constraints, pointer_lost>>

-----------------------------------------------------------------------------
(* Touch. *)

\* Mutant: a finger takes a slot whether there is one or not.
TrackUnchecked(f) == fingers \cup {f}

\* The slots in use after touch_finger_track: a finger without one gets none
\* when all are taken.
Track(f) == IF Cardinality(fingers) < Slots THEN fingers \cup {f} ELSE fingers

TouchDown(f, s) ==
  /\ touch /\ under[f] = None /\ s \in Surfaces
  /\ under' = [under EXCEPT ![f] = s]
  /\ IF s = Gone
     THEN UNCHANGED <<fingers, touch_focus, told>>
     ELSE /\ fingers' = Track(f)
          /\ touch_focus' = s
          /\ told' = [told EXCEPT ![f] = s]
  /\ UNCHANGED <<windows, pointerVars, modeVars, lockVars, touch, touch_lost>>

\* The motion is reported for touch_focus, whichever finger it is.  The width
\* and height of a window that was freed may read as 0, and then it is not.
TouchMotion(f) ==
  /\ touch /\ under[f] # None /\ touch_focus # None
  /\ \/ fingers' = Track(f)
     \/ touch_focus \notin windows /\ UNCHANGED fingers
  /\ UNCHANGED <<windows, pointerVars, modeVars, lockVars,
                 touch, touch_focus, under, told, touch_lost>>

TouchUp(f) ==
  /\ touch /\ under[f] # None
  /\ under' = [under EXCEPT ![f] = None]
  /\ fingers' = fingers \ {f}
  /\ told' = [told EXCEPT ![f] = None]
  /\ UNCHANGED <<windows, pointerVars, modeVars, lockVars, touch, touch_focus, touch_lost>>

\* Mutant: only the fingers on the window touched last are canceled.
TouchCancelFocus ==
  /\ touch /\ \E f \in Fingers : under[f] # None
  /\ under' = [f \in Fingers |-> None]
  /\ fingers' = {f \in fingers : told[f] # touch_focus}
  /\ told' = [f \in Fingers |-> IF told[f] = touch_focus THEN None ELSE told[f]]
  /\ UNCHANGED <<windows, pointerVars, modeVars, lockVars, touch, touch_focus, touch_lost>>

TouchCancel ==
  /\ touch /\ \E f \in Fingers : under[f] # None
  /\ under' = [f \in Fingers |-> None]
  /\ fingers' = {}
  /\ told' = [f \in Fingers |-> IF f \in fingers THEN None ELSE told[f]]
  /\ touch_lost' = (touch_lost \/ \E f \in Fingers \ fingers : told[f] # None)
  /\ UNCHANGED <<windows, pointerVars, modeVars, lockVars, touch, touch_focus>>

-----------------------------------------------------------------------------
(* Windows and capabilities. *)

\* SDL_CreateWindow; the flags of the new window are clear.
CreateWindow(w) ==
  /\ w \notin windows
  /\ windows' = windows \cup {w}
  /\ UNCHANGED <<pointerVars, modeVars, lockVars, touchVars>>

\* Mutant: the pointer focus is left to the leave event.
DriverDestroysUnfocused(w) ==
  /\ UNCHANGED pointer_focus
  /\ DriverRelativeOff(w)

\* wayland_DestroyWindow
DriverDestroys(w) ==
  /\ pointer_focus' = IF pointer_focus = w THEN None ELSE pointer_focus
  /\ DriverRelativeOff(w)

\* SDLOP_RemoveWindow; the flags are freed with the window.
RemoveWindow(w) ==
  /\ windows' = windows \ {w}
  /\ mouse_focus' = IF mouse_focus = w THEN None ELSE mouse_focus
  /\ relative_mode_window' = IF relative_mode_window = w THEN None ELSE relative_mode_window
  /\ focus_flag' = focus_flag \ {w} /\ relative_flag' = relative_flag \ {w}

DestroyWindow(w) ==
  /\ w \in windows
  /\ DriverDestroys(w)
  /\ RemoveWindow(w)
  /\ on' = IF on = w THEN Gone ELSE on
  /\ under' = [f \in Fingers |-> IF under[f] = w THEN Gone ELSE under[f]]
  /\ inside' = inside \ {w}
  /\ told' = [f \in Fingers |-> IF told[f] = w THEN None ELSE told[f]]
  /\ UNCHANGED <<pointer, constraints, pointer_lost, touch, fingers, touch_focus, touch_lost>>

\* The compositor sees that a surface is gone, and no event about it follows.
SurfaceGone ==
  /\ on = Gone \/ \E f \in Fingers : under[f] = Gone
  /\ on' = IF on = Gone THEN None ELSE on
  /\ under' = [f \in Fingers |-> IF under[f] = Gone THEN None ELSE under[f]]
  /\ UNCHANGED <<windows, modeVars, lockVars, pointer, pointer_focus, mouse_focus, focus_flag,
                 constraints, inside, pointer_lost, touch, fingers, touch_focus, told,
                 touch_lost>>

\* seat_capabilities: a device comes...
PointerAdded ==
  /\ ~pointer
  /\ pointer' = TRUE
  /\ UNCHANGED <<windows, modeVars, lockVars, touchVars, pointer_focus, mouse_focus, focus_flag,
                 constraints, on, inside, pointer_lost>>

TouchAdded ==
  /\ ~touch
  /\ touch' = TRUE
  /\ UNCHANGED <<windows, pointerVars, modeVars, lockVars, fingers, touch_focus, under, told,
                 touch_lost>>

\* ... or goes, and nothing it was doing is ended.
PointerRemoved ==
  /\ pointer
  /\ pointer' = FALSE
  /\ on' = None
  /\ pointer_lost' = (pointer_lost \/ pointer_focus # None)
  /\ UNCHANGED <<windows, modeVars, lockVars, touchVars, pointer_focus, mouse_focus, focus_flag,
                 constraints, inside>>

TouchRemoved ==
  /\ touch
  /\ touch' = FALSE
  /\ under' = [f \in Fingers |-> None]
  /\ touch_lost' = (touch_lost \/ \E f \in Fingers : told[f] # None)
  /\ UNCHANGED <<windows, pointerVars, modeVars, lockVars, fingers, touch_focus, told>>

-----------------------------------------------------------------------------
Window ==
  \E w \in Windows : CreateWindow(w) \/ DestroyWindow(w) \/ RelativeOn(w) \/ RelativeOff(w)

Pointer ==
  \/ \E s \in Windows \cup {Gone} : PointerEnter(s)
  \/ PointerLeave \/ PointerFrame
  \/ Locked \/ Unlocked \/ RelativeMotion

Touch ==
  \/ \E f \in Fingers : TouchMotion(f) \/ TouchUp(f)
  \/ \E f \in Fingers, s \in Windows \cup {Gone} : TouchDown(f, s)
  \/ TouchCancel

Seat == PointerAdded \/ PointerRemoved \/ TouchAdded \/ TouchRemoved \/ SurfaceGone

Next == Window \/ Pointer \/ Touch \/ Seat

Spec == Init /\ [][Next]_vars

-----------------------------------------------------------------------------
TypeOK ==
  /\ windows \subseteq Windows
  /\ pointer_focus \in Windows \cup {None} /\ mouse_focus \in Windows \cup {None}
  /\ relative_mode_window \in Windows \cup {None}
  /\ relative_lock_window \in Windows \cup {None} /\ touch_focus \in Windows \cup {None}
  /\ pointer \in BOOLEAN /\ constraints \in BOOLEAN /\ touch \in BOOLEAN
  /\ relative_pointer \in BOOLEAN /\ rel_acc \in BOOLEAN
  /\ pointer_lost \in BOOLEAN /\ touch_lost \in BOOLEAN
  /\ focus_flag \subseteq windows /\ relative_flag \subseteq windows /\ inside \subseteq windows
  /\ locked_pointer \in {"none", "asked", "locked"}
  /\ on \in Windows \cup {None, Gone}
  /\ fingers \subseteq Fingers /\ Cardinality(fingers) <= Slots
  /\ under \in [Fingers -> Windows \cup {None, Gone}]
  /\ told \in [Fingers -> Windows \cup {None}]

(* A window that was destroyed, even with the pointer on it, locked to it or *)
(* on its way to or from it, is no longer named by the pointer focus, the    *)
(* mouse focus, relative mode or the lock: no handler that runs later finds  *)
(* freed memory there.  (touch_focus is not among them: see the README.)     *)
FocusLives ==
  {pointer_focus, mouse_focus, relative_mode_window, relative_lock_window}
    \subseteq windows \cup {None}

(* The pointer is locked for the window that is in relative mode, and no     *)
(* lock object nor motion gathered under a lock outlives the mode: however   *)
(* the mode moves between windows, is refused, ends, or the compositor takes *)
(* the lock back and a later enter takes it again.                           *)
LockFollowsMode ==
  /\ relative_lock_window = relative_mode_window
  /\ relative_mode_window \in relative_flag \cup {None}
  /\ relative_lock_window = None => locked_pointer = "none" /\ ~relative_pointer /\ ~rel_acc

(* MOUSE_ENTER and MOUSE_LEAVE pair up: what the application was told is     *)
(* where the compositor says the pointer is, also when a window goes under   *)
(* the pointer.  A seat that loses its pointer is excused: no MOUSE_LEAVE is *)
(* sent then.                                                                *)
EnterLeave ==
  /\ mouse_focus = pointer_focus
  /\ ~pointer_lost => inside = {on} \ {None, Gone} /\ inside = {pointer_focus} \ {None}

(* src/video/wayland/sdlop_wayland.c:1582: the lock is re-armed on the next  *)
(* pointer enter while mode is on.                                           *)
RearmedOnEnter ==
  [][\A w \in Windows :
       PointerEnter(w) /\ relative_mode_window = w => locked_pointer' # "none"]_vars

(* A finger the application was told is down is on the screen: every         *)
(* FINGER_DOWN is ended by the up or the cancel of its finger, with several  *)
(* fingers on several windows.  Excused are a touch screen that goes away    *)
(* and a cancel of a finger that had found no slot.                          *)
NoStuckFinger == \A f \in Fingers : told[f] # None /\ ~touch_lost => under[f] = told[f]

(* include/SDL3/SDL_events.h:294: the window of a finger event is the window *)
(* underneath the finger, if any.                                            *)
WindowUnderFinger ==
  [][\A f \in Fingers : TouchMotion(f) /\ under[f] \in windows => touch_focus = under[f]]_vars

(* include/SDL3/SDL_mouse.h:65: while the mode is enabled, which is what     *)
(* SDL_GetWindowRelativeMouseMode tells from the flag, the cursor is hidden  *)
(* and motion is relative; the driver does so for relative_mode_window only. *)
FlagMeansMode == relative_flag \subseteq {relative_mode_window}

(* No window a finger event is reported for was destroyed.                   *)
TouchFocusLives ==
  [][\A f \in Fingers : TouchMotion(f) \/ TouchUp(f) => touch_focus \in windows \cup {None}]_vars

(* Fingers and flags are those of a table of bounded size and of live        *)
(* windows, and nothing the pointer has names a window that is gone.         *)
FocusSound == TypeOK /\ FocusLives
=============================================================================
