--------------------------------- MODULE Mouse ---------------------------------
(***************************************************************************)
(* The mouse state of src/SDL_mouse.c and the two streams that feed it:    *)
(* the raw events of the evdev worker (pump_event in                       *)
(* src/internal/sdlop_evdev.c) and the pointer events of the compositor    *)
(* (src/video/wayland/sdlop_wayland.c).  Both report the same mouse, each  *)
(* with its own delay.  When the worker reads a mouse, what the compositor *)
(* says of buttons, wheel and relative motion is ignored, and what it says *)
(* of the position only corrects the position.                             *)
(*                                                                         *)
(* One axis stands for both: they do not interact.  A wl_pointer frame is  *)
(* one message, and so is a report of the device up to its SYN.  Windows   *)
(* stay as they are (Seat has them come and go), and so the window with    *)
(* the pointer is the driver's and the core's focus in one.                *)
(***************************************************************************)
EXTENDS Integers, Sequences, FiniteSets

CONSTANTS
  Width,       \* the width of each window
  Outside,     \* bound: positions reach from -Outside to Outside
  MaxUnread,   \* bound: movement the application has not asked for
  RingSize,    \* SDLOP_SDL_RING_SIZE
  WireSize,    \* bound: frames of the compositor not dispatched
  AxisPerTurn, \* what wl_pointer.axis reports for one notch of the wheel
  Value120,    \* the compositor also sends axis_value120 (wl_seat from 8 on)
  HiRes,       \* the kernel also sends REL_WHEEL_HI_RES (from Linux 5.0 on)
  None

Windows == DOMAIN Width

ASSUME MouseAssumption ==
  /\ \A w \in Windows : Width[w] \in Nat \ {0}
  /\ None \notin Windows
  /\ Outside \in Nat /\ MaxUnread \in Nat /\ WireSize \in Nat
  /\ RingSize \in Nat \ {0} /\ AxisPerTurn \in Nat
  /\ Value120 \in BOOLEAN /\ HiRes \in BOOLEAN

VARIABLES
  raw_active,           \* SDLOP_RawInputMouseActive()
  held,                 \* the button is physically down
  on, cursor,           \* the window the pointer is on, for the compositor, and where
  link,                 \* the compositor's side of relative mode: "no"; "relative":
                        \* it sends relative motion; "locked": it also holds the
                        \* pointer; "unlocked": it has taken the lock back
  ring,                 \* raw.sdl_ring
  wire,                 \* frames on their way from the compositor; win, which is not
                        \* sent but with an enter, is the window the pointer is on
  mouse_focus,
  relative_mode_window,
  mouse,                \* sdlop.mouse_x, mouse_last_x, mouse_has_position,
                        \* mouse_xrel_acc, mouse_buttons
  moved,                \* history: movement since SDL_GetRelativeMouseState was
                        \* called, as accepted by the stream in charge
  turned,               \* history: turns of the wheel accepted by that stream, less
                        \* those told, in 120ths
  astray,               \* history: relative motion was told since the last position
  inexact,              \* history: since SDL_GetRelativeMouseState was called a
                        \* movement came as position and as relative motion, or as
                        \* a position after relative motion, or was called off
  button_lost           \* history: the last change of the button was dropped

userVars == <<held, on, cursor>>
streamVars == <<ring, wire>>
modeVars == <<link, relative_mode_window>>
historyVars == <<moved, turned, astray, inexact, button_lost>>
vars == <<raw_active, userVars, streamVars, modeVars, mouse_focus, mouse, historyVars>>

Init ==
  /\ raw_active \in BOOLEAN
  /\ held = FALSE /\ on = None /\ cursor = 0 /\ link = "no"
  /\ ring = <<>> /\ wire = <<>>
  /\ mouse_focus = None /\ relative_mode_window = None
  /\ mouse = [x |-> 0, last_x |-> 0, has_position |-> FALSE, xrel_acc |-> 0, buttons |-> FALSE]
  /\ moved = 0 /\ turned = 0 /\ astray = FALSE /\ inexact = FALSE /\ button_lost = FALSE

-----------------------------------------------------------------------------
(* SDL_mouse.c, as functions of the mouse state. *)

\* Mutant: the far edge is one pixel too far.
ConstrainLate(m, focus, x) ==
  IF focus = None THEN x
  ELSE LET far == IF x <= Width[focus] THEN x ELSE Width[focus]
       IN  IF far < 0 THEN 0 ELSE far

\* constrain_mouse_pos, for the window with the mouse focus
Constrain(m, focus, x) ==
  IF focus = None THEN x
  ELSE LET x_max == Width[focus] - 1
           far == IF x < x_max + 1 THEN x ELSE IF m.last_x > x_max THEN m.last_x ELSE x_max
       IN  IF far < 0 THEN 0 ELSE far

At(m, x) == [m EXCEPT !.x = x, !.last_x = x]
Tell(m, xrel) == [m EXCEPT !.xrel_acc = @ + xrel]

\* SDLOP_SendMouseMotion without a position,
SendRelative(m, focus, xrel) ==
  Tell(IF m.has_position THEN At(m, Constrain(m, focus, m.x + xrel)) ELSE m, xrel)

\* with a position and a motion,
SendBoth(m, focus, x, xrel) ==
  Tell([At(m, Constrain(m, focus, x)) EXCEPT !.has_position = TRUE], xrel)

\* and with a position, from which the motion is derived.
SendAbsolute(m, focus, x) ==
  IF ~m.has_position THEN SendBoth(m, focus, x, 0)
  ELSE IF Constrain(m, focus, x) = m.last_x THEN m
  ELSE SendBoth(m, focus, x, Constrain(m, focus, x) - m.last_x)

\* SDLOP_SendMouseButton
SendButton(m, down) == [m EXCEPT !.buttons = down]

-----------------------------------------------------------------------------
(* The user, the kernel and the compositor. *)

\* Mutant: the capacity test off by one.
FitsLate == raw_active /\ Len(ring) <= RingSize

\* What the worker pushes is dropped when the ring is full.
Fits == raw_active /\ Len(ring) < RingSize
ToRing(e) == ring' = IF Fits THEN Append(ring, e) ELSE ring

Room == Len(wire) < WireSize
ToWire(e) == wire' = IF on = None THEN wire ELSE Append(wire, e)

\* Whether the stream in charge takes what the user does.
Accepted == IF raw_active THEN Fits ELSE on # None

Frame(x, abs, d) ==
  [kind |-> "frame", win |-> on, x |-> x, abs |-> abs, rel |-> link # "no", d |-> d]

\* The mouse is moved.  The compositor moves its pointer, unless it is locked
\* or at an edge, and sends the unaccelerated motion besides.
Move(d) ==
  LET locked == link = "locked"
      to == cursor + d
  IN
  /\ {moved + d, mouse.xrel_acc + d} \subseteq -MaxUnread..MaxUnread
  /\ mouse.x + d \in -Outside..Outside
  /\ Room
  /\ on # None /\ ~locked => to \in 0..Width[on]-1
  /\ ToRing([kind |-> "rel", d |-> d])
  /\ ToWire(Frame(IF locked THEN cursor ELSE to, ~locked, d))
  /\ cursor' = IF on = None \/ locked THEN cursor ELSE to
  /\ moved' = IF Accepted THEN moved + d ELSE moved
  /\ UNCHANGED <<raw_active, held, on, modeVars, mouse_focus, mouse,
                 turned, astray, inexact, button_lost>>

\* The pointer goes from one window to another or to none, unless a button
\* or the lock keeps it.
Cross(w, x) ==
  /\ ~held /\ link # "locked" /\ w # on /\ (on # None => w = None) /\ Room
  /\ on' = w /\ cursor' = x
  /\ wire' = Append(wire, IF w = None THEN [kind |-> "leave", win |-> None]
                          ELSE [kind |-> "enter", win |-> w, x |-> x,
                                unlocked |-> link = "unlocked"])
  /\ UNCHANGED <<raw_active, held, ring, modeVars, mouse_focus, mouse, historyVars>>

Press ==
  /\ Room
  /\ held' = ~held
  /\ ToRing([kind |-> "button", down |-> ~held])
  /\ ToWire([kind |-> "button", win |-> on, down |-> ~held])
  /\ button_lost' = (raw_active /\ ~Fits)
  /\ UNCHANGED <<raw_active, on, cursor, modeVars, mouse_focus, mouse,
                 moved, turned, astray, inexact>>

\* One notch of the wheel; 1 is away from the user.
Turn(d) ==
  /\ Room
  /\ ToRing([kind |-> "wheel", d |-> d])
  /\ ToWire([kind |-> "axis", win |-> on, d |-> d])
  /\ turned' = IF Accepted THEN turned + 120 * d ELSE turned
  /\ UNCHANGED <<raw_active, userVars, modeVars, mouse_focus, mouse,
                 moved, astray, inexact, button_lost>>

\* The compositor has seen the relative pointer, takes the lock, and may take
\* it back: locked_pointer_unlocked destroys the lock but not the relative
\* pointer.
SrvRelative ==
  /\ relative_mode_window # None /\ link = "no"
  /\ link' = "relative"
  /\ UNCHANGED <<raw_active, userVars, streamVars, relative_mode_window, mouse_focus, mouse,
                 historyVars>>

SrvLock ==
  /\ link = "relative" /\ on = relative_mode_window
  /\ link' = "locked"
  /\ UNCHANGED <<raw_active, userVars, streamVars, relative_mode_window, mouse_focus, mouse,
                 historyVars>>

SrvUnlock ==
  /\ link = "locked"
  /\ link' = "unlocked"
  /\ UNCHANGED <<raw_active, userVars, streamVars, relative_mode_window, mouse_focus, mouse,
                 historyVars>>

-----------------------------------------------------------------------------
(* Listeners of the pointer, on the main thread. *)

Arrives(kind) == wire # <<>> /\ Head(wire).kind = kind

\* The relative pointer is destroyed, and with it what is on its way for it.
Released(frames) ==
  [i \in DOMAIN frames |->
     IF frames[i].kind = "frame"
     THEN [frames[i] EXCEPT !.rel = FALSE, !.d = IF frames[i].abs THEN @ ELSE 0]
     ELSE frames[i]]
CalledOff(frames) ==
  ~raw_active /\ \E i \in DOMAIN frames :
                   frames[i].kind = "frame" /\ frames[i].rel /\ ~frames[i].abs

\* Mutant: the position of the enter is left to the first motion.
PointerEnterSilently ==
  /\ Arrives("enter")
  /\ mouse_focus' = Head(wire).win
  /\ mouse' = [mouse EXCEPT !.has_position = FALSE]
  /\ astray' = FALSE
  /\ wire' = Tail(wire)
  /\ UNCHANGED <<raw_active, userVars, ring, modeVars, moved, turned, inexact, button_lost>>

\* pointer_enter.  A lock that was taken back is asked for again, with a new
\* relative pointer.
PointerEnter ==
  LET m == Head(wire)
      rearm == m.win = relative_mode_window /\ m.unlocked /\ link = "unlocked"
  IN
  /\ Arrives("enter")
  /\ mouse_focus' = m.win
  /\ mouse' = SendAbsolute([mouse EXCEPT !.has_position = FALSE], m.win, m.x)
  /\ astray' = FALSE
  /\ link' = IF rearm THEN "no" ELSE link
  /\ wire' = IF rearm THEN Released(Tail(wire)) ELSE Tail(wire)
  /\ inexact' = (inexact \/ (rearm /\ CalledOff(Tail(wire))))
  /\ UNCHANGED <<raw_active, userVars, ring, relative_mode_window, moved,
                 turned, button_lost>>

\* pointer_leave
PointerLeave ==
  /\ Arrives("leave")
  /\ mouse_focus' = None
  /\ mouse' = [mouse EXCEPT !.has_position = FALSE]
  /\ wire' = Tail(wire)
  /\ UNCHANGED <<raw_active, userVars, ring, modeVars, historyVars>>

\* pointer_motion.  With raw input it is no event: it puts the position that
\* was added up right.
PointerMotion(m, x) ==
  IF mouse_focus = None THEN m
  ELSE IF ~raw_active THEN SendAbsolute(m, mouse_focus, x)
  ELSE IF relative_mode_window = mouse_focus THEN m
  ELSE [m EXCEPT !.x = x]

\* Mutant: relative motion is told though the worker reads the mouse.
FlushRelativeAlways(m, d) == SendRelative(m, mouse_focus, d)

\* relative_pointer_motion, and pointer_frame that tells what it gathered
FlushRelative(m, d) == IF raw_active THEN m ELSE SendRelative(m, mouse_focus, d)

\* A frame of pointer_motion, relative_pointer_motion or both.
PointerFrame ==
  LET f == Head(wire)
      m == IF f.abs THEN PointerMotion(mouse, f.x) ELSE mouse
  IN
  /\ Arrives("frame")
  /\ mouse' = IF f.rel THEN FlushRelative(m, f.d) ELSE m
  /\ astray' = (~raw_active /\ (f.rel \/ (astray /\ ~f.abs)))
  /\ inexact' = (inexact \/ (~raw_active /\ f.abs /\ (f.rel \/ astray)))
  /\ wire' = Tail(wire)
  /\ UNCHANGED <<raw_active, userVars, ring, modeVars, mouse_focus, moved, turned, button_lost>>

\* Mutant: buttons are taken from both streams.
PointerButtonAlways(down) == mouse' = SendButton(mouse, down)

\* pointer_button
PointerButton(down) == mouse' = IF raw_active THEN mouse ELSE SendButton(mouse, down)

PointerButtonFrame ==
  /\ Arrives("button")
  /\ PointerButton(Head(wire).down)
  /\ wire' = Tail(wire)
  /\ UNCHANGED <<raw_active, userVars, ring, modeVars, mouse_focus, historyVars>>

\* pointer_axis, pointer_axis_value120 and pointer_frame: what one notch adds
\* to axis_y_acc, in 120ths.
AxisFrame(d) == 12 * AxisPerTurn * d + (IF Value120 THEN -120 * d ELSE 0)

PointerAxisFrame ==
  /\ Arrives("axis")
  /\ turned' = IF raw_active THEN turned ELSE turned - AxisFrame(Head(wire).d)
  /\ wire' = Tail(wire)
  /\ UNCHANGED <<raw_active, userVars, ring, modeVars, mouse_focus, mouse,
                 moved, astray, inexact, button_lost>>

-----------------------------------------------------------------------------
(* SDLOP_RawInputPump, one turn. *)

Clamp(x, last) == IF x < 0 THEN 0 ELSE IF x > last THEN last ELSE x

\* pump_event for REL_X: the window with the mouse or the keyboard.  The
\* latter is read nowhere else and may be any: it is chosen here.
RawMotion(m, d, keyboard_focus) ==
  LET w == IF mouse_focus # None THEN mouse_focus ELSE keyboard_focus IN
  IF w = None THEN SendRelative(m, mouse_focus, d)
  ELSE IF relative_mode_window = None
  THEN SendBoth(m, mouse_focus, Clamp(m.x + d, Width[w] - 1), d)
  ELSE SendBoth(m, mouse_focus, m.x + d, d)

\* Mutant: a turn of the wheel down is told as one up.
RawWheelUnsigned(d) == 120

\* pump_event for REL_WHEEL, REL_WHEEL_HI_RES and their SYN, in 120ths
RawWheel(d) == 120 * d + (IF HiRes THEN 120 * d ELSE 0)

RawPump ==
  LET e == Head(ring) IN
  /\ ring # <<>>
  /\ ring' = Tail(ring)
  /\ \E keyboard_focus \in Windows \cup {None} :
       mouse' = CASE e.kind = "rel" -> RawMotion(mouse, e.d, keyboard_focus)
                  [] e.kind = "button" -> SendButton(mouse, e.down)
                  [] OTHER -> mouse
  /\ turned' = IF e.kind = "wheel" THEN turned - RawWheel(e.d) ELSE turned
  /\ UNCHANGED <<raw_active, userVars, wire, modeVars, mouse_focus, moved, astray, inexact, button_lost>>

-----------------------------------------------------------------------------
(* The application. *)

\* A report or frame is of one step or notch, so they add up to those in one
\* direction less those in the other.
CountOf(s, kind, d) == Cardinality({i \in DOMAIN s : s[i].kind = kind /\ s[i].d = d})
SumOf(s, kind) == CountOf(s, kind, 1) - CountOf(s, kind, -1)

\* Movement that the stream in charge still has to deliver.
Pending == IF raw_active THEN SumOf(ring, "rel") ELSE SumOf(wire, "frame")

GetRelativeMouseState ==
  /\ mouse.xrel_acc # 0
  /\ mouse' = [mouse EXCEPT !.xrel_acc = 0]
  /\ moved' = Pending
  /\ inexact' = FALSE
  /\ UNCHANGED <<raw_active, userVars, streamVars, modeVars, mouse_focus, turned, astray, button_lost>>

\* SDL_SetWindowRelativeMouseMode, as far as the mouse is concerned: switching
\* it on, even if it is on, makes new objects, switching it off destroys them.
SetRelativeMouseMode(w) ==
  /\ w # None \/ relative_mode_window # None
  /\ relative_mode_window' = w
  /\ link' = "no"
  /\ wire' = Released(wire)
  /\ inexact' = (inexact \/ CalledOff(wire))
  /\ UNCHANGED <<raw_active, userVars, ring, mouse_focus, mouse,
                 moved, turned, astray, button_lost>>

-----------------------------------------------------------------------------
Directions == {-1, 1}

User ==
  \/ \E d \in Directions : Move(d) \/ Turn(d)
  \/ \E w \in Windows : \E x \in 0..Width[w]-1 : Cross(w, x)
  \/ Cross(None, 0)
  \/ Press

Compositor == SrvRelative \/ SrvLock \/ SrvUnlock

Dispatch ==
  \/ PointerEnter \/ PointerLeave \/ PointerFrame \/ PointerButtonFrame \/ PointerAxisFrame

App == GetRelativeMouseState \/ \E w \in Windows \cup {None} : SetRelativeMouseMode(w)

Next == User \/ Compositor \/ Dispatch \/ RawPump \/ App

Spec == Init /\ [][Next]_vars

-----------------------------------------------------------------------------
RawEvents ==
  [kind : {"rel", "wheel"}, d : Directions] \cup [kind : {"button"}, down : BOOLEAN]

Frames ==
  {f \in [kind : {"frame"}, win : Windows, x : Int, abs : BOOLEAN, rel : BOOLEAN, d : {0} \cup Directions] :
     f.abs => f.x \in 0..Width[f.win]-1}
    \cup {f \in [kind : {"enter"}, win : Windows, x : Int, unlocked : BOOLEAN] :
           f.x \in 0..Width[f.win]-1}
    \cup [kind : {"leave"}, win : {None}]
    \cup [kind : {"button"}, win : Windows, down : BOOLEAN]
    \cup [kind : {"axis"}, win : Windows, d : Directions]

MouseStates ==
  [x : Int, last_x : Int, has_position : BOOLEAN, xrel_acc : Int, buttons : BOOLEAN]

TypeOK ==
  /\ {raw_active, held, astray, inexact, button_lost} \subseteq BOOLEAN
  /\ {on, mouse_focus, relative_mode_window} \subseteq Windows \cup {None}
  /\ cursor \in Int /\ (on # None => cursor \in 0..Width[on]-1)
  /\ link \in {"no", "relative", "locked", "unlocked"}
  /\ ring \in Seq(RawEvents) /\ Len(ring) <= RingSize /\ (~raw_active => ring = <<>>)
  /\ wire \in Seq(Frames) /\ Len(wire) <= WireSize
  /\ mouse \in MouseStates
  /\ moved \in Int /\ turned \in Int

(* src/SDL_mouse.c:21-24: the reported position lives inside the window.     *)
(* While a window has the pointer, the position told with every motion,      *)
(* button and wheel event is inside it: whichever stream moved it, locked or *)
(* not, put right or not, and coming from a larger window.                   *)
PositionInside ==
  mouse_focus # None => mouse.x \in 0..Width[mouse_focus]-1

(* include/SDL3/SDL_mouse.h:57: SDL_GetRelativeMouseState returns the motion *)
(* since the last call.  What was told and what the stream in charge still   *)
(* has under way add up to what the user did: no movement is told twice      *)
(* because both streams report it, none is made up by an enter, a leave or   *)
(* by putting the position right.                                            *)
MotionOnce == ~inexact => mouse.xrel_acc + Pending = moved

\* The last change of the button in s, or the button as told, is to b.
Ends(s, told, b) ==
  LET Changes(i) == s[i].kind = "button" IN
  /\ \A i \in DOMAIN s : Changes(i) /\ (\A j \in i+1..Len(s) : ~Changes(j)) => (s[i].down <=> b)
  /\ (\A j \in DOMAIN s : ~Changes(j)) => (told <=> b)

(* The button is what it will be once the stream in charge is drained: a     *)
(* change that both streams report is not applied late a second time.        *)
ButtonOnce ==
  IF raw_active THEN ~button_lost => Ends(ring, mouse.buttons, held)
  ELSE Ends(wire, mouse.buttons, held /\ on # None)

(* include/SDL3/SDL_events.h:249-250: what the wheel events tell, and what   *)
(* is under way, is what was turned, away from the user positive.            *)
WheelOnce ==
  turned = 120 * (IF raw_active THEN SumOf(ring, "wheel") ELSE SumOf(wire, "axis"))

(* Without raw input the position is that of the pointer once everything on  *)
(* the way was handled, unless relative motion has moved it on from there.   *)
Follows ==
  ~raw_active /\ wire = <<>> /\ on # None /\ ~astray
    => mouse_focus = on /\ mouse.x = cursor /\ mouse.last_x = cursor

(* src/video/wayland/sdlop_wayland.c:685: with raw input the position is put *)
(* right by the compositor's, since the raw event was handled already.       *)
Anchored ==
  raw_active /\ wire = <<>> /\ ring = <<>> /\ on # None /\ relative_mode_window = None
    => mouse.x = cursor

(* src/video/wayland/sdlop_wayland.c:1581: when the compositor has released  *)
(* the lock, relative motion stops: no movement is told as a change of the   *)
(* position and as relative motion both.                                     *)
ToldOneWay ==
  [][Arrives("frame") /\ PointerFrame /\ ~raw_active
       => ~(Head(wire).abs /\ Head(wire).rel)]_vars

(* Two streams report one mouse, and nothing it does is told twice or not    *)
(* at all: movement, button and wheel.                                       *)
ToldOnce == TypeOK /\ MotionOnce /\ ButtonOnce /\ WheelOnce

-----------------------------------------------------------------------------
(***************************************************************************)
(* What makes ToldOnce and Follows inductive: where the frames on the way  *)
(* lead the position.  An enter and a frame say where the pointer is, and  *)
(* a frame how far that is from where the one before it was.               *)
(***************************************************************************)

Placed(f) == f.kind \in {"enter", "frame"}

\* How far a frame moves the position.
Shift(f) == IF f.abs THEN f.d ELSE 0

\* No message of s from the i-th to the j-th says where the pointer is.
NonePlaced(s, i, j) == \A k \in i..j : ~Placed(s[k])

\* Each frame moves on from the place said last; the first one from the place
\* told, if that is known.
PlacesLinked(s, known) ==
  /\ \A i, j \in DOMAIN s :
       i < j /\ Placed(s[i]) /\ s[j].kind = "frame" /\ NonePlaced(s, i+1, j-1)
         => s[j].x = s[i].x + Shift(s[j])
  /\ \A j \in DOMAIN s :
       s[j].kind = "frame" /\ NonePlaced(s, 1, j-1) => \A x \in known : s[j].x = x + Shift(s[j])

\* The last of them leads to the cursor.
LeadsTo(s, known, at) ==
  /\ \A i \in DOMAIN s : Placed(s[i]) /\ NonePlaced(s, i+1, Len(s)) => s[i].x = at
  /\ NonePlaced(s, 1, Len(s)) => known \subseteq {at}

\* A frame that brings neither a position nor relative motion moves nothing.
Quiet(s) ==
  \A i \in DOMAIN s : s[i].kind = "frame" /\ ~s[i].abs /\ ~s[i].rel => s[i].d = 0

Known == IF astray THEN {} ELSE {mouse.last_x}

\* Without raw input only the compositor's frames move the mouse.
WireMoves ==
  ~raw_active =>
    /\ mouse.x = mouse.last_x
    /\ mouse_focus # None => mouse.has_position
    /\ PlacesLinked(wire, Known)
    /\ on # None => LeadsTo(wire, Known, cursor)
=============================================================================
