------------------------------ MODULE WebPointer ------------------------------
(***************************************************************************)
(* Windows, canvases, pointer lock and the mouse of the web build: the     *)
(* callbacks of src/video/emscripten/sdlop_emscripten.c and what they call *)
(* in src/SDL_mouse.c and src/SDL_video.c.                                 *)
(*                                                                         *)
(* Every window has a canvas.  Pointer lock belongs to the browser: a      *)
(* request is granted or refused later, the user or the page ends it at    *)
(* any time, and the program hears of a change in a callback of its own.   *)
(* Positions and movements have one dimension, and all canvases one size.  *)
(***************************************************************************)
EXTENDS Integers, Sequences, FiniteSets, SequencesExt

CONSTANTS
  Windows,        \* windows that can exist, NoWindow aside
  NoWindow,
  SelectorSlots,  \* SDLOP_MAX_WINDOWS, the size of the table of selectors
  MaxCanvas,      \* bound: canvases the session creates beside "#canvas"
  Size            \* the size of a canvas

ASSUME WebPointerAssumption ==
  NoWindow \notin Windows /\ SelectorSlots \in Nat \ {0} /\ MaxCanvas \in Nat /\ Size \in Nat \ {0}

\* Canvas 0 is "#canvas", which the page owns; n is "#sdlop-canvas-(n - 1)".
Canvases == 0 .. MaxCanvas
NoCanvas == -1
PageElement == -2   \* an element of the page, without an id
Places == 0 .. Size - 1

VARIABLES
  windows,         \* sdlop.windows, newest first
  canvas,          \* selector of each window
  next_canvas_id,  \* one less than the canvas created next
  selectors,       \* the selectors with mouse callbacks, in order
  pointer_locked,  \* windows with pointer_locked set
  focus,           \* sdlop.keyboard_focus, mouse_focus, relative_mode_window
  hidden,          \* windows with SDL_WINDOW_HIDDEN
  relative,        \* windows with SDL_WINDOW_MOUSE_RELATIVE_MODE
  lock,            \* browser: the element that holds the pointer lock
  asked,           \* browser: the canvas a request not yet answered names
  changed,         \* browser: a pointerlockchange event is on its way
  inherited,       \* history: windows created on an element that holds the lock
  pointer,         \* browser: position of the pointer in the canvas under it
  mouse_x,         \* sdlop.mouse_x and mouse_last_x, NoCanvas without a position
  last,            \* history: the mouse event handled last: its canvas, whether
                   \* as locked, and where the pointer was
  motion           \* history: what the motion of the step just taken was told as

windowVars == <<windows, canvas, next_canvas_id, selectors, focus, hidden, relative>>
lockVars == <<pointer_locked, lock, asked, changed, inherited>>
mouseVars == <<pointer, mouse_x, last, motion>>
pointerVars == <<windowVars, lockVars, mouseVars>>

Live == ToSet(windows)
NoLast == [canvas |-> NoCanvas, locked |-> FALSE, at |-> 0]
NoMotion == [told |-> 0, moved |-> 0, comparable |-> FALSE]

PointerInit ==
  /\ windows = <<>> /\ canvas = [w \in Windows |-> NoCanvas]
  /\ next_canvas_id = 0 /\ selectors = <<>>
  /\ focus = [keyboard |-> NoWindow, mouse |-> NoWindow, mode |-> NoWindow] /\ hidden = {} /\ relative = {}
  /\ pointer_locked = {} /\ lock = NoCanvas /\ asked = NoCanvas /\ changed = FALSE
  /\ inherited = {}
  /\ pointer = 0 /\ mouse_x = NoCanvas /\ last = NoLast /\ motion = NoMotion

-----------------------------------------------------------------------------
(* Windows. *)

\* emscripten_CreateWindow: "#canvas" for the first window, else a new one.
CanvasOfNewWindow == IF windows = <<>> THEN 0 ELSE next_canvas_id + 1

\* register_input_callbacks: a full table has the selector in its first slot
\* registered once more.
RegisterInputCallbacks(c) ==
  selectors' = IF Len(selectors) < SelectorSlots THEN Append(selectors, c) ELSE selectors

\* SDL_CreateWindow with emscripten_CreateWindow, and, unless it is to be hidden,
\* emscripten_ShowWindow
CreateWindow(w, shown) ==
  LET c == CanvasOfNewWindow IN
  /\ w \notin Live /\ c \in Canvases
  /\ windows' = <<w>> \o windows
  /\ canvas' = [canvas EXCEPT ![w] = c]
  /\ next_canvas_id' = IF c = 0 THEN next_canvas_id ELSE c
  /\ RegisterInputCallbacks(c)
  /\ inherited' = IF lock \in {c, PageElement} THEN inherited \cup {w} ELSE inherited
  /\ IF shown THEN focus' = [focus EXCEPT !.keyboard = w, !.mouse = w] /\ UNCHANGED hidden
     ELSE hidden' = hidden \cup {w} /\ UNCHANGED focus
  /\ motion' = NoMotion
  /\ UNCHANGED <<relative, pointer_locked, lock, asked, changed, pointer, mouse_x, last>>

\* Mutant: the window in relative mode stays recorded.
RemoveWindowKeepsMode(w) ==
  /\ \E i \in DOMAIN windows : windows[i] = w /\ windows' = RemoveAt(windows, i)
  /\ focus' = [focus EXCEPT !.keyboard = IF @ = w THEN NoWindow ELSE @,
                            !.mouse = IF @ = w THEN NoWindow ELSE @]
  /\ mouse_x' = IF focus.mouse = w THEN NoCanvas ELSE mouse_x
  /\ last' = IF focus.mouse = w THEN NoLast ELSE last

\* SDLOP_RemoveWindow
RemoveWindow(w) ==
  /\ \E i \in DOMAIN windows : windows[i] = w /\ windows' = RemoveAt(windows, i)
  /\ focus' = [focus EXCEPT !.keyboard = IF @ = w THEN NoWindow ELSE @,
                            !.mouse = IF @ = w THEN NoWindow ELSE @,
                            !.mode = IF @ = w THEN NoWindow ELSE @]
  /\ mouse_x' = IF focus.mouse = w THEN NoCanvas ELSE mouse_x
  /\ last' = IF focus.mouse = w THEN NoLast ELSE last

\* SDL_DestroyWindow with emscripten_DestroyWindow.  A canvas of ours leaves
\* the document, and with it the lock it holds; "#canvas" stays, and keeps it.
DestroyWindow(w) ==
  LET c == canvas[w] IN
  /\ w \in Live
  /\ RemoveWindow(w)
  /\ canvas' = [canvas EXCEPT ![w] = NoCanvas]
  /\ pointer_locked' = pointer_locked \ {w}
  /\ inherited' = inherited \ {w}
  /\ relative' = relative \ {w} /\ hidden' = hidden \ {w}
  /\ IF c > 0 /\ lock = c THEN lock' = NoCanvas /\ changed' = TRUE ELSE UNCHANGED <<lock, changed>>
  /\ asked' = IF c > 0 /\ asked = c THEN NoCanvas ELSE asked
  /\ motion' = NoMotion
  /\ UNCHANGED <<next_canvas_id, selectors, pointer>>

\* SDL_ShowWindow with emscripten_ShowWindow
ShowWindow(w) ==
  /\ w \in hidden
  /\ hidden' = hidden \ {w}
  /\ focus' = [focus EXCEPT !.keyboard = w, !.mouse = w]
  /\ motion' = NoMotion
  /\ UNCHANGED <<windows, canvas, next_canvas_id, selectors, relative, lockVars, pointer, mouse_x, last>>

\* SDL_HideWindow with emscripten_HideWindow
HideWindow(w) ==
  /\ w \in Live \ hidden
  /\ hidden' = hidden \cup {w}
  /\ focus' = [focus EXCEPT !.keyboard = IF @ = w THEN NoWindow ELSE @,
                            !.mouse = IF @ = w THEN NoWindow ELSE @]
  /\ motion' = NoMotion
  /\ UNCHANGED <<windows, canvas, next_canvas_id, selectors, relative, lockVars, pointer, mouse_x, last>>

\* SDL_SetWindowRelativeMouseMode with emscripten_SetWindowRelativeMouseMode:
\* the request is refused at once, which restores mode and flag, or it is on
\* its way.  Leaving the mode ends whatever lock there is.
EnterRelativeMode(w) ==
  /\ w \in Live
  /\ motion' = NoMotion
  /\ \/ UNCHANGED <<focus, relative, asked>>
     \/ /\ focus' = [focus EXCEPT !.mode = w]
        /\ relative' = relative \cup {w}
        /\ asked' = canvas[w]
  /\ UNCHANGED <<windows, canvas, next_canvas_id, selectors, hidden, pointer_locked, lock, changed,
                 inherited, pointer, mouse_x, last>>

LeaveRelativeMode(w) ==
  /\ w \in Live
  /\ motion' = NoMotion
  /\ \/ UNCHANGED <<focus, relative, asked, lock, changed>>
     \/ /\ focus' = [focus EXCEPT !.mode = IF @ = w THEN NoWindow ELSE @]
        /\ relative' = relative \ {w}
        /\ asked' \in {asked, NoCanvas}
        /\ lock' = NoCanvas
        /\ changed' = (changed \/ lock # NoCanvas)
  /\ UNCHANGED <<windows, canvas, next_canvas_id, selectors, hidden, pointer_locked, inherited,
                 pointer, mouse_x, last>>

-----------------------------------------------------------------------------
(* The browser and its lock. *)

\* A request is granted or refused; nothing listens for the refusal.
AnswerLock ==
  /\ asked # NoCanvas
  /\ asked' = NoCanvas
  /\ \/ UNCHANGED <<lock, changed>>
     \/ lock' = asked /\ changed' = TRUE
  /\ motion' = NoMotion
  /\ UNCHANGED <<windowVars, pointer_locked, inherited, pointer, mouse_x, last>>

\* The user leaves the lock, or the page takes it for an element of its own.
LockMoves ==
  /\ lock' \in {NoCanvas, PageElement} \ {lock}
  /\ changed' = TRUE
  /\ motion' = NoMotion
  /\ UNCHANGED <<windowVars, pointer_locked, asked, inherited, pointer, mouse_x, last>>

Locked(w) == lock \in {canvas[w], PageElement}

\* Mutant: only the window that gets the lock is written.
PointerlockCbGains ==
  /\ changed
  /\ changed' = FALSE
  /\ pointer_locked' = pointer_locked \cup {w \in Live : Locked(w)}
  /\ inherited' = {}
  /\ motion' = NoMotion
  /\ UNCHANGED <<windowVars, lock, asked, pointer, mouse_x, last>>

\* pointerlock_cb: the event tells the state of the lock when it is handled;
\* an element without an id stands for every window.
PointerlockCb ==
  /\ changed
  /\ changed' = FALSE
  /\ pointer_locked' = {w \in Live : Locked(w)}
  /\ inherited' = {}
  /\ motion' = NoMotion
  /\ UNCHANGED <<windowVars, lock, asked, pointer, mouse_x, last>>

-----------------------------------------------------------------------------
(* The mouse. *)

\* A canvas is in the document while a window has it, "#canvas" always.
Shown(c) == c = 0 \/ \E w \in Live : canvas[w] = c
Hears(c) == Shown(c) /\ c \in ToSet(selectors)

\* window_from_selector: the first window stands in for one that is gone.
WindowFromSelector(c) ==
  IF \E w \in Live : canvas[w] = c THEN CHOOSE w \in Live : canvas[w] = c
  ELSE IF windows # <<>> THEN Head(windows) ELSE NoWindow

\* What SDLOP_SendMouseMotion reports for a position and a movement.
Told(x, rel) ==
  IF rel # 0 THEN rel ELSE IF mouse_x # NoCanvas THEN x - mouse_x ELSE 0

\* Mutant: the locked window is told the position of the event.
MouseMoveCbAbsolute(c, to, movement) ==
  LET w == WindowFromSelector(c) IN
  IF w = NoWindow THEN UNCHANGED <<mouse_x, last>> /\ motion' = NoMotion
  ELSE /\ mouse_x' = to
       /\ last' = [canvas |-> c, locked |-> w \in pointer_locked, at |-> to]
       /\ motion' = [told |-> Told(to, 0),
                     moved |-> IF w \in pointer_locked THEN movement ELSE to - last.at,
                     comparable |-> last.canvas = c /\ last.locked = (w \in pointer_locked)]

\* mouse_move_cb: a locked window is told the movement, at position 0;
\* another the position, from which the movement since the last one follows.
MouseMoveCb(c, to, movement) ==
  LET w == WindowFromSelector(c)
      locked == w \in pointer_locked
      x == IF locked THEN 0 ELSE to
      rel == IF locked THEN movement ELSE 0
  IN IF w = NoWindow THEN UNCHANGED <<mouse_x, last>> /\ motion' = NoMotion
     ELSE /\ mouse_x' = x
          /\ last' = [canvas |-> c, locked |-> locked, at |-> to]
          /\ motion' = [told |-> Told(x, rel),
                        moved |-> IF locked THEN movement ELSE to - last.at,
                        comparable |-> last.canvas = c /\ last.locked = locked]

\* The mouse moves over a canvas; under a lock the pointer stays where it is,
\* and the events go to the canvas that has the lock.
MoveMouse(c) ==
  /\ lock = NoCanvas \/ lock = c
  /\ Hears(c)
  /\ \E movement \in -1 .. 1 :
       /\ pointer + movement \in Places \/ lock = c
       /\ pointer' = IF lock = c THEN pointer ELSE pointer + movement
       /\ MouseMoveCb(c, pointer', movement)
  /\ UNCHANGED <<windowVars, lockVars>>

\* mouse_button_cb and SDLOP_SendMouseButton: the position of the event is
\* taken over, without a motion and without a look at the lock.
PressButton(c) ==
  /\ lock = NoCanvas \/ lock = c
  /\ Hears(c)
  /\ mouse_x' = pointer
  /\ last' = LET w == WindowFromSelector(c) IN
             IF w = NoWindow \/ w \in pointer_locked THEN NoLast
             ELSE [canvas |-> c, locked |-> FALSE, at |-> pointer]
  /\ motion' = NoMotion
  /\ UNCHANGED <<windowVars, lockVars, pointer>>

PointerNext ==
  \/ \E w \in Windows :
       \/ (\E shown \in BOOLEAN : CreateWindow(w, shown)) \/ DestroyWindow(w) \/ ShowWindow(w) \/ HideWindow(w)
       \/ EnterRelativeMode(w) \/ LeaveRelativeMode(w)
  \/ AnswerLock \/ LockMoves \/ PointerlockCb
  \/ \E c \in Canvases : MoveMouse(c) \/ PressButton(c)

PointerSpec == PointerInit /\ [][PointerNext]_pointerVars

-----------------------------------------------------------------------------
PointerTypeOK ==
  /\ Live \subseteq Windows /\ Len(windows) = Cardinality(Live)
  /\ canvas \in [Windows -> Canvases \cup {NoCanvas}]
  /\ next_canvas_id \in Canvases
  /\ selectors \in Seq(Canvases)
  /\ focus \in [keyboard : Windows \cup {NoWindow}, mouse : Windows \cup {NoWindow}, mode : Windows \cup {NoWindow}]
  /\ hidden \subseteq Live /\ relative \subseteq Live /\ pointer_locked \subseteq Live /\ inherited \subseteq Live
  /\ lock \in Canvases \cup {NoCanvas, PageElement} /\ asked \in Canvases \cup {NoCanvas}
  /\ changed \in BOOLEAN
  /\ pointer \in Places /\ mouse_x \in Places \cup {NoCanvas}

\* Focus and relative mode name windows that live.  No two windows have the
\* same canvas, and while the table of selectors had room for all windows ever
\* created, every window's canvas has its mouse callbacks.
\* (emscripten_CreateWindow, register_input_callbacks, SDLOP_RemoveWindow)
WindowsReachable ==
  /\ {focus.keyboard, focus.mouse, focus.mode} \subseteq Live \cup {NoWindow}
  /\ \A v, w \in Live : canvas[v] = canvas[w] => v = w
  /\ Len(selectors) < SelectorSlots => \A w \in Live : canvas[w] \in ToSet(selectors)

\* Once the program has heard of every change of the lock, the windows it
\* treats as locked are those whose canvas holds it, but for a window created
\* on a canvas that held it already.  (pointerlock_cb)
LockAgrees ==
  ~changed => pointer_locked = {w \in Live : Locked(w)} \ inherited

\* Two motions in a row over one canvas, both locked or both not, lose and
\* invent nothing: the second is told as the movement of the mouse.
\* (mouse_move_cb, mouse_button_cb)
MotionTold == motion.comparable => motion.told = motion.moved

\* The pointer leads to its window and its movements are told, whatever windows
\* came and went and whoever ended the lock.
PointerSound == WindowsReachable /\ LockAgrees /\ MotionTold
=============================================================================
