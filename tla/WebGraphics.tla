----------------------------- MODULE WebGraphics ------------------------------
(***************************************************************************)
(* What the windows of the web build draw with: the surface of a window,   *)
(* the WebGL context the driver keeps to show it, the contexts the program *)
(* asks for, and fullscreen, in                                            *)
(* src/video/emscripten/sdlop_emscripten.c, SDL_gl.c, SDL_surface.c and    *)
(* SDL_video.c.                                                            *)
(*                                                                         *)
(* Each window has a canvas.  That of the first is the page's, "#canvas",  *)
(* and stays in the page when its window goes; the others are the driver's *)
(* and go with theirs.                                                     *)
(*                                                                         *)
(* The browser keeps the contexts and the element that is fullscreen.  A   *)
(* request for a context may fail; one for fullscreen is refused at once   *)
(* or answered later, and the user leaves fullscreen at any time.          *)
(***************************************************************************)
EXTENDS Integers, FiniteSets

CONSTANTS
  Panes,       \* windows that can exist, NoPane aside
  NoPane,
  PageCanvas,  \* "#canvas"
  Sides,       \* sides of a window, which is square
  SizeMax,     \* SIZE_MAX: sizes are computed modulo SizeMax + 1
  MaxContexts  \* bound: WebGL contexts created in the session

ASSUME WebGraphicsAssumption ==
  NoPane \notin Panes /\ PageCanvas \notin Panes \cup {NoPane} /\ Sides \subseteq Nat \ {0} /\ SizeMax \in Nat /\ MaxContexts \in Nat

None == 0         \* no context
Refused == -1     \* what a failed creation returns, EMSCRIPTEN_RESULT_* < 0
Handles == 1 .. MaxContexts
NoSurface == [side |-> 0, bytes |-> 0]

VARIABLES
  open,            \* sdlop.windows
  first,           \* the window whose selector is "#canvas", or NoPane
  size,            \* window->w and window->h
  surface,         \* window->surface, with the bytes its pixels have
  webgl_context,   \* per window: the program's context
  sw_context,      \* per window: the driver's own
  sw_gl_ready,     \* windows whose texture and program are made in sw_context
  fullscreen,      \* windows with SDL_WINDOW_FULLSCREEN
  current,         \* current_context of SDL_gl.c
  contexts,        \* browser: the contexts that exist, and their windows
  created,         \* browser: handles given so far
  bound,           \* browser: the current context
  painted,         \* history: contexts that hold a texture and program of ours
  screen,          \* browser: the canvas that is fullscreen
  requested,       \* browser: the canvas a request on its way names
  overtaken,       \* history: fullscreen was left while a request was on its way
  abandoned        \* history: "#canvas" was fullscreen, or to become so, when its
                   \* window went

surfaceVars == <<size, surface>>
contextVars == <<webgl_context, sw_context, sw_gl_ready, current, contexts, created, bound, painted>>
screenVars == <<fullscreen, screen, requested, overtaken, abandoned>>
paneVars == <<open, first>>
graphicsVars == <<paneVars, surfaceVars, contextVars, screenVars>>

GraphicsInit ==
  /\ open = {} /\ first = NoPane /\ size = [p \in Panes |-> 0] /\ surface = [p \in Panes |-> NoSurface]
  /\ webgl_context = [p \in Panes |-> None] /\ sw_context = [p \in Panes |-> None]
  /\ sw_gl_ready = {} /\ current = None
  /\ contexts = {} /\ created = 0 /\ bound = None /\ painted = {}
  /\ fullscreen = {} /\ screen = NoPane /\ requested = NoPane
  /\ overtaken = FALSE /\ abandoned = FALSE

-----------------------------------------------------------------------------
(* The browser's contexts: src/ only calls them. *)

\* emscripten_webgl_create_context: a new handle, or a result that is no handle
CreatedContext == {None, Refused} \cup (IF created < MaxContexts THEN {created + 1} ELSE {})

\* emscripten_webgl_make_context_current succeeds for a context that exists.
Exists(c) == c \in contexts

\* emscripten_webgl_destroy_context: the current one is current no more.
Without(c) ==
  /\ contexts' = contexts \ c
  /\ bound' = IF bound \in c THEN None ELSE bound
  /\ painted' = painted \ c

-----------------------------------------------------------------------------
(* Windows and their surfaces. *)

\* (size_t)w * 4u * (size_t)h
BytesOf(n) == (n * 4 * n) % (SizeMax + 1)

\* The canvas of a window: "#canvas", or one of its own.
Canvas(p) == IF p = first THEN PageCanvas ELSE p

\* SDL_CreateWindow with emscripten_CreateWindow: "#canvas" is for a window that
\* finds no other.
OpenPane(p, n) ==
  /\ p \notin open
  /\ open' = open \cup {p}
  /\ first' = IF open = {} THEN p ELSE first
  /\ size' = [size EXCEPT ![p] = n]
  /\ UNCHANGED <<surface, contextVars, screenVars>>

\* SDL_GetWindowSurface with emscripten_CreateWindowFramebuffer: SDL_CreateSurface
\* refuses a size whose bytes no size_t can hold, and memory may be short.
GetPaneSurface(p) ==
  /\ p \in open /\ surface[p] = NoSurface
  /\ size[p] * 4 * size[p] <= SizeMax
  /\ surface' = [surface EXCEPT ![p] = [side |-> size[p], bytes |-> BytesOf(size[p])]]
  /\ UNCHANGED <<paneVars, size, contextVars, screenVars>>

\* Mutant: the surface takes the new size before the allocation is known.
SetPaneSizeEarly(p, n, granted) ==
  /\ p \in open
  /\ size' = [size EXCEPT ![p] = n]
  /\ surface' = IF surface[p] = NoSurface THEN surface
                ELSE [surface EXCEPT ![p] = [side |-> n,
                        bytes |-> IF granted THEN BytesOf(n) ELSE @.bytes]]
  /\ UNCHANGED <<paneVars, contextVars, screenVars>>

\* SDL_SetWindowSize with emscripten_SetWindowSize: a realloc that fails leaves
\* the surface as it was, and the window at its new size.
SetPaneSize(p, n, granted) ==
  /\ p \in open
  /\ size' = [size EXCEPT ![p] = n]
  /\ surface' = IF granted /\ surface[p] # NoSurface
                THEN [surface EXCEPT ![p] = [side |-> n, bytes |-> BytesOf(n)]]
                ELSE surface
  /\ UNCHANGED <<paneVars, contextVars, screenVars>>

-----------------------------------------------------------------------------
(* The driver's context. *)

\* sw_ensure_gl, where a context is there to be used: whatever a failed creation
\* returned other than 0 is kept, and tried again.
EnsureGL(p, c) ==
  /\ c \in IF sw_context[p] = None THEN CreatedContext ELSE {sw_context[p]}
  /\ sw_context' = [sw_context EXCEPT ![p] = c]
  /\ contexts' = IF sw_context[p] = None /\ c > 0 THEN contexts \cup {c} ELSE contexts
  /\ created' = IF sw_context[p] = None /\ c > 0 THEN c ELSE created
  /\ IF c \in contexts'
     THEN bound' = c /\ sw_gl_ready' = sw_gl_ready \cup {p}
          /\ painted' = IF p \in sw_gl_ready THEN painted ELSE painted \cup {c}
     ELSE UNCHANGED <<bound, sw_gl_ready, painted>>

\* SDL_UpdateWindowSurface with emscripten_UpdateWindowFramebuffer
UpdatePaneSurface(p) ==
  /\ p \in open /\ surface[p] # NoSurface
  /\ \E c \in Handles \cup {None, Refused} : EnsureGL(p, c)
  /\ UNCHANGED <<paneVars, surfaceVars, webgl_context, current, screenVars>>

\* Mutant: what was made in the context is said to be there still.
DropFramebufferKeepsReady(p) ==
  LET c == sw_context[p] IN
  IF p \in sw_gl_ready /\ c # None
  THEN bound' = c /\ painted' = painted \ {c} /\ UNCHANGED sw_gl_ready
  ELSE UNCHANGED <<bound, painted, sw_gl_ready>>

\* emscripten_DestroyWindowFramebuffer
DropFramebuffer(p) ==
  LET c == sw_context[p] IN
  IF p \in sw_gl_ready /\ c # None
  THEN bound' = c /\ painted' = painted \ {c} /\ sw_gl_ready' = sw_gl_ready \ {p}
  ELSE UNCHANGED <<bound, painted, sw_gl_ready>>

\* SDL_DestroyWindowSurface: the pixels are not freed, and lost.
DestroyPaneSurface(p) ==
  /\ p \in open /\ surface[p] # NoSurface
  /\ DropFramebuffer(p)
  /\ surface' = [surface EXCEPT ![p] = NoSurface]
  /\ UNCHANGED <<paneVars, size, webgl_context, sw_context, current, contexts, created, screenVars>>

\* What the two exceptions still except: neither outlasts what it is about.
Excepting(leaving, closing) ==
  /\ overtaken' = ((overtaken \/ leaving) /\ {screen', requested'} # {NoPane})
  /\ abandoned' = ((abandoned \/ closing) /\ PageCanvas \in {screen', requested'})

\* SDL_DestroyWindow with emscripten_DestroyWindow: both contexts go, and current
\* of SDL_gl.c still names the one that was current.  A canvas of the driver's is
\* removed, and no longer fullscreen; "#canvas" stays as it is.
ClosePane(p) ==
  /\ p \in open
  /\ open' = open \ {p}
  /\ first' = IF p = first THEN NoPane ELSE first
  /\ Without({webgl_context[p], sw_context[p]})
  /\ surface' = [surface EXCEPT ![p] = NoSurface]
  /\ size' = [size EXCEPT ![p] = 0]
  /\ webgl_context' = [webgl_context EXCEPT ![p] = None]
  /\ sw_context' = [sw_context EXCEPT ![p] = None]
  /\ sw_gl_ready' = sw_gl_ready \ {p}
  /\ fullscreen' = fullscreen \ {p}
  /\ screen' = IF screen = p THEN NoPane ELSE screen
  /\ requested' = IF requested = p THEN NoPane ELSE requested
  /\ Excepting(FALSE, p = first)
  /\ UNCHANGED <<current, created>>

-----------------------------------------------------------------------------
(* The program's contexts. *)

\* SDL_GL_CreateContext with emscripten_GL_CreateContext: the window forgets the
\* context it had.
CreatePaneContext(p) ==
  /\ p \in open
  /\ \E c \in CreatedContext \ {None, Refused} :
       /\ webgl_context' = [webgl_context EXCEPT ![p] = c]
       /\ contexts' = contexts \cup {c} /\ created' = c
       /\ bound' = c /\ current' = c
  /\ UNCHANGED <<paneVars, surfaceVars, sw_context, sw_gl_ready, painted, screenVars>>

\* SDL_GL_MakeCurrent: of a context that is gone it fails.
MakePaneCurrent(c) ==
  /\ c \in contexts \/ c = None
  /\ bound' = c /\ current' = c
  /\ UNCHANGED <<paneVars, surfaceVars, webgl_context, sw_context, sw_gl_ready, contexts, created, painted,
                 screenVars>>

\* Mutant: the windows are not told.
ForgetContextNowhere(c) == UNCHANGED webgl_context

\* emscripten_GL_DeleteContext: no window names the context any more.
ForgetContext(c) ==
  webgl_context' = [p \in Panes |-> IF webgl_context[p] = c THEN None ELSE webgl_context[p]]

\* SDL_GL_DestroyContext, of a context of the program's that exists
DestroyPaneContext(c) ==
  /\ c \in contexts /\ c \notin {sw_context[p] : p \in Panes}
  /\ Without({c})
  /\ ForgetContext(c)
  /\ current' = IF current = c THEN None ELSE current
  /\ UNCHANGED <<paneVars, surfaceVars, sw_context, sw_gl_ready, created, screenVars>>

-----------------------------------------------------------------------------
(* Fullscreen. *)

\* emscripten_SetWindowFullscreen: the request the browser takes is answered
\* later; leaving is for whichever element is fullscreen.
AskFullscreen(p) ==
  /\ requested' = Canvas(p) /\ UNCHANGED screen
  /\ Excepting(FALSE, FALSE)
LeaveFullscreen ==
  /\ screen' = NoPane /\ UNCHANGED requested
  /\ Excepting(TRUE, FALSE)

\* Mutant: a window that is fullscreen already is asked again, and a refusal
\* taken back as if it had not been.
SetPaneFullscreenAgain(p, on, taken) ==
  /\ p \in open
  /\ ~on => taken
  /\ fullscreen' = IF on /\ taken THEN fullscreen \cup {p} ELSE fullscreen \ {p}
  /\ IF ~taken THEN UNCHANGED <<screen, requested, overtaken, abandoned>>
     ELSE IF on THEN AskFullscreen(p) ELSE LeaveFullscreen
  /\ UNCHANGED <<paneVars, surfaceVars, contextVars>>

\* SDL_SetWindowFullscreen: what the driver refuses is taken back.
SetPaneFullscreen(p, on, taken) ==
  /\ p \in open /\ on # (p \in fullscreen)
  /\ ~on => taken
  /\ fullscreen' = IF ~taken THEN fullscreen ELSE IF on THEN fullscreen \cup {p} ELSE fullscreen \ {p}
  /\ IF ~taken THEN UNCHANGED <<screen, requested, overtaken, abandoned>>
     ELSE IF on THEN AskFullscreen(p) ELSE LeaveFullscreen
  /\ UNCHANGED <<paneVars, surfaceVars, contextVars>>

\* browser: the request is granted or turned down.
FullscreenAnswered(granted) ==
  /\ requested # NoPane
  /\ screen' = IF granted THEN requested ELSE screen
  /\ requested' = NoPane
  /\ Excepting(FALSE, FALSE)
  /\ UNCHANGED <<paneVars, surfaceVars, contextVars, fullscreen>>

\* browser: the user leaves; no callback is registered for it.
UserLeaves ==
  /\ screen # NoPane
  /\ screen' = NoPane /\ UNCHANGED requested
  /\ Excepting(FALSE, FALSE)
  /\ UNCHANGED <<paneVars, surfaceVars, contextVars, fullscreen>>

PaneNext ==
  \/ \E p \in Panes, n \in Sides : OpenPane(p, n)
  \/ \E p \in Panes : ClosePane(p)

DrawingNext ==
  \/ \E p \in Panes, n \in Sides, granted \in BOOLEAN : SetPaneSize(p, n, granted)
  \/ \E p \in Panes : GetPaneSurface(p) \/ UpdatePaneSurface(p) \/ DestroyPaneSurface(p)
  \/ \E p \in Panes : CreatePaneContext(p)
  \/ \E c \in Handles \cup {None} : MakePaneCurrent(c) \/ DestroyPaneContext(c)

ScreenNext ==
  \/ \E p \in Panes, on, taken \in BOOLEAN : SetPaneFullscreen(p, on, taken)
  \/ \E granted \in BOOLEAN : FullscreenAnswered(granted)
  \/ UserLeaves

GraphicsNext == PaneNext \/ DrawingNext \/ ScreenNext

GraphicsSpec == GraphicsInit /\ [][GraphicsNext]_graphicsVars

-----------------------------------------------------------------------------
(* Properties. *)

\* Every context a window names exists, and the texture and program it counts
\* on are in its own context, through creations that failed, contexts deleted
\* by the program and surfaces dropped and asked for again (DestroyWindow,
\* GL_DeleteContext, sw_ensure_gl and DestroyWindowFramebuffer of the driver).
NoDeadContext ==
  \A p \in open :
    /\ webgl_context[p] # None => webgl_context[p] \in contexts
    /\ sw_context[p] > 0 => sw_context[p] \in contexts
    /\ p \in sw_gl_ready => sw_context[p] \in painted

\* The pixels of a surface cover what its width, height and pitch say, for every
\* size whose bytes a size_t can hold, also after a resize that found no memory
\* (emscripten_SetWindowSize).
PixelsCoverSurface ==
  \A p \in Panes :
    LET s == surface[p] IN s.side * 4 * s.side <= SizeMax => s.bytes >= s.side * 4 * s.side

\* The window with this canvas says that it is fullscreen.
Says(c) == \E p \in open : Canvas(p) = c /\ p \in fullscreen

\* A canvas is fullscreen only while its window says so, refused requests, users
\* who leave, windows that go and a second window included.  The exceptions are
\* a request still on its way when the program leaves (emscripten_SetWindowFullscreen,
\* line 461) and a "#canvas" whose window went (emscripten_DestroyWindow).
FullscreenTold ==
  screen # NoPane => Says(screen) \/ overtaken \/ (screen = PageCanvas /\ abandoned)

\* src/SDL_video.c:350 reads in the flag whether a window is fullscreen.  The one
\* that is given "#canvas" while it is still fullscreen has no flag, and
\* cannot leave.
NewWindowTold == screen = PageCanvas /\ first # NoPane => Says(screen) \/ overtaken

\* What the driver keeps of the browser's contexts, of the memory of a surface and
\* of the element that is fullscreen is so, whoever failed or left in between.
GraphicsAgree == NoDeadContext /\ PixelsCoverSurface /\ FullscreenTold
===============================================================================
