------------------------------ MODULE GLContexts ------------------------------
(***************************************************************************)
(* OpenGL contexts (src/SDL_gl.c) over EGL on Wayland                      *)
(* (src/video/wayland/sdlop_wayland_gl.c, sdlop_egl_dyn.c), with the       *)
(* windows they draw to and the sessions of the video subsystem            *)
(* (src/SDLop_core.c, src/SDL_video.c).                                    *)
(*                                                                         *)
(* EGL is external.  What it keeps is in bound (the context and surface    *)
(* of the thread) and, per window, in object (an EGL surface exists on its *)
(* wl_egl_window) and interval (that surface's swap interval).  By its     *)
(* specification a wl_egl_window has one surface at a time, and            *)
(* eglSwapBuffers takes only the surface that is bound.  Everything else   *)
(* may fail at any time.                                                   *)
(*                                                                         *)
(* A window is its address, Gone the surface of a destroyed one.  Visuals, *)
(* versions and profiles, names of functions and the events sent are left  *)
(* out.  All of it runs on one thread.                                     *)
(***************************************************************************)
EXTENDS Integers

CONSTANTS
  Windows,
  Contexts,    \* addresses of contexts
  Sizes,       \* sizes of windows
  Intervals,   \* swap intervals the application asks for
  MaxSessions, \* bound: how often video is initialised
  MaxLoads,    \* bound: egl_load_refcount
  Careful,     \* the application looks functions up after it made a context, and
               \* uses OpenGL in one session of video at most
  None, Gone

ASSUME GLAssumption ==
  /\ None \notin Windows \cup Contexts /\ Gone \notin Windows \cup {None}
  /\ Sizes \subseteq Nat \ {0} /\ Intervals \subseteq Nat
  /\ MaxSessions \in Nat /\ MaxLoads \in Nat
  /\ Careful \in BOOLEAN

VARIABLES
  video,              \* sdlop.video is set
  session,            \* counts initialisations of video: tells displays apart
  win,                \* the windows and their driver data; a size of 0: not a window
  contexts,           \* contexts made and not deleted
  share,              \* sdlop_glattrs.share_with_current_context
  current_context, current_window,
  swap_interval,
  egl_load_refcount,  \* libEGL is loaded while it is not 0
  egl_initialized,
  egl_display,        \* the session whose wl_display it was made from, 0: none
  bound,              \* what EGL has bound to the thread
  fault               \* the first call that went nowhere: "unloaded" (a null function),
                      \* "stale" (a display that is gone), "freed" (a freed context)

eglVars == <<egl_load_refcount, egl_initialized, egl_display>>
toldVars == <<current_context, current_window>>
sessionVars == <<video, session>>
vars == <<sessionVars, win, contexts, share, toldVars, swap_interval, eglVars, bound, fault>>

Blank == [size |-> 0, buffer |-> FALSE, shell |-> "none",
          egl_window |-> 0, gl_surface |-> FALSE, gl_active |-> FALSE,
          object |-> FALSE, interval |-> 1]

Unbound == [context |-> None, surface |-> None]

Init ==
  /\ video = FALSE /\ session = 0
  /\ win = [w \in Windows |-> Blank]
  /\ contexts = {} /\ share = FALSE /\ current_context = None /\ current_window = None
  /\ swap_interval = 0
  /\ egl_load_refcount = 0 /\ egl_initialized = FALSE /\ egl_display = 0
  /\ bound = Unbound /\ fault = None

Live(w) == win[w].size > 0

Running == video /\ fault = None

-----------------------------------------------------------------------------
(* libEGL and its display. *)

Callable == egl_load_refcount > 0
Usable == Callable /\ egl_display = session

\* The flag egl_initialized outlived the session it was set in.
Stale == egl_initialized /\ ~Usable

Crash ==
  /\ fault' = IF Callable THEN "stale" ELSE "unloaded"
  /\ UNCHANGED <<sessionVars, win, contexts, share, toldVars, swap_interval, eglVars, bound>>

\* ensure_egl_display, with what came of it: libEGL may be missing, and the display
\* may refuse; the library then stays loaded.
EnsureEglDisplay(outcome) ==
  IF egl_initialized
  THEN outcome = "ok" /\ UNCHANGED eglVars
  ELSE CASE outcome = "no library" -> ~Callable /\ UNCHANGED eglVars
         [] outcome = "no display" ->
              /\ egl_load_refcount < MaxLoads
              /\ egl_load_refcount' = egl_load_refcount + 1
              /\ UNCHANGED <<egl_initialized, egl_display>>
         [] outcome = "ok" ->
              /\ egl_load_refcount < MaxLoads
              /\ egl_load_refcount' = egl_load_refcount + 1
              /\ egl_initialized' = TRUE
              /\ egl_display' = session

Outcomes == {"no library", "no display", "ok"}

-----------------------------------------------------------------------------
(* Making a context current: SDLOP_Wayland_GL_MakeCurrent. *)

\* How far it gets: not to the wl_egl_window, to the window but no EGL surface, to
\* eglMakeCurrent, which fails, or to the end.
Reaches == {"nothing", "egl_window", "surface", "bound"}

\* EGL refuses a second surface on a wl_egl_window.
MayReach(w, reach) ==
  \/ reach = "nothing"
  \/ w = None /\ reach # "egl_window"
  \/ w # None /\ IF win[w].gl_surface THEN reach # "egl_window"
                 ELSE win[w].object => reach = "egl_window"

WithEglWindow(r) == IF r.egl_window = 0 THEN [r EXCEPT !.egl_window = r.size] ELSE r

\* A new EGL surface has a swap interval of 1.
WithSurface(r) ==
  IF r.gl_surface THEN r
  ELSE [WithEglWindow(r) EXCEPT !.gl_surface = TRUE, !.object = TRUE, !.interval = 1]

\* Mutant: only a new surface is marked as drawn to.
PreparedWhenNew(r, reach) ==
  CASE reach = "nothing" -> r
    [] reach = "egl_window" -> WithEglWindow(r)
    [] reach = "surface" -> [WithSurface(r) EXCEPT !.gl_active = @ \/ ~r.gl_surface]
    [] reach = "bound" ->
         [WithSurface(r) EXCEPT !.gl_active = @ \/ ~r.gl_surface, !.interval = swap_interval]

\* Mutant: the swap interval is left as it was set for the last surface.
PreparedKeepsInterval(r, reach) ==
  CASE reach = "nothing" -> r
    [] reach = "egl_window" -> WithEglWindow(r)
    [] OTHER -> [WithSurface(r) EXCEPT !.gl_active = TRUE]

Prepared(r, reach) ==
  CASE reach = "nothing" -> r
    [] reach = "egl_window" -> WithEglWindow(r)
    [] reach = "surface" -> [WithSurface(r) EXCEPT !.gl_active = TRUE]
    [] reach = "bound" ->
         [WithSurface(r) EXCEPT !.gl_active = TRUE, !.interval = swap_interval]

Prepare(w, reach) ==
  win' = IF w = None THEN win ELSE [win EXCEPT ![w] = Prepared(win[w], reach)]

Tell(c, w) ==
  /\ current_context' = c
  /\ current_window' = IF c = None THEN None ELSE w

\* An OpenGL call of the application that goes to EGL.
GlCall == Running /\ (Careful => ~Stale)

\* SDL_GL_MakeCurrent(w, c); without a window EGL binds no surface.
MakeCurrent(w, c) ==
  /\ GlCall /\ (w # None => Live(w)) /\ c \in contexts
  /\ IF Stale THEN Crash
     ELSE /\ \E outcome \in Outcomes :
               /\ EnsureEglDisplay(outcome)
               /\ IF outcome # "ok" THEN UNCHANGED <<win, bound, toldVars>>
                  ELSE \E reach \in Reaches :
                         /\ MayReach(w, reach)
                         /\ Prepare(w, reach)
                         /\ IF reach = "bound"
                            THEN bound' = [context |-> c, surface |-> w] /\ Tell(c, w)
                            ELSE UNCHANGED <<bound, toldVars>>
          /\ UNCHANGED <<sessionVars, contexts, share, swap_interval, fault>>

\* Mutant: SDL notes that no context is current, and EGL keeps it.
MakeNoneCurrentInSdl(w) ==
  /\ GlCall /\ (w # None => Live(w))
  /\ Tell(None, w)
  /\ UNCHANGED <<sessionVars, win, contexts, share, swap_interval, eglVars, bound, fault>>

\* SDL_GL_MakeCurrent(w, NULL)
MakeNoneCurrent(w) ==
  /\ GlCall /\ (w # None => Live(w))
  /\ IF Stale THEN Crash
     ELSE /\ \E outcome \in Outcomes :
               /\ EnsureEglDisplay(outcome)
               /\ IF outcome # "ok" THEN UNCHANGED <<win, bound, toldVars>>
                  ELSE /\ bound' = Unbound
                       /\ win' = IF w = None THEN win
                                 ELSE [win EXCEPT ![w].gl_active = FALSE]
                       /\ Tell(None, w)
          /\ UNCHANGED <<sessionVars, contexts, share, swap_interval, fault>>

-----------------------------------------------------------------------------
(* Contexts. *)

\* SDLOP_Wayland_GL_CreateContext shares with the current context when the attribute
\* says so, and reads it to do so.
ReadsFreed == share /\ current_context # None /\ current_context \notin contexts

\* SDL_GL_CreateContext(w), where malloc returns c.  If the new context cannot be made
\* current it is deleted, which unbinds whatever was bound.
CreateContext(w, c) ==
  /\ GlCall /\ Live(w) /\ c \notin contexts
  /\ IF Stale THEN Crash
     ELSE /\ \E outcome \in Outcomes, created \in BOOLEAN :
               /\ EnsureEglDisplay(outcome)
               /\ fault' = IF outcome = "ok" /\ ReadsFreed THEN "freed" ELSE None
               /\ IF outcome # "ok" \/ ~created
                  THEN UNCHANGED <<win, contexts, bound, toldVars>>
                  ELSE \E reach \in Reaches :
                         /\ MayReach(w, reach)
                         /\ Prepare(w, reach)
                         /\ IF reach = "bound"
                            THEN /\ contexts' = contexts \cup {c}
                                 /\ bound' = [context |-> c, surface |-> w]
                                 /\ Tell(c, w)
                            ELSE bound' = Unbound /\ UNCHANGED <<contexts, toldVars>>
          /\ UNCHANGED <<sessionVars, share, swap_interval>>

\* Mutant: the context that is destroyed stays the current one.
DestroyContextKeepsCurrent(c) ==
  /\ fault = None /\ c \in contexts /\ (Careful /\ video => ~Stale)
  /\ IF video /\ Stale THEN Crash
     ELSE /\ IF video THEN bound' = Unbound /\ contexts' = contexts \ {c}
             ELSE UNCHANGED <<bound, contexts>>
          /\ UNCHANGED <<sessionVars, win, share, toldVars, swap_interval, eglVars, fault>>

\* SDL_GL_DestroyContext(c); without video nothing frees it.
DestroyContext(c) ==
  /\ fault = None /\ c \in contexts /\ (Careful /\ video => ~Stale)
  /\ IF video /\ Stale THEN Crash
     ELSE /\ IF current_context = c THEN Tell(None, None) ELSE UNCHANGED toldVars
          /\ IF video THEN bound' = Unbound /\ contexts' = contexts \ {c}
             ELSE UNCHANGED <<bound, contexts>>
          /\ UNCHANGED <<sessionVars, win, share, swap_interval, eglVars, fault>>

\* SDL_GL_SetAttribute(SDL_GL_SHARE_WITH_CURRENT_CONTEXT, value)
SetAttribute(value) ==
  /\ fault = None /\ share' = value
  /\ UNCHANGED <<sessionVars, win, contexts, toldVars, swap_interval, eglVars, bound, fault>>

ResetAttributes == SetAttribute(FALSE)

\* SDL_GL_GetProcAddress calls eglGetProcAddress, loaded or not.
GetProcAddress ==
  /\ Running /\ (Careful => Callable)
  /\ IF Callable THEN UNCHANGED vars ELSE Crash

-----------------------------------------------------------------------------
(* Presenting. *)

\* SDL_GL_SetSwapInterval; eglSwapInterval is about the surface that is bound.
SetSwapInterval(i) ==
  /\ GlCall
  /\ IF Stale THEN Crash
     ELSE /\ swap_interval' = i
          /\ win' = IF bound.surface \in Windows
                    THEN [win EXCEPT ![bound.surface].interval = i] ELSE win
          /\ UNCHANGED <<sessionVars, contexts, share, toldVars, eglVars, bound, fault>>

\* SDL_GL_SwapWindow would attach a buffer to the wl_surface and commit it.
Presents(w) == Live(w) /\ win[w].gl_surface /\ bound.surface = w

\* SDL_GL_SwapWindow.  A surface that is bound is presented; for any other EGL says
\* EGL_BAD_SURFACE, and the driver forgets the surface.
SwapWindow(w) ==
  /\ Running /\ Live(w) /\ win[w].gl_surface
  /\ win' = IF Presents(w) THEN win ELSE [win EXCEPT ![w].gl_surface = FALSE]
  /\ UNCHANGED <<sessionVars, contexts, share, toldVars, swap_interval, eglVars, bound, fault>>

-----------------------------------------------------------------------------
(* Windows. *)

\* Mutant: the EGL window is resized only while OpenGL is active on the window.
CreateBufferIfActive(r, ok) ==
  [r EXCEPT !.buffer = ok,
            !.egl_window = IF ok /\ @ > 0 /\ r.gl_active THEN r.size ELSE @]

\* window_create_buffer; the old buffer is gone when it fails.
CreateBuffer(r, ok) ==
  [r EXCEPT !.buffer = ok, !.egl_window = IF ok /\ @ > 0 THEN r.size ELSE @]

WindowStep(w, r) ==
  /\ win' = [win EXCEPT ![w] = r]
  /\ UNCHANGED <<sessionVars, contexts, share, toldVars, swap_interval, eglVars, bound, fault>>

CreateWindow(w, s) ==
  /\ Running /\ ~Live(w)
  /\ WindowStep(w, [Blank EXCEPT !.size = s, !.shell = "role"])

\* A configure with a size: xsurface_configure
Configure(w, s, ok) ==
  /\ Running /\ Live(w) /\ win[w].shell # "none"
  /\ LET r == [win[w] EXCEPT !.shell = "configured"]
     IN  WindowStep(w, IF s # r.size \/ ~r.buffer
                       THEN CreateBuffer([r EXCEPT !.size = s], ok) ELSE r)

SetWindowSize(w, s, ok) ==
  /\ Running /\ Live(w)
  /\ WindowStep(w, CreateBuffer([win[w] EXCEPT !.size = s], ok))

\* The role goes, and the surface is committed without a buffer.
HideWindow(w) ==
  /\ Running /\ Live(w) /\ win[w].shell # "none"
  /\ WindowStep(w, [win[w] EXCEPT !.shell = "none"])

ShowWindow(w) ==
  /\ Running /\ Live(w) /\ win[w].shell = "none"
  /\ WindowStep(w, [win[w] EXCEPT !.shell = "role"])

\* A surface that is destroyed stays with the thread it is bound to.
Outlived(gone) ==
  IF bound.surface \in gone THEN [bound EXCEPT !.surface = Gone] ELSE bound

\* wayland_DestroyWindow calls SDLOP_Wayland_GL_WindowDestroyed, which destroys the
\* EGL surface of the slot.
DestroyWindow(w) ==
  /\ Running /\ Live(w)
  /\ IF win[w].gl_surface /\ Stale THEN Crash
     ELSE /\ win' = [win EXCEPT ![w] = Blank]
          /\ bound' = Outlived({w})
          /\ UNCHANGED <<sessionVars, contexts, share, toldVars, swap_interval, eglVars, fault>>

-----------------------------------------------------------------------------
(* Sessions. *)

\* SDL_Init with SDL_INIT_VIDEO
InitVideo ==
  /\ fault = None /\ ~video /\ session < MaxSessions
  /\ video' = TRUE /\ session' = session + 1
  /\ UNCHANGED <<win, contexts, share, toldVars, swap_interval, eglVars, bound, fault>>

\* Mutant: the library is released though it was never loaded.
UnloadSymbolsAnyway == egl_load_refcount' = egl_load_refcount - 1

\* SDLOP_EGL_UnloadSymbols
UnloadSymbols == egl_load_refcount' = IF Callable THEN egl_load_refcount - 1 ELSE 0

\* SDL_Quit or SDL_QuitSubSystem: the windows that are left are destroyed while EGL
\* is there, then wayland_Quit releases the library and disconnects the display.
QuitVideo ==
  /\ Running
  /\ IF (\E w \in Windows : win[w].gl_surface) /\ Stale THEN Crash
     ELSE /\ win' = [w \in Windows |-> Blank]
          /\ bound' = Outlived(Windows)
          /\ UnloadSymbols
          /\ video' = FALSE
          /\ UNCHANGED <<session, contexts, share, toldVars, swap_interval, egl_initialized,
                         egl_display, fault>>

-----------------------------------------------------------------------------
Next ==
  \/ InitVideo \/ QuitVideo
  \/ \E w \in Windows, s \in Sizes : CreateWindow(w, s)
  \/ \E w \in Windows, s \in Sizes, ok \in BOOLEAN : Configure(w, s, ok)
  \/ \E w \in Windows, s \in Sizes, ok \in BOOLEAN : SetWindowSize(w, s, ok)
  \/ \E w \in Windows : HideWindow(w) \/ ShowWindow(w) \/ DestroyWindow(w)
  \/ \E w \in Windows, c \in Contexts : CreateContext(w, c)
  \/ \E w \in Windows \cup {None}, c \in Contexts : MakeCurrent(w, c)
  \/ \E w \in Windows \cup {None} : MakeNoneCurrent(w)
  \/ \E c \in Contexts : DestroyContext(c)
  \/ \E value \in BOOLEAN : SetAttribute(value)
  \/ ResetAttributes
  \/ GetProcAddress
  \/ \E i \in Intervals : SetSwapInterval(i)
  \/ \E w \in Windows : SwapWindow(w)

Spec == Init /\ [][Next]_vars

-----------------------------------------------------------------------------
(* Properties. *)

\* The variables have their types, and what the driver and EGL keep of a window is
\* consistent: the slot names an EGL surface, and that is on a wl_egl_window.
WindowState ==
  [size : Sizes \cup {0}, buffer : BOOLEAN, shell : {"none", "role", "configured"},
   egl_window : Sizes \cup {0}, gl_surface : BOOLEAN, gl_active : BOOLEAN,
   object : BOOLEAN, interval : Intervals \cup {0, 1}]

WindowOK(r) ==
  /\ r \in WindowState
  /\ r.gl_surface => r.object
  /\ r.object => r.egl_window > 0
  /\ r.size = 0 => r = Blank

TypeOK ==
  /\ video \in BOOLEAN /\ session \in 0..MaxSessions
  /\ win \in [Windows -> WindowState] /\ \A w \in Windows : WindowOK(win[w])
  /\ contexts \subseteq Contexts /\ share \in BOOLEAN
  /\ current_context \in Contexts \cup {None} /\ current_window \in Windows \cup {None}
  /\ swap_interval \in Intervals \cup {0}
  /\ egl_load_refcount \in 0..MaxLoads /\ egl_initialized \in BOOLEAN
  /\ egl_display \in 0..session
  /\ bound \in [context : Contexts \cup {None}, surface : Windows \cup {None, Gone}]

\* No call of a careful application reaches a null function, a display that is gone
\* or a context that was freed: destroying, sharing, failing and quitting keep the
\* library, the display and the context alive for as long as something uses them.
NoFault == fault = None

\* As long as its display is there, EGL never draws with a context
\* SDL_GL_GetCurrentContext does not report, nor to a window SDL_GL_GetCurrentWindow
\* does not report.
BoundAsTold ==
  video /\ Usable /\ bound.context # None =>
    /\ bound.context = current_context
    /\ bound.surface # Gone => bound.surface = current_window

\* The window OpenGL draws to is marked so: window_commit and
\* SDL_UpdateWindowSurface, which look at gl_active, attach no buffer of their own.
ActiveWhereBound ==
  bound.surface \in Windows => win[bound.surface].gl_active /\ win[bound.surface].gl_surface

\* The EGL window has the size of its window, whoever resized it, unless the buffer
\* of that size could not be made.
EglWindowFits ==
  \A w \in Windows :
    win[w].buffer /\ win[w].egl_window > 0 => win[w].egl_window = win[w].size

\* The swap interval asked for is that of the surface that is drawn to, also when
\* another window is made current after it was set, or the surface is new.
IntervalApplied ==
  bound.surface \in Windows => win[bound.surface].interval = swap_interval

\* SDL_video.h:319 says that SDL_GL_GetCurrentContext returns the currently active
\* context.  The code does not keep it: see the findings.
CurrentIsBound == current_context # None /\ video => bound.context = current_context

\* SDL_video.h:314 says the same of the window.  The code does not keep it: see the
\* findings.
CurrentWindowLives == current_window # None /\ video => Live(current_window)

\* The comment before wayland_create_role_objects: a surface needs a new configure
\* before a buffer may be attached again.  The code does not keep it for buffers EGL
\* attaches: see the findings.
PresentsConfigured ==
  \A w \in Windows : video /\ Presents(w) => win[w].shell = "configured"

\* A surface that went away is made again when it is needed, says the comment in
\* SDLOP_Wayland_GL_SwapBuffers.  A surface EGL still has on the wl_egl_window is in
\* the way of that: see the findings.
CanBeRemade == \A w \in Windows : win[w].object => win[w].gl_surface

\* SDL_video.h:283 says that the symbols of EGL are released when the video subsystem
\* shuts down.  The code does not keep it: see the findings.
ReleasedAtQuit == ~video => egl_load_refcount = 0

(* SDL, the driver and EGL have one idea of what is drawn to: EGL has        *)
(* nothing current that SDL does not report, and the driver leaves that      *)
(* window's buffers to it.                                                   *)
DrawnAsTold == TypeOK /\ BoundAsTold /\ ActiveWhereBound
=============================================================================
