--------------------------- MODULE GLContextsProofs ---------------------------
(***************************************************************************)
(* Proofs about OpenGL contexts: what EGL has bound is what SDL reports,   *)
(* the window it draws to is marked, has the right size and the swap       *)
(* interval that was asked for, and a careful application never makes EGL  *)
(* be called when it is gone; for any number of windows, contexts, sizes   *)
(* and sessions.                                                           *)
(***************************************************************************)
EXTENDS GLContexts, TLAPS

\* Nothing is bound before the display is there.
UnboundBefore == ~egl_initialized => bound = Unbound /\ contexts = {}

\* Windows have EGL surfaces only while the display they were made from is there.
SurfacesUsable ==
  \A w \in Windows : win[w].gl_surface => video /\ egl_initialized /\ Usable

\* SDL_GL_GetCurrentContext returns no context that was deleted.
CurrentLives == current_context # None => current_context \in contexts

GLInv ==
  /\ TypeOK /\ BoundAsTold /\ ActiveWhereBound /\ EglWindowFits /\ IntervalApplied
  /\ UnboundBefore /\ SurfacesUsable /\ CurrentLives

\* What the invariant says of one window.
Fits(r) == r.buffer /\ r.egl_window > 0 => r.egl_window = r.size
WindowInv(r) == WindowOK(r) /\ Fits(r)

-----------------------------------------------------------------------------
(* What the driver does to one window. *)

\* A window that was never created is in order.
LEMMA BlankFits == WindowInv(Blank) /\ Blank.size = 0 /\ ~Blank.gl_surface
BY GLAssumption DEF WindowInv, WindowOK, WindowState, Fits, Blank

\* Preparing a window for OpenGL keeps it in order and takes nothing away from it;
\* once the context is bound, the window is marked and has the swap interval.
LEMMA PreparedFits ==
  ASSUME NEW r, WindowInv(r), r.size > 0, NEW reach \in Reaches,
         swap_interval \in Intervals \cup {0},
         reach = "egl_window" => ~r.gl_surface
  PROVE  LET p == Prepared(r, reach)
         IN  /\ WindowInv(p) /\ p.size = r.size
             /\ r.gl_surface => p.gl_surface
             /\ r.gl_active => p.gl_active
             /\ r.gl_surface /\ reach # "bound" => p.interval = r.interval
             /\ reach = "bound" => p.gl_surface /\ p.gl_active /\ p.interval = swap_interval
<1>1. /\ r \in WindowState /\ Fits(r) /\ r.size # 0
      /\ r.gl_surface => r.object
      /\ r.object => r.egl_window > 0
  BY GLAssumption DEF WindowInv, WindowOK, WindowState
<1>2. DEFINE e == WithEglWindow(r)
<1>3. /\ e \in WindowState /\ Fits(e) /\ e.size = r.size /\ e.egl_window > 0
      /\ e.gl_surface = r.gl_surface /\ e.gl_active = r.gl_active
      /\ e.object = r.object /\ e.interval = r.interval
  BY <1>1, GLAssumption DEF WithEglWindow, WindowState, Fits
<1>4. DEFINE f == WithSurface(r)
<1>5. /\ f \in WindowState /\ Fits(f) /\ f.size = r.size /\ f.egl_window > 0
      /\ f.gl_surface /\ f.object /\ f.gl_active = r.gl_active
      /\ r.gl_surface => f.interval = r.interval
  <2>1. CASE r.gl_surface
    BY <2>1, <1>1 DEF WithSurface, WindowState
  <2>2. CASE ~r.gl_surface
    <3>1. f = [e EXCEPT !.gl_surface = TRUE, !.object = TRUE, !.interval = 1]
      BY <2>2 DEF WithSurface
    <3> HIDE DEF e, f
    <3>2. QED
      BY <3>1, <2>2, <1>3 DEF WindowState, Fits
  <2>3. QED
    BY <2>1, <2>2
<1> HIDE DEF e, f
<1>6. CASE reach = "nothing"
  BY <1>6, <1>1 DEF Prepared, WindowInv
<1>7. CASE reach = "egl_window"
  <2>1. Prepared(r, reach) = e
    BY <1>7 DEF Prepared, e
  <2>2. QED
    BY <2>1, <1>1, <1>3, <1>7 DEF WindowInv, WindowOK
<1>8. CASE reach = "surface"
  <2>1. Prepared(r, reach) = [f EXCEPT !.gl_active = TRUE]
    BY <1>8 DEF Prepared, f
  <2>2. QED
    BY <2>1, <1>1, <1>5, <1>8 DEF WindowInv, WindowOK, WindowState, Fits
<1>9. CASE reach = "bound"
  <2>1. Prepared(r, reach) = [f EXCEPT !.gl_active = TRUE, !.interval = swap_interval]
    BY <1>9 DEF Prepared, f
  <2>2. QED
    BY <2>1, <1>1, <1>5, <1>9 DEF WindowInv, WindowOK, WindowState, Fits
<1>10. QED
  BY <1>6, <1>7, <1>8, <1>9 DEF Reaches

\* A new buffer brings the EGL window to the size of the window.
LEMMA BufferFits ==
  ASSUME NEW r, WindowInv(r), r.size > 0, NEW s \in Sizes, NEW ok \in BOOLEAN
  PROVE  LET b == CreateBuffer([r EXCEPT !.size = s], ok)
         IN  /\ WindowInv(b) /\ b.size > 0
             /\ b.gl_surface = r.gl_surface /\ b.gl_active = r.gl_active
             /\ b.interval = r.interval
<1>1. DEFINE q == [r EXCEPT !.size = s]
<1>2. /\ q \in WindowState /\ q.size = s /\ s > 0 /\ q.egl_window = r.egl_window
      /\ q.gl_surface = r.gl_surface /\ q.gl_active = r.gl_active /\ q.object = r.object
      /\ q.interval = r.interval
      /\ q.gl_surface => q.object
      /\ q.object => q.egl_window > 0
  BY GLAssumption DEF WindowInv, WindowOK, WindowState
<1> HIDE DEF q
<1>3. LET b == CreateBuffer(q, ok)
      IN  /\ WindowInv(b) /\ b.size = s
          /\ b.gl_surface = q.gl_surface /\ b.gl_active = q.gl_active
          /\ b.interval = q.interval
  BY <1>2, GLAssumption DEF CreateBuffer, WindowInv, WindowOK, WindowState, Fits
<1>4. QED
  BY <1>2, <1>3 DEF q

-----------------------------------------------------------------------------
(* The steps. *)

\* What the invariant says, window by window.
LEMMA Windowwise == GLInv => \A w \in Windows : WindowInv(win[w])
BY DEF GLInv, TypeOK, EglWindowFits, WindowInv, Fits

LEMMA GLInvInit == Init => GLInv
<1> SUFFICES ASSUME Init PROVE GLInv
  OBVIOUS
<1>1. Blank \in WindowState /\ WindowOK(Blank) /\ Fits(Blank) /\ ~Blank.gl_surface
  BY BlankFits DEF WindowInv, WindowOK
<1>2. \A w \in Windows : win[w] = Blank
  BY DEF Init
<1>3. TypeOK
  <2>1. win \in [Windows -> WindowState] /\ \A w \in Windows : WindowOK(win[w])
    BY <1>1, <1>2 DEF Init
  <2>2. bound \in [context : Contexts \cup {None}, surface : Windows \cup {None, Gone}]
    BY DEF Init, Unbound
  <2>3. /\ session \in 0..MaxSessions /\ egl_load_refcount \in 0..MaxLoads
        /\ egl_display \in 0..session /\ swap_interval \in Intervals \cup {0}
    BY GLAssumption DEF Init
  <2>4. /\ video \in BOOLEAN /\ share \in BOOLEAN /\ egl_initialized \in BOOLEAN
        /\ contexts \subseteq Contexts /\ current_context \in Contexts \cup {None}
        /\ current_window \in Windows \cup {None}
    BY DEF Init
  <2>5. QED
    BY <2>1, <2>2, <2>3, <2>4 DEF TypeOK
<1>4. bound.context = None /\ bound.surface = None /\ None \notin Windows
  BY GLAssumption DEF Init, Unbound
<1>5. QED
  BY <1>1, <1>2, <1>3, <1>4 DEF Init, GLInv, BoundAsTold, ActiveWhereBound, EglWindowFits,
     IntervalApplied, UnboundBefore, SurfacesUsable, CurrentLives, Fits

\* A step of one window that leaves the rest alone, gives the window no EGL surface,
\* and does not touch what EGL uses of the window it draws to.
LEMMA OneWindow ==
  ASSUME GLInv, NEW w \in Windows, NEW r, WindowInv(r), WindowStep(w, r),
         r.gl_surface => win[w].gl_surface,
         bound.surface = w => r.gl_surface /\ r.gl_active /\ r.interval = win[w].interval
  PROVE  GLInv'
<1>1. TypeOK
  BY DEF GLInv
<1>2. /\ win' = [win EXCEPT ![w] = r]
      /\ UNCHANGED <<sessionVars, contexts, share, toldVars, swap_interval, eglVars, bound,
                     fault>>
  BY DEF WindowStep
<1>3. win'[w] = r /\ \A v \in Windows \ {w} : win'[v] = win[v]
  BY <1>1, <1>2 DEF TypeOK
<1>4. r \in WindowState /\ WindowOK(r) /\ Fits(r)
  BY DEF WindowInv, WindowOK
<1>5. TypeOK'
  BY <1>1, <1>2, <1>3, <1>4 DEF TypeOK, sessionVars, toldVars, eglVars
<1>6. EglWindowFits'
  BY <1>3, <1>4 DEF GLInv, EglWindowFits, Fits
<1>7. ActiveWhereBound' /\ IntervalApplied'
  BY <1>2, <1>3 DEF GLInv, ActiveWhereBound, IntervalApplied
<1>8. SurfacesUsable'
  BY <1>2, <1>3 DEF GLInv, SurfacesUsable, Usable, Callable, sessionVars, eglVars
<1>9. BoundAsTold' /\ UnboundBefore' /\ CurrentLives'
  BY <1>2 DEF GLInv, BoundAsTold, UnboundBefore, CurrentLives, Usable, Callable,
     sessionVars, toldVars, eglVars
<1>10. QED
  BY <1>5, <1>6, <1>7, <1>8, <1>9 DEF GLInv

LEMMA CreateWindowStep ==
  ASSUME GLInv, NEW w \in Windows, NEW s \in Sizes, CreateWindow(w, s) PROVE GLInv'
<1>1. DEFINE r == [Blank EXCEPT !.size = s, !.shell = "role"]
<1>2. WindowInv(r) /\ ~r.gl_surface
  BY GLAssumption DEF WindowInv, WindowOK, WindowState, Fits, Blank
<1>3. win[w].size = 0
  BY GLAssumption DEF GLInv, TypeOK, WindowState, CreateWindow, Live
<1>4. ~win[w].gl_surface
  BY <1>3, BlankFits DEF GLInv, TypeOK, WindowOK
<1>5. bound.surface # w
  BY <1>4 DEF GLInv, ActiveWhereBound
<1>6. WindowStep(w, r)
  BY DEF CreateWindow
<1> HIDE DEF r
<1>7. QED
  BY <1>2, <1>5, <1>6, OneWindow

LEMMA ConfigureStep ==
  ASSUME GLInv, NEW w \in Windows, NEW s \in Sizes, NEW ok \in BOOLEAN, Configure(w, s, ok)
  PROVE  GLInv'
<1>1. DEFINE r == [win[w] EXCEPT !.shell = "configured"]
             b == CreateBuffer([r EXCEPT !.size = s], ok)
<1>2. WindowInv(win[w]) /\ win[w].size > 0 /\ win[w] \in WindowState
  BY Windowwise DEF Configure, Live, GLInv, TypeOK
<1>3. /\ WindowInv(r) /\ r.size > 0 /\ r.gl_surface = win[w].gl_surface
      /\ r.gl_active = win[w].gl_active /\ r.interval = win[w].interval
  BY <1>2 DEF WindowInv, WindowOK, WindowState, Fits
<1> HIDE DEF r
<1>4. /\ WindowInv(b) /\ b.gl_surface = r.gl_surface /\ b.gl_active = r.gl_active
      /\ b.interval = r.interval
  BY <1>3, BufferFits
<1>5. WindowStep(w, b) \/ WindowStep(w, r)
  BY DEF Configure, r
<1> HIDE DEF b
<1>6. bound.surface = w => win[w].gl_surface /\ win[w].gl_active
  BY DEF GLInv, ActiveWhereBound
<1>7. QED
  BY <1>3, <1>4, <1>5, <1>6, OneWindow

LEMMA SetWindowSizeStep ==
  ASSUME GLInv, NEW w \in Windows, NEW s \in Sizes, NEW ok \in BOOLEAN,
         SetWindowSize(w, s, ok)
  PROVE  GLInv'
<1>1. DEFINE b == CreateBuffer([win[w] EXCEPT !.size = s], ok)
<1>2. WindowInv(win[w]) /\ win[w].size > 0
  BY Windowwise DEF SetWindowSize, Live
<1>3. /\ WindowInv(b) /\ b.gl_surface = win[w].gl_surface /\ b.gl_active = win[w].gl_active
      /\ b.interval = win[w].interval
  BY <1>2, BufferFits
<1>4. WindowStep(w, b)
  BY DEF SetWindowSize
<1> HIDE DEF b
<1>5. bound.surface = w => win[w].gl_surface /\ win[w].gl_active
  BY DEF GLInv, ActiveWhereBound
<1>6. QED
  BY <1>3, <1>4, <1>5, OneWindow

LEMMA ShellStep ==
  ASSUME GLInv, NEW w \in Windows, HideWindow(w) \/ ShowWindow(w) PROVE GLInv'
<1>1. PICK shell \in {"none", "role"} : Live(w) /\ WindowStep(w, [win[w] EXCEPT !.shell = shell])
  BY DEF HideWindow, ShowWindow
<1>2. DEFINE r == [win[w] EXCEPT !.shell = shell]
<1>3. WindowInv(win[w]) /\ win[w].size > 0 /\ win[w] \in WindowState
  BY <1>1, Windowwise DEF Live, GLInv, TypeOK
<1>4. /\ WindowInv(r) /\ r.gl_surface = win[w].gl_surface
      /\ r.gl_active = win[w].gl_active /\ r.interval = win[w].interval
  BY <1>3 DEF WindowInv, WindowOK, WindowState, Fits
<1>5. WindowStep(w, r)
  BY <1>1
<1> HIDE DEF r
<1>6. bound.surface = w => win[w].gl_surface /\ win[w].gl_active
  BY DEF GLInv, ActiveWhereBound
<1>7. QED
  BY <1>4, <1>5, <1>6, OneWindow

\* A surface that is forgotten is not the one that is bound.
LEMMA SwapWindowStep == ASSUME GLInv, NEW w \in Windows, SwapWindow(w) PROVE GLInv'
<1>1. WindowInv(win[w]) /\ win[w].size > 0 /\ win[w] \in WindowState /\ win[w].gl_surface
  BY Windowwise DEF SwapWindow, Live, GLInv, TypeOK
<1>2. CASE Presents(w)
  <2>1. win' = [win EXCEPT ![w] = win[w]]
    BY <1>2 DEF SwapWindow, GLInv, TypeOK
  <2>2. WindowStep(w, win[w])
    BY <2>1 DEF SwapWindow, WindowStep
  <2>3. bound.surface = w => win[w].gl_surface /\ win[w].gl_active
    BY DEF GLInv, ActiveWhereBound
  <2>4. QED
    BY <1>1, <2>2, <2>3, OneWindow
<1>3. CASE ~Presents(w)
  <2>1. DEFINE r == [win[w] EXCEPT !.gl_surface = FALSE]
  <2>2. WindowInv(r) /\ ~r.gl_surface
    <3>1. /\ r \in WindowState /\ ~r.gl_surface
          /\ r.size = win[w].size /\ r.object = win[w].object
          /\ r.egl_window = win[w].egl_window /\ r.buffer = win[w].buffer
      BY <1>1 DEF WindowState
    <3> HIDE DEF r
    <3>2. win[w].size # 0
      BY <1>1, GLAssumption DEF WindowState
    <3>3. QED
      BY <1>1, <3>1, <3>2 DEF WindowInv, WindowOK, Fits
  <2>3. win' = [win EXCEPT ![w] = r]
    BY <1>3 DEF SwapWindow
  <2>4. WindowStep(w, r)
    BY <2>3 DEF SwapWindow, WindowStep
  <2>5. bound.surface # w
    BY <1>3 DEF SwapWindow, Presents
  <2> HIDE DEF r
  <2>6. QED
    BY <2>2, <2>4, <2>5, OneWindow
<1>4. QED
  BY <1>2, <1>3

\* A call into a library or display that is gone changes nothing but the fault.
LEMMA CrashStep == ASSUME GLInv, Crash PROVE GLInv'
BY DEF Crash, GLInv, TypeOK, BoundAsTold, ActiveWhereBound, EglWindowFits, IntervalApplied,
   UnboundBefore, SurfacesUsable, CurrentLives, Usable, Callable, sessionVars, toldVars,
   eglVars

\* ensure_egl_display leaves a display that can be used, or leaves things as they are
\* but for a library loaded once more.
LEMMA Ensured ==
  ASSUME GLInv, video, ~Stale, NEW outcome \in Outcomes, EnsureEglDisplay(outcome),
         UNCHANGED sessionVars
  PROVE  /\ egl_load_refcount' \in 0..MaxLoads /\ egl_initialized' \in BOOLEAN
         /\ egl_display' \in 0..session'
         /\ outcome = "ok" => egl_initialized' /\ Usable'
         /\ egl_initialized => UNCHANGED eglVars
         /\ ~egl_initialized /\ outcome # "ok" => ~egl_initialized'
<1>1. /\ session \in 0..MaxSessions /\ egl_load_refcount \in 0..MaxLoads
      /\ egl_initialized \in BOOLEAN /\ egl_display \in 0..session
      /\ session' = session
  BY DEF GLInv, TypeOK, sessionVars
<1>2. CASE egl_initialized
  BY <1>1, <1>2 DEF EnsureEglDisplay, Stale, Usable, Callable, eglVars
<1>3. CASE ~egl_initialized /\ outcome = "no library"
  BY <1>1, <1>3 DEF EnsureEglDisplay, eglVars
<1>4. CASE ~egl_initialized /\ outcome = "no display"
  <2>1. /\ egl_load_refcount < MaxLoads /\ egl_load_refcount' = egl_load_refcount + 1
        /\ egl_initialized' = egl_initialized /\ egl_display' = egl_display
    BY <1>4 DEF EnsureEglDisplay
  <2>2. egl_load_refcount' \in 0..MaxLoads /\ egl_display' \in 0..session'
    BY <1>1, <2>1, GLAssumption
  <2>3. QED
    BY <1>1, <1>4, <2>1, <2>2
<1>5. CASE ~egl_initialized /\ outcome = "ok"
  BY <1>1, <1>5, GLAssumption DEF EnsureEglDisplay, Usable, Callable
<1>6. QED
  BY <1>2, <1>3, <1>4, <1>5 DEF Outcomes

\* An attempt to make a context current keeps the windows in order; the window it was
\* made current on has all that the invariant asks of the window OpenGL draws to.
LEMMA PreparedWindows ==
  ASSUME GLInv, NEW w \in Windows \cup {None}, w # None => Live(w),
         NEW reach \in Reaches, MayReach(w, reach), Prepare(w, reach)
  PROVE  /\ win' \in [Windows -> WindowState] /\ \A v \in Windows : WindowInv(win'[v])
         /\ \A v \in Windows :
              win[v].gl_surface => win'[v].gl_surface /\ (win[v].gl_active => win'[v].gl_active)
         /\ \A v \in Windows :
              win[v].gl_surface /\ reach # "bound" => win'[v].interval = win[v].interval
         /\ w \in Windows /\ reach = "bound" =>
              win'[w].gl_surface /\ win'[w].gl_active /\ win'[w].interval = swap_interval
<1>1. win \in [Windows -> WindowState] /\ swap_interval \in Intervals \cup {0}
  BY DEF GLInv, TypeOK
<1>2. \A v \in Windows : WindowInv(win[v])
  BY Windowwise
<1>3. CASE w = None
  <2>1. w \notin Windows /\ win' = win
    BY <1>3, GLAssumption DEF Prepare
  <2>2. QED
    BY <1>1, <1>2, <2>1
<1>4. CASE w # None
  <2>1. w \in Windows /\ win[w].size > 0 /\ WindowInv(win[w])
    BY <1>2, <1>4 DEF Live
  <2>2. reach = "egl_window" => ~win[w].gl_surface
    BY <1>4 DEF MayReach
  <2>3. DEFINE r == Prepared(win[w], reach)
  <2>4. /\ WindowInv(r)
        /\ win[w].gl_surface => r.gl_surface
        /\ win[w].gl_active => r.gl_active
        /\ win[w].gl_surface /\ reach # "bound" => r.interval = win[w].interval
        /\ reach = "bound" => r.gl_surface /\ r.gl_active /\ r.interval = swap_interval
    BY <1>1, <2>1, <2>2, PreparedFits
  <2>5. win' = [win EXCEPT ![w] = r]
    BY <1>4 DEF Prepare
  <2> HIDE DEF r
  <2>6. r \in WindowState
    BY <2>4 DEF WindowInv, WindowOK
  <2>7. win'[w] = r /\ \A v \in Windows \ {w} : win'[v] = win[v]
    BY <1>1, <2>1, <2>5
  <2>8. win' \in [Windows -> WindowState]
    BY <1>1, <2>1, <2>5, <2>6
  <2>9. QED
    BY <1>2, <2>1, <2>4, <2>7, <2>8
<1>5. QED
  BY <1>3, <1>4

\* A step of the current session in which EGL is there at the end, or nothing but its
\* library changes: what the invariant needs of the windows and of what is bound.
LEMMA EglStep ==
  ASSUME GLInv, video, ~Stale, NEW outcome \in Outcomes, EnsureEglDisplay(outcome),
         UNCHANGED <<sessionVars, share, swap_interval>>,
         win' \in [Windows -> WindowState], \A v \in Windows : WindowInv(win'[v]),
         contexts' \subseteq Contexts,
         current_context' \in Contexts \cup {None}, current_window' \in Windows \cup {None},
         bound' \in [context : Contexts \cup {None}, surface : Windows \cup {None, Gone}],
         outcome # "ok" => UNCHANGED <<win, contexts, bound, toldVars>>,
         bound'.context # None =>
           /\ bound'.context = current_context'
           /\ bound'.surface # Gone => bound'.surface = current_window',
         ActiveWhereBound', IntervalApplied', CurrentLives'
  PROVE  GLInv'
<1>1. /\ egl_load_refcount' \in 0..MaxLoads /\ egl_initialized' \in BOOLEAN
      /\ egl_display' \in 0..session'
      /\ outcome = "ok" => egl_initialized' /\ Usable'
      /\ egl_initialized => UNCHANGED eglVars
  BY Ensured
<1>2. \A v \in Windows : WindowOK(win'[v]) /\ Fits(win'[v])
  BY DEF WindowInv
<1>3. TypeOK'
  BY <1>1, <1>2 DEF GLInv, TypeOK, sessionVars
<1>4. EglWindowFits'
  BY <1>2 DEF EglWindowFits, Fits
<1>5. BoundAsTold'
  BY DEF BoundAsTold
<1>6. UnboundBefore' /\ SurfacesUsable'
  <2>1. CASE outcome = "ok"
    BY <1>1, <2>1 DEF UnboundBefore, SurfacesUsable, sessionVars
  <2>2. CASE outcome # "ok"
    <3>1. UNCHANGED <<win, contexts, bound, video>>
      BY <2>2 DEF sessionVars
    <3>2. CASE egl_initialized
      BY <1>1, <3>1, <3>2 DEF GLInv, UnboundBefore, SurfacesUsable, Usable, Callable, eglVars,
         sessionVars
    <3>3. CASE ~egl_initialized
      BY <3>1, <3>3 DEF GLInv, UnboundBefore, SurfacesUsable
    <3>4. QED
      BY <3>2, <3>3
  <2>3. QED
    BY <2>1, <2>2
<1>7. QED
  BY <1>3, <1>4, <1>5, <1>6 DEF GLInv

\* The display is there, and the call does nothing more.
LEMMA EglReady ==
  ASSUME GLInv, video, ~Stale, EnsureEglDisplay("ok"),
         UNCHANGED <<sessionVars, share, swap_interval>>,
         UNCHANGED <<win, contexts, bound, toldVars>>
  PROVE  GLInv'
<1>1. TypeOK /\ "ok" \in Outcomes
  BY DEF GLInv, Outcomes
<1>2. UNCHANGED <<win, contexts, bound, current_context, current_window, swap_interval>>
  BY DEF toldVars
<1>3. \A v \in Windows : WindowInv(win'[v])
  BY <1>2, Windowwise
<1>4. ActiveWhereBound' /\ IntervalApplied' /\ CurrentLives'
  BY <1>2 DEF GLInv, ActiveWhereBound, IntervalApplied, CurrentLives
<1>5. bound.context # None =>
        /\ bound.context = current_context
        /\ bound.surface # Gone => bound.surface = current_window
  <2>1. CASE egl_initialized
    BY <2>1 DEF GLInv, BoundAsTold, Stale
  <2>2. CASE ~egl_initialized
    BY <2>2 DEF GLInv, UnboundBefore, Unbound
  <2>3. QED
    BY <2>1, <2>2
<1>6. /\ win' \in [Windows -> WindowState] /\ contexts' \subseteq Contexts
      /\ current_context' \in Contexts \cup {None} /\ current_window' \in Windows \cup {None}
      /\ bound' \in [context : Contexts \cup {None}, surface : Windows \cup {None, Gone}]
  BY <1>1, <1>2 DEF TypeOK
<1>7. QED
  BY <1>1, <1>2, <1>3, <1>4, <1>5, <1>6, EglStep

\* The display cannot be had, and the call does nothing more.
LEMMA EglFails ==
  ASSUME GLInv, video, ~Stale, NEW outcome \in Outcomes, EnsureEglDisplay(outcome),
         outcome # "ok", UNCHANGED <<sessionVars, share, swap_interval>>,
         UNCHANGED <<win, bound, toldVars>>, UNCHANGED contexts
  PROVE  GLInv'
<1>1. TypeOK /\ ~egl_initialized
  BY DEF GLInv, EnsureEglDisplay
<1>2. UNCHANGED <<win, contexts, bound, current_context, current_window, swap_interval>>
  BY DEF toldVars
<1>3. \A v \in Windows : WindowInv(win'[v])
  BY <1>2, Windowwise
<1>4. ActiveWhereBound' /\ IntervalApplied' /\ CurrentLives'
  BY <1>2 DEF GLInv, ActiveWhereBound, IntervalApplied, CurrentLives
<1>5. bound.context = None
  BY <1>1 DEF GLInv, UnboundBefore, Unbound
<1>6. /\ win' \in [Windows -> WindowState] /\ contexts' \subseteq Contexts
      /\ current_context' \in Contexts \cup {None} /\ current_window' \in Windows \cup {None}
      /\ bound' \in [context : Contexts \cup {None}, surface : Windows \cup {None, Gone}]
  BY <1>1, <1>2 DEF TypeOK
<1>7. QED
  BY <1>2, <1>3, <1>4, <1>5, <1>6, EglStep

LEMMA MakeCurrentStep ==
  ASSUME GLInv, NEW w \in Windows \cup {None}, NEW c \in Contexts, MakeCurrent(w, c)
  PROVE  GLInv'
<1>1. CASE Stale
  BY <1>1, CrashStep DEF MakeCurrent
<1>2. CASE ~Stale
  <2>1. /\ video /\ (w # None => Live(w)) /\ c \in contexts
        /\ UNCHANGED <<sessionVars, contexts, share, swap_interval, fault>>
    BY <1>2 DEF MakeCurrent, GlCall, Running
  <2>2. PICK outcome \in Outcomes :
          /\ EnsureEglDisplay(outcome)
          /\ IF outcome # "ok" THEN UNCHANGED <<win, bound, toldVars>>
             ELSE \E reach \in Reaches :
                    /\ MayReach(w, reach) /\ Prepare(w, reach)
                    /\ IF reach = "bound"
                       THEN bound' = [context |-> c, surface |-> w] /\ Tell(c, w)
                       ELSE UNCHANGED <<bound, toldVars>>
    BY <1>2 DEF MakeCurrent
  <2>3. TypeOK /\ c # None
    BY GLAssumption DEF GLInv
  <2>4. egl_initialized
    BY <2>1 DEF GLInv, UnboundBefore
  <2>5. outcome = "ok" /\ Usable
    BY <1>2, <2>2, <2>4 DEF EnsureEglDisplay, Stale
  <2>6. PICK reach \in Reaches :
          /\ MayReach(w, reach) /\ Prepare(w, reach)
          /\ IF reach = "bound"
             THEN bound' = [context |-> c, surface |-> w] /\ Tell(c, w)
             ELSE UNCHANGED <<bound, toldVars>>
    BY <2>2, <2>5
  <2>7. /\ win' \in [Windows -> WindowState] /\ \A v \in Windows : WindowInv(win'[v])
        /\ \A v \in Windows :
             win[v].gl_surface => win'[v].gl_surface /\ (win[v].gl_active => win'[v].gl_active)
        /\ \A v \in Windows :
             win[v].gl_surface /\ reach # "bound" => win'[v].interval = win[v].interval
        /\ w \in Windows /\ reach = "bound" =>
             win'[w].gl_surface /\ win'[w].gl_active /\ win'[w].interval = swap_interval
    BY <2>1, <2>6, PreparedWindows
  <2>8. CASE reach = "bound"
    <3>1. /\ bound' = [context |-> c, surface |-> w]
          /\ current_context' = c /\ current_window' = w
      BY <2>3, <2>6, <2>8 DEF Tell
    <3>2. ActiveWhereBound' /\ IntervalApplied'
      BY <2>1, <2>7, <2>8, <3>1 DEF ActiveWhereBound, IntervalApplied
    <3>3. CurrentLives'
      BY <2>1, <3>1 DEF CurrentLives
    <3>4. /\ contexts' \subseteq Contexts
          /\ bound' \in [context : Contexts \cup {None}, surface : Windows \cup {None, Gone}]
      BY <2>1, <2>3, <3>1 DEF TypeOK
    <3>5. QED
      BY <1>2, <2>1, <2>2, <2>5, <2>7, <3>1, <3>2, <3>3, <3>4, EglStep
  <2>9. CASE reach # "bound"
    <3>1. UNCHANGED <<bound, current_context, current_window>>
      BY <2>6, <2>9 DEF toldVars
    <3>2. ActiveWhereBound' /\ IntervalApplied'
      BY <2>1, <2>7, <2>9, <3>1 DEF GLInv, ActiveWhereBound, IntervalApplied
    <3>3. CurrentLives'
      BY <2>1, <3>1 DEF GLInv, CurrentLives
    <3>4. bound.context # None =>
            /\ bound.context = current_context
            /\ bound.surface # Gone => bound.surface = current_window
      BY <2>1, <2>5 DEF GLInv, BoundAsTold
    <3>5. /\ contexts' \subseteq Contexts
          /\ current_context' \in Contexts \cup {None}
          /\ current_window' \in Windows \cup {None}
          /\ bound' \in [context : Contexts \cup {None}, surface : Windows \cup {None, Gone}]
      BY <2>1, <2>3, <3>1 DEF TypeOK
    <3>6. QED
      BY <1>2, <2>1, <2>2, <2>5, <2>7, <3>1, <3>2, <3>3, <3>4, <3>5, EglStep
  <2>10. QED
    BY <2>8, <2>9
<1>3. QED
  BY <1>1, <1>2

LEMMA MakeNoneCurrentStep ==
  ASSUME GLInv, NEW w \in Windows \cup {None}, MakeNoneCurrent(w) PROVE GLInv'
<1>1. CASE Stale
  BY <1>1, CrashStep DEF MakeNoneCurrent
<1>2. CASE ~Stale
  <2>1. /\ video /\ (w # None => Live(w))
        /\ UNCHANGED <<sessionVars, contexts, share, swap_interval, fault>>
    BY <1>2 DEF MakeNoneCurrent, GlCall, Running
  <2>2. PICK outcome \in Outcomes :
          /\ EnsureEglDisplay(outcome)
          /\ IF outcome # "ok" THEN UNCHANGED <<win, bound, toldVars>>
             ELSE /\ bound' = Unbound
                  /\ win' = IF w = None THEN win ELSE [win EXCEPT ![w].gl_active = FALSE]
                  /\ Tell(None, w)
    BY <1>2 DEF MakeNoneCurrent
  <2>3. TypeOK /\ None \notin Windows
    BY GLAssumption DEF GLInv
  <2>4. CASE outcome = "ok"
    <3>1. /\ bound' = Unbound /\ current_context' = None /\ current_window' = None
          /\ win' = IF w = None THEN win ELSE [win EXCEPT ![w].gl_active = FALSE]
      BY <2>2, <2>4 DEF Tell
    <3>2. bound'.context = None /\ bound'.surface = None
      BY <3>1 DEF Unbound
    <3>3. ActiveWhereBound' /\ IntervalApplied' /\ CurrentLives'
      BY <2>3, <3>1, <3>2 DEF ActiveWhereBound, IntervalApplied, CurrentLives
    <3>4. win' \in [Windows -> WindowState] /\ \A v \in Windows : WindowInv(win'[v])
      <4>1. CASE w = None
        BY <2>3, <3>1, <4>1, Windowwise DEF TypeOK
      <4>2. CASE w # None
        <5>1. DEFINE r == [win[w] EXCEPT !.gl_active = FALSE]
        <5>2. w \in Windows /\ win[w] \in WindowState /\ WindowInv(win[w]) /\ win[w].size > 0
          BY <2>1, <2>3, <4>2, Windowwise DEF TypeOK, Live
        <5>3. /\ r \in WindowState /\ r.size = win[w].size /\ r.object = win[w].object
              /\ r.gl_surface = win[w].gl_surface /\ r.egl_window = win[w].egl_window
              /\ r.buffer = win[w].buffer
          BY <5>2 DEF WindowState
        <5>4. win' = [win EXCEPT ![w] = r]
          BY <3>1, <4>2
        <5> HIDE DEF r
        <5>5. win[w].size # 0
          BY <5>2, GLAssumption DEF WindowState
        <5>6. WindowInv(r)
          BY <5>2, <5>3, <5>5 DEF WindowInv, WindowOK, Fits
        <5>7. QED
          BY <2>3, <5>2, <5>3, <5>4, <5>6, Windowwise DEF TypeOK
      <4>3. QED
        BY <4>1, <4>2
    <3>5. /\ contexts' \subseteq Contexts
          /\ current_context' \in Contexts \cup {None}
          /\ current_window' \in Windows \cup {None}
          /\ bound' \in [context : Contexts \cup {None}, surface : Windows \cup {None, Gone}]
      BY <2>1, <2>3, <3>1 DEF TypeOK, Unbound
    <3>6. QED
      BY <1>2, <2>1, <2>2, <2>4, <3>2, <3>3, <3>4, <3>5, EglStep
  <2>5. CASE outcome # "ok"
    BY <1>2, <2>1, <2>2, <2>5, EglFails
  <2>6. QED
    BY <2>4, <2>5
<1>3. QED
  BY <1>1, <1>2

LEMMA CreateContextStep ==
  ASSUME GLInv, NEW w \in Windows, NEW c \in Contexts, CreateContext(w, c) PROVE GLInv'
<1>1. CASE Stale
  BY <1>1, CrashStep DEF CreateContext
<1>2. CASE ~Stale
  <2>1. /\ video /\ Live(w) /\ c # None
        /\ UNCHANGED <<sessionVars, share, swap_interval>>
    BY <1>2, GLAssumption DEF CreateContext, GlCall, Running
  <2>2. PICK outcome \in Outcomes, created \in BOOLEAN :
          /\ EnsureEglDisplay(outcome)
          /\ IF outcome # "ok" \/ ~created
             THEN UNCHANGED <<win, contexts, bound, toldVars>>
             ELSE \E reach \in Reaches :
                    /\ MayReach(w, reach) /\ Prepare(w, reach)
                    /\ IF reach = "bound"
                       THEN /\ contexts' = contexts \cup {c}
                            /\ bound' = [context |-> c, surface |-> w]
                            /\ Tell(c, w)
                       ELSE bound' = Unbound /\ UNCHANGED <<contexts, toldVars>>
    BY <1>2 DEF CreateContext
  <2>3. TypeOK /\ None \notin Windows
    BY GLAssumption DEF GLInv
  <2>4. CASE outcome # "ok"
    BY <1>2, <2>1, <2>2, <2>4, EglFails
  <2>5. CASE outcome = "ok" /\ ~created
    <3>1. UNCHANGED <<win, contexts, bound, toldVars>>
      BY <2>2, <2>5
    <3>2. QED
      BY <1>2, <2>1, <2>2, <2>5, <3>1, EglReady
  <2>6. CASE outcome = "ok" /\ created
    <3>1. PICK reach \in Reaches :
            /\ MayReach(w, reach) /\ Prepare(w, reach)
            /\ IF reach = "bound"
               THEN /\ contexts' = contexts \cup {c}
                    /\ bound' = [context |-> c, surface |-> w]
                    /\ Tell(c, w)
               ELSE bound' = Unbound /\ UNCHANGED <<contexts, toldVars>>
      BY <2>2, <2>6
    <3>2. /\ win' \in [Windows -> WindowState] /\ \A v \in Windows : WindowInv(win'[v])
          /\ reach = "bound" =>
               win'[w].gl_surface /\ win'[w].gl_active /\ win'[w].interval = swap_interval
      BY <2>1, <3>1, PreparedWindows
    <3>3. CASE reach = "bound"
      <4>1. /\ bound' = [context |-> c, surface |-> w] /\ contexts' = contexts \cup {c}
            /\ current_context' = c /\ current_window' = w
        BY <2>1, <3>1, <3>3 DEF Tell
      <4>2. ActiveWhereBound' /\ IntervalApplied'
        BY <2>1, <3>2, <3>3, <4>1 DEF ActiveWhereBound, IntervalApplied
      <4>3. CurrentLives'
        BY <4>1 DEF CurrentLives
      <4>4. /\ contexts' \subseteq Contexts
            /\ bound' \in [context : Contexts \cup {None}, surface : Windows \cup {None, Gone}]
        BY <2>3, <4>1 DEF TypeOK
      <4>5. QED
        BY <1>2, <2>1, <2>2, <2>6, <3>2, <4>1, <4>2, <4>3, <4>4, EglStep
    <3>4. CASE reach # "bound"
      <4>1. bound' = Unbound /\ UNCHANGED <<contexts, current_context, current_window>>
        BY <3>1, <3>4 DEF toldVars
      <4>2. bound'.context = None /\ bound'.surface = None
        BY <4>1 DEF Unbound
      <4>3. ActiveWhereBound' /\ IntervalApplied' /\ CurrentLives'
        BY <2>3, <4>1, <4>2 DEF GLInv, ActiveWhereBound, IntervalApplied, CurrentLives
      <4>4. /\ contexts' \subseteq Contexts
            /\ current_context' \in Contexts \cup {None}
            /\ current_window' \in Windows \cup {None}
            /\ bound' \in [context : Contexts \cup {None}, surface : Windows \cup {None, Gone}]
        BY <2>3, <4>1 DEF TypeOK, Unbound
      <4>5. QED
        BY <1>2, <2>1, <2>2, <2>6, <3>2, <4>2, <4>3, <4>4, EglStep
    <3>5. QED
      BY <3>3, <3>4
  <2>7. QED
    BY <2>4, <2>5, <2>6
<1>3. QED
  BY <1>1, <1>2

LEMMA DestroyContextStep ==
  ASSUME GLInv, NEW c \in Contexts, DestroyContext(c) PROVE GLInv'
<1>1. CASE video /\ Stale
  BY <1>1, CrashStep DEF DestroyContext
<1>2. CASE ~(video /\ Stale)
  <2>1. /\ IF current_context = c THEN Tell(None, None) ELSE UNCHANGED toldVars
        /\ IF video THEN bound' = Unbound /\ contexts' = contexts \ {c}
           ELSE UNCHANGED <<bound, contexts>>
        /\ UNCHANGED <<sessionVars, win, share, swap_interval, eglVars, fault>>
    BY <1>2 DEF DestroyContext
  <2>2. UNCHANGED <<video, session, win, share, swap_interval, egl_load_refcount,
                    egl_initialized, egl_display>>
    BY <2>1 DEF sessionVars, eglVars
  <2>3. TypeOK /\ None \notin Windows
    BY GLAssumption DEF GLInv
  <2>4. /\ IF current_context = c THEN current_context' = None /\ current_window' = None
           ELSE UNCHANGED <<current_context, current_window>>
        /\ current_context' \in Contexts \cup {None}
        /\ current_window' \in Windows \cup {None}
    BY <2>1, <2>3 DEF Tell, toldVars, TypeOK
  <2>5. /\ contexts' \subseteq Contexts
        /\ bound' \in [context : Contexts \cup {None}, surface : Windows \cup {None, Gone}]
        /\ bound' = bound \/ (bound'.context = None /\ bound'.surface = None)
    <3>1. CASE video
      BY <2>1, <2>3, <3>1 DEF TypeOK, Unbound
    <3>2. CASE ~video
      BY <2>1, <2>3, <3>2 DEF TypeOK
    <3>3. QED
      BY <3>1, <3>2
  <2>6. TypeOK'
    BY <2>2, <2>3, <2>4, <2>5 DEF TypeOK
  <2>7. ActiveWhereBound' /\ IntervalApplied' /\ EglWindowFits' /\ SurfacesUsable'
    BY <2>2, <2>3, <2>5 DEF GLInv, ActiveWhereBound, IntervalApplied, EglWindowFits,
       SurfacesUsable, Usable, Callable
  <2>8. CurrentLives'
    BY <2>1, <2>4 DEF GLInv, CurrentLives
  <2>9. UnboundBefore'
    BY <2>1, <2>2 DEF GLInv, UnboundBefore
  <2>10. BoundAsTold'
    <3>1. CASE video
      BY <2>1, <3>1 DEF BoundAsTold, Unbound
    <3>2. CASE ~video
      BY <2>2, <3>2 DEF BoundAsTold
    <3>3. QED
      BY <3>1, <3>2
  <2>11. QED
    BY <2>6, <2>7, <2>8, <2>9, <2>10 DEF GLInv
<1>3. QED
  BY <1>1, <1>2

LEMMA SetAttributeStep ==
  ASSUME GLInv, NEW value \in BOOLEAN, SetAttribute(value) PROVE GLInv'
BY DEF SetAttribute, GLInv, TypeOK, BoundAsTold, ActiveWhereBound, EglWindowFits,
   IntervalApplied, UnboundBefore, SurfacesUsable, CurrentLives, Usable, Callable,
   sessionVars, toldVars, eglVars

LEMMA StutterStep == ASSUME GLInv, UNCHANGED vars PROVE GLInv'
BY DEF vars, GLInv, TypeOK, BoundAsTold, ActiveWhereBound, EglWindowFits, IntervalApplied,
   UnboundBefore, SurfacesUsable, CurrentLives, Usable, Callable, sessionVars, toldVars,
   eglVars

LEMMA SetSwapIntervalStep ==
  ASSUME GLInv, NEW i \in Intervals, SetSwapInterval(i) PROVE GLInv'
<1>1. CASE Stale
  BY <1>1, CrashStep DEF SetSwapInterval
<1>2. CASE ~Stale
  <2>1. /\ swap_interval' = i
        /\ win' = IF bound.surface \in Windows
                  THEN [win EXCEPT ![bound.surface].interval = i] ELSE win
        /\ UNCHANGED <<video, session, contexts, share, current_context, current_window,
                       egl_load_refcount, egl_initialized, egl_display, bound, fault>>
    BY <1>2 DEF SetSwapInterval, sessionVars, toldVars, eglVars
  <2>2. TypeOK
    BY DEF GLInv
  <2>3. /\ win' \in [Windows -> WindowState]
        /\ \A v \in Windows :
             /\ WindowInv(win'[v])
             /\ win'[v].gl_surface = win[v].gl_surface /\ win'[v].gl_active = win[v].gl_active
        /\ bound.surface \in Windows => win'[bound.surface].interval = i
    <3>1. CASE bound.surface \in Windows
      <4>1. DEFINE w == bound.surface
                   r == [win[w] EXCEPT !.interval = i]
      <4>2. /\ w \in Windows /\ win[w] \in WindowState /\ WindowInv(win[w])
            /\ win[w].gl_surface
        BY <2>2, <3>1, Windowwise DEF TypeOK, GLInv, ActiveWhereBound
      <4>3. /\ r \in WindowState /\ r.size = win[w].size /\ r.object = win[w].object
            /\ r.gl_surface = win[w].gl_surface /\ r.egl_window = win[w].egl_window
            /\ r.buffer = win[w].buffer /\ r.gl_active = win[w].gl_active /\ r.interval = i
        BY <4>2 DEF WindowState
      <4>4. win' = [win EXCEPT ![w] = r]
        BY <2>1, <3>1
      <4> HIDE DEF r, w
      <4>5. win[w].size # 0
        BY <4>2, BlankFits DEF WindowInv, WindowOK
      <4>6. WindowInv(r)
        BY <4>2, <4>3, <4>5 DEF WindowInv, WindowOK, Fits
      <4>7. win'[w] = r /\ \A v \in Windows \ {w} : win'[v] = win[v]
        BY <2>2, <4>2, <4>4 DEF TypeOK
      <4>8. win' \in [Windows -> WindowState]
        BY <2>2, <4>2, <4>3, <4>4 DEF TypeOK
      <4>9. QED
        BY <4>3, <4>6, <4>7, <4>8, Windowwise DEF w
    <3>2. CASE bound.surface \notin Windows
      BY <2>1, <2>2, <3>2, Windowwise DEF TypeOK
    <3>3. QED
      BY <3>1, <3>2
  <2>4. \A v \in Windows : WindowOK(win'[v]) /\ Fits(win'[v])
    BY <2>3 DEF WindowInv
  <2>5. TypeOK'
    BY <2>1, <2>2, <2>3, <2>4 DEF TypeOK
  <2>6. EglWindowFits'
    BY <2>4 DEF EglWindowFits, Fits
  <2>7. ActiveWhereBound' /\ IntervalApplied'
    BY <2>1, <2>3 DEF GLInv, ActiveWhereBound, IntervalApplied
  <2>8. SurfacesUsable'
    BY <2>1, <2>3 DEF GLInv, SurfacesUsable, Usable, Callable
  <2>9. BoundAsTold' /\ UnboundBefore' /\ CurrentLives'
    BY <2>1 DEF GLInv, BoundAsTold, UnboundBefore, CurrentLives, Usable, Callable
  <2>10. QED
    BY <2>5, <2>6, <2>7, <2>8, <2>9 DEF GLInv
<1>3. QED
  BY <1>1, <1>2

\* What EGL has bound when windows go: the same context, and no window of those.
LEMMA OutlivedBinding ==
  ASSUME TypeOK, NEW gone \in SUBSET Windows, bound' = Outlived(gone)
  PROVE  /\ bound' \in [context : Contexts \cup {None}, surface : Windows \cup {None, Gone}]
         /\ bound'.context = bound.context
         /\ IF bound.surface \in gone THEN bound'.surface = Gone
            ELSE bound'.surface = bound.surface
         /\ bound'.surface \notin gone
BY GLAssumption DEF TypeOK, Outlived

LEMMA DestroyWindowStep == ASSUME GLInv, NEW w \in Windows, DestroyWindow(w) PROVE GLInv'
<1>1. CASE win[w].gl_surface /\ Stale
  BY <1>1, CrashStep DEF DestroyWindow
<1>2. CASE ~(win[w].gl_surface /\ Stale)
  <2>1. /\ win' = [win EXCEPT ![w] = Blank] /\ bound' = Outlived({w})
        /\ UNCHANGED <<video, session, contexts, share, current_context, current_window,
                       swap_interval, egl_load_refcount, egl_initialized, egl_display, fault>>
    BY <1>2 DEF DestroyWindow, sessionVars, toldVars, eglVars
  <2>2. TypeOK /\ Gone \notin Windows
    BY GLAssumption DEF GLInv
  <2>3. /\ bound' \in [context : Contexts \cup {None}, surface : Windows \cup {None, Gone}]
        /\ bound'.context = bound.context
        /\ IF bound.surface = w THEN bound'.surface = Gone
           ELSE bound'.surface = bound.surface
    BY <2>1, <2>2, OutlivedBinding
  <2>4. win'[w] = Blank /\ \A v \in Windows \ {w} : win'[v] = win[v]
    BY <2>1, <2>2 DEF TypeOK
  <2>5. Blank \in WindowState /\ WindowOK(Blank) /\ Fits(Blank) /\ ~Blank.gl_surface
    BY BlankFits DEF WindowInv, WindowOK
  <2>6. TypeOK'
    <3>1. win' \in [Windows -> WindowState] /\ \A v \in Windows : WindowOK(win'[v])
      BY <2>1, <2>2, <2>4, <2>5 DEF TypeOK
    <3>2. QED
      BY <2>1, <2>2, <2>3, <3>1 DEF TypeOK
  <2>7. EglWindowFits'
    BY <2>4, <2>5 DEF GLInv, EglWindowFits, Fits
  <2>8. ActiveWhereBound' /\ IntervalApplied'
    BY <2>1, <2>2, <2>3, <2>4 DEF GLInv, ActiveWhereBound, IntervalApplied
  <2>9. SurfacesUsable'
    BY <2>1, <2>4, <2>5 DEF GLInv, SurfacesUsable, Usable, Callable
  <2>10. BoundAsTold' /\ CurrentLives'
    BY <2>1, <2>3 DEF GLInv, BoundAsTold, CurrentLives, Usable, Callable
  <2>11. UnboundBefore'
    <3>1. CASE egl_initialized
      BY <2>1, <3>1 DEF UnboundBefore
    <3>2. CASE ~egl_initialized
      <4>1. bound = Unbound /\ contexts = {}
        BY <3>2 DEF GLInv, UnboundBefore
      <4>2. bound.surface # w
        BY <4>1, GLAssumption DEF Unbound
      <4>3. bound' = bound
        BY <2>1, <4>2 DEF Outlived
      <4>4. QED
        BY <2>1, <4>1, <4>3 DEF UnboundBefore, Unbound
    <3>3. QED
      BY <3>1, <3>2
  <2>12. QED
    BY <2>6, <2>7, <2>8, <2>9, <2>10, <2>11 DEF GLInv
<1>3. QED
  BY <1>1, <1>2

\* A display made in an earlier session is not usable in a new one.
LEMMA InitVideoStep == ASSUME GLInv, InitVideo PROVE GLInv'
<1>1. /\ video' = TRUE /\ session' = session + 1 /\ session < MaxSessions /\ ~video
      /\ UNCHANGED <<win, contexts, share, current_context, current_window, swap_interval,
                     egl_load_refcount, egl_initialized, egl_display, bound>>
  BY DEF InitVideo, toldVars, eglVars
<1>2. TypeOK
  BY DEF GLInv
<1>3. session' \in 0..MaxSessions /\ egl_display' \in 0..session' /\ egl_display' # session'
  BY <1>1, <1>2, GLAssumption DEF TypeOK
<1>4. TypeOK'
  BY <1>1, <1>2, <1>3 DEF TypeOK
<1>5. BoundAsTold'
  BY <1>3 DEF BoundAsTold, Usable
<1>6. SurfacesUsable'
  BY <1>1 DEF GLInv, SurfacesUsable
<1>7. ActiveWhereBound' /\ IntervalApplied' /\ EglWindowFits' /\ UnboundBefore' /\ CurrentLives'
  BY <1>1 DEF GLInv, ActiveWhereBound, IntervalApplied, EglWindowFits, UnboundBefore,
     CurrentLives, Unbound
<1>8. QED
  BY <1>4, <1>5, <1>6, <1>7 DEF GLInv

LEMMA QuitVideoStep == ASSUME GLInv, QuitVideo PROVE GLInv'
<1>1. CASE (\E w \in Windows : win[w].gl_surface) /\ Stale
  BY <1>1, CrashStep DEF QuitVideo
<1>2. CASE ~((\E w \in Windows : win[w].gl_surface) /\ Stale)
  <2>1. /\ win' = [w \in Windows |-> Blank] /\ bound' = Outlived(Windows)
        /\ UnloadSymbols /\ video' = FALSE
        /\ UNCHANGED <<session, contexts, share, current_context, current_window,
                       swap_interval, egl_initialized, egl_display, fault>>
    BY <1>2 DEF QuitVideo, toldVars
  <2>2. TypeOK /\ Gone \notin Windows
    BY GLAssumption DEF GLInv
  <2>3. /\ bound' \in [context : Contexts \cup {None}, surface : Windows \cup {None, Gone}]
        /\ bound'.context = bound.context /\ bound'.surface \notin Windows
    BY <2>1, <2>2, OutlivedBinding
  <2>4. \A v \in Windows : win'[v] = Blank
    BY <2>1
  <2>5. Blank \in WindowState /\ WindowOK(Blank) /\ Fits(Blank) /\ ~Blank.gl_surface
    BY BlankFits DEF WindowInv, WindowOK
  <2>6. egl_load_refcount' \in 0..MaxLoads
    BY <2>1, <2>2, GLAssumption DEF UnloadSymbols, Callable, TypeOK
  <2>7. TypeOK'
    <3>1. win' \in [Windows -> WindowState] /\ \A v \in Windows : WindowOK(win'[v])
      BY <2>1, <2>4, <2>5
    <3>2. video' \in BOOLEAN
      BY <2>1
    <3>3. QED
      BY <2>1, <2>2, <2>3, <2>6, <3>1, <3>2 DEF TypeOK
  <2>8. EglWindowFits' /\ SurfacesUsable'
    BY <2>4, <2>5 DEF EglWindowFits, SurfacesUsable, Fits
  <2>9. ActiveWhereBound' /\ IntervalApplied'
    BY <2>3 DEF ActiveWhereBound, IntervalApplied
  <2>10. BoundAsTold' /\ CurrentLives'
    BY <2>1 DEF GLInv, BoundAsTold, CurrentLives
  <2>11. UnboundBefore'
    <3>1. CASE egl_initialized
      BY <2>1, <3>1 DEF UnboundBefore
    <3>2. CASE ~egl_initialized
      <4>1. bound = Unbound /\ contexts = {}
        BY <3>2 DEF GLInv, UnboundBefore
      <4>2. bound.surface \notin Windows
        BY <4>1, GLAssumption DEF Unbound
      <4>3. bound' = bound
        BY <2>1, <4>2 DEF Outlived
      <4>4. QED
        BY <2>1, <4>1, <4>3 DEF UnboundBefore, Unbound
    <3>3. QED
      BY <3>1, <3>2
  <2>12. QED
    BY <2>7, <2>8, <2>9, <2>10, <2>11 DEF GLInv
<1>3. QED
  BY <1>1, <1>2

LEMMA GLInvStep == GLInv /\ [Next]_vars => GLInv'
<1> SUFFICES ASSUME GLInv, [Next]_vars PROVE GLInv'
  OBVIOUS
<1>1. CASE InitVideo \/ QuitVideo
  BY <1>1, InitVideoStep, QuitVideoStep
<1>2. CASE \E w \in Windows, s \in Sizes : CreateWindow(w, s)
  BY <1>2, CreateWindowStep
<1>3. CASE \E w \in Windows, s \in Sizes, ok \in BOOLEAN : Configure(w, s, ok)
  BY <1>3, ConfigureStep
<1>4. CASE \E w \in Windows, s \in Sizes, ok \in BOOLEAN : SetWindowSize(w, s, ok)
  BY <1>4, SetWindowSizeStep
<1>5. CASE \E w \in Windows : HideWindow(w) \/ ShowWindow(w) \/ DestroyWindow(w)
  BY <1>5, ShellStep, DestroyWindowStep
<1>6. CASE \E w \in Windows, c \in Contexts : CreateContext(w, c)
  BY <1>6, CreateContextStep
<1>7. CASE \E w \in Windows \cup {None}, c \in Contexts : MakeCurrent(w, c)
  BY <1>7, MakeCurrentStep
<1>8. CASE \E w \in Windows \cup {None} : MakeNoneCurrent(w)
  BY <1>8, MakeNoneCurrentStep
<1>9. CASE \E c \in Contexts : DestroyContext(c)
  BY <1>9, DestroyContextStep
<1>10. CASE (\E value \in BOOLEAN : SetAttribute(value)) \/ ResetAttributes
  BY <1>10, SetAttributeStep DEF ResetAttributes
<1>11. CASE GetProcAddress
  BY <1>11, CrashStep, StutterStep DEF GetProcAddress
<1>12. CASE \E i \in Intervals : SetSwapInterval(i)
  BY <1>12, SetSwapIntervalStep
<1>13. CASE \E w \in Windows : SwapWindow(w)
  BY <1>13, SwapWindowStep
<1>14. CASE UNCHANGED vars
  BY <1>14, StutterStep
<1>15. QED
  BY <1>1, <1>2, <1>3, <1>4, <1>5, <1>6, <1>7, <1>8, <1>9, <1>10, <1>11, <1>12, <1>13, <1>14
  DEF Next

-----------------------------------------------------------------------------
(* What follows. *)

\* The inductive invariant holds in every reachable state.
THEOREM GLInvariant == Spec => []GLInv
<1>1. QED
  BY GLInvInit, GLInvStep, PTL DEF Spec

\* The variables keep their types, and driver and EGL agree on the surfaces there are.
THEOREM GLTypeCorrect == Spec => []TypeOK
<1>1. GLInv => TypeOK
  BY DEF GLInv
<1>2. QED
  BY <1>1, GLInvariant, PTL

\* EGL never draws with a context or to a window that SDL does not report.
THEOREM BoundIsAlwaysTold == Spec => []BoundAsTold
<1>1. GLInv => BoundAsTold
  BY DEF GLInv
<1>2. QED
  BY <1>1, GLInvariant, PTL

\* No buffer of the software path is attached to the window OpenGL draws to.
THEOREM BoundIsAlwaysActive == Spec => []ActiveWhereBound
<1>1. GLInv => ActiveWhereBound
  BY DEF GLInv
<1>2. QED
  BY <1>1, GLInvariant, PTL

\* The EGL window follows every resize for which a buffer could be made.
THEOREM EglWindowAlwaysFits == Spec => []EglWindowFits
<1>1. GLInv => EglWindowFits
  BY DEF GLInv
<1>2. QED
  BY <1>1, GLInvariant, PTL

\* The swap interval survives every change of window and context.
THEOREM IntervalAlwaysApplied == Spec => []IntervalApplied
<1>1. GLInv => IntervalApplied
  BY DEF GLInv
<1>2. QED
  BY <1>1, GLInvariant, PTL

\* A careful application makes no step into a fault.
LEMMA NoFaultStep ==
  ASSUME Careful PROVE GLInv /\ NoFault /\ [Next]_vars => NoFault'
<1> SUFFICES ASSUME GLInv, NoFault, [Next]_vars PROVE NoFault'
  OBVIOUS
<1>1. ASSUME NEW w \in Windows, win[w].gl_surface PROVE ~Stale
  BY <1>1 DEF GLInv, SurfacesUsable, Stale
<1>2. CASE UNCHANGED fault
  BY <1>2 DEF NoFault
<1>3. ASSUME NEW w \in Windows, NEW c \in Contexts, CreateContext(w, c) PROVE NoFault'
  <2>1. ~Stale
    BY <1>3 DEF CreateContext, GlCall
  <2>2. PICK outcome \in Outcomes :
          fault' = IF outcome = "ok" /\ ReadsFreed THEN "freed" ELSE None
    BY <1>3, <2>1 DEF CreateContext
  <2>3. QED
    BY <2>2 DEF GLInv, CurrentLives, NoFault, ReadsFreed
<1>4. ASSUME NEW w \in Windows \cup {None}, NEW c \in Contexts, MakeCurrent(w, c)
      PROVE  UNCHANGED fault
  BY <1>4 DEF MakeCurrent, GlCall
<1>5. ASSUME NEW w \in Windows \cup {None}, MakeNoneCurrent(w) PROVE UNCHANGED fault
  BY <1>5 DEF MakeNoneCurrent, GlCall
<1>6. ASSUME NEW c \in Contexts, DestroyContext(c) PROVE UNCHANGED fault
  BY <1>6 DEF DestroyContext
<1>7. CASE GetProcAddress
  BY <1>7, <1>2 DEF GetProcAddress, vars
<1>8. ASSUME NEW i \in Intervals, SetSwapInterval(i) PROVE UNCHANGED fault
  BY <1>8 DEF SetSwapInterval, GlCall
<1>9. ASSUME NEW w \in Windows, DestroyWindow(w) PROVE UNCHANGED fault
  BY <1>1, <1>9 DEF DestroyWindow
<1>10. CASE QuitVideo
  BY <1>1, <1>2, <1>10 DEF QuitVideo
<1>11. ASSUME NEW w \in Windows, HideWindow(w) \/ ShowWindow(w) \/ SwapWindow(w)
       PROVE  UNCHANGED fault
  BY <1>11 DEF HideWindow, ShowWindow, SwapWindow, WindowStep
<1>12. ASSUME NEW w \in Windows, NEW s \in Sizes, NEW ok \in BOOLEAN,
              CreateWindow(w, s) \/ Configure(w, s, ok) \/ SetWindowSize(w, s, ok)
       PROVE  UNCHANGED fault
  BY <1>12 DEF CreateWindow, Configure, SetWindowSize, WindowStep
<1>13. CASE InitVideo \/ (\E value \in BOOLEAN : SetAttribute(value)) \/ ResetAttributes
            \/ UNCHANGED vars
  BY <1>2, <1>13 DEF InitVideo, SetAttribute, ResetAttributes, vars
<1>14. QED
  BY <1>2, <1>3, <1>4, <1>5, <1>6, <1>7, <1>8, <1>9, <1>10, <1>11, <1>12, <1>13 DEF Next

\* An application that looks functions up after it made a context and uses OpenGL in
\* one session never reaches a null function, a dead display or a freed context.
THEOREM CarefulNeverFaults == ASSUME Careful PROVE Spec => []NoFault
<1>1. Init => NoFault
  BY DEF Init, NoFault
<1>2. QED
  BY <1>1, GLInvInit, GLInvStep, NoFaultStep, PTL DEF Spec

\* SDL, the driver and EGL never part over what is drawn to.
THEOREM DrawnAlwaysAsTold == Spec => []DrawnAsTold
<1>1. TypeOK /\ BoundAsTold /\ ActiveWhereBound => DrawnAsTold
  BY DEF DrawnAsTold
<1>2. QED
  BY <1>1, GLTypeCorrect, BoundIsAlwaysTold, BoundIsAlwaysActive, PTL
=============================================================================
