----------------------------- MODULE WaylandWindow -----------------------------
(***************************************************************************)
(* One window of the Wayland driver (src/video/wayland/sdlop_wayland.c)    *)
(* under the window calls of src/SDL_video.c and src/SDL_surface.c: the    *)
(* xdg-shell handshake with the compositor, the shm buffer that backs the  *)
(* window and the software surface that wraps it.                          *)
(*                                                                         *)
(* Requests and events travel on two FIFO streams.  Destroying the role    *)
(* objects drops what is in flight for them: libwayland discards events of *)
(* a destroyed proxy.  A window size is one value.  The window has no GL   *)
(* context: gl_active is FALSE throughout.                                 *)
(***************************************************************************)
EXTENDS Integers, Sequences

CONSTANTS
  Sizes,       \* window sizes, none of them 0
  MaxRequests, \* bound: requests the compositor has not read
  MaxEvents,   \* bound: events the client has not dispatched
  NoBuffer, NoSurface

ASSUME WindowAssumption ==
  /\ Sizes \subseteq Nat \ {0} /\ Sizes # {}
  /\ MaxRequests \in Nat /\ MaxEvents \in Nat
  /\ NoBuffer \notin Sizes

VARIABLES
  main,     \* "none": no window; "creating": in SDL_CreateWindow; "open"
  win,      \* SDL_Window and its WaylandWindowData, and what is on the wl_surface
  requests, \* requests on their way to the compositor
  events,   \* events on their way to the client
  srv,      \* the compositor: states of the toplevel, whether it is committed,
            \* and whether the client has yet to be told of the states
  asked,    \* what the application last asked SDL_SetWindowFullscreen for
  keep_hidden \* SDL_CreateWindow was asked for a hidden window

windowVars == <<main, win, requests, events, srv, asked, keep_hidden>>

States == {"MAXIMIZED", "FULLSCREEN"}
NewRole == [states |-> {}, committed |-> FALSE, dirty |-> FALSE]
NoWindow == [flags |-> {}, size |-> 0, pending |-> 0, configured |-> FALSE,
             toplevel |-> FALSE, handshake |-> "new", attached |-> FALSE,
             buffer |-> NoBuffer, surface |-> NoSurface, failed |-> FALSE, error |-> "none"]

WindowInit ==
  /\ main = "none" /\ win = NoWindow
  /\ requests = <<>> /\ events = <<>> /\ srv = NewRole
  /\ asked = FALSE /\ keep_hidden = FALSE

-----------------------------------------------------------------------------
(* Steps the handlers are made of, as functions of the window. *)

\* window_destroy_buffer; the pixels of a surface go with the map.
DestroyBuffer(w) ==
  [w EXCEPT !.buffer = NoBuffer,
            !.surface = IF @ = NoSurface THEN @ ELSE [@ EXCEPT !.live = FALSE]]

\* Mutant: a buffer is kept across a change of size.
CreateBufferReused(w, ok) ==
  IF w.buffer # NoBuffer THEN w
  ELSE IF ok THEN [w EXCEPT !.buffer = w.size]
  ELSE [w EXCEPT !.failed = TRUE]

\* window_create_buffer, which fails when memfd_create, ftruncate or mmap does.
CreateBuffer(w, ok) ==
  LET d == DestroyBuffer(w) IN
  IF ok
  THEN [d EXCEPT !.buffer = d.size,
                 !.surface = IF @ = NoSurface THEN @ ELSE [size |-> d.size, live |-> TRUE]]
  ELSE [d EXCEPT !.failed = TRUE]

\* The compositor ends the connection over the first error.
Error(w, what) == [w EXCEPT !.error = IF @ = "none" THEN what ELSE @]

\* wl_surface_attach of the buffer, and wl_surface_commit.  A buffer committed
\* to a role the client has acknowledged no configure for, or none since a null
\* buffer unmapped it, is a protocol error.
Present(w) ==
  LET shown == [w EXCEPT !.attached = TRUE] IN
  IF ~w.toplevel \/ w.handshake = "acked" THEN shown
  ELSE Error(shown, IF w.handshake = "unmapped" THEN "unmapped" ELSE "unconfigured")

\* window_commit
Commit(w) == IF w.configured /\ w.buffer # NoBuffer THEN Present(w) ELSE w

\* wayland_create_role_objects.  A surface that gets a role with a buffer on
\* it is a protocol error.
CreateRole(w) ==
  LET role == [w EXCEPT !.toplevel = TRUE, !.handshake = "new"] IN
  IF w.attached THEN Error(role, "role") ELSE role
RoleRequests(w) ==
  (IF "FULLSCREEN" \in w.flags THEN <<"set_fullscreen">> ELSE <<>>) \o
  (IF "MAXIMIZED" \in w.flags THEN <<"set_maximized">> ELSE <<>>) \o <<"commit">>

-----------------------------------------------------------------------------
(* The compositor. *)

\* After a protocol error nothing is sent or heard any more.
Connected == win.error = "none"

Applied(r) ==
  CASE r = "set_fullscreen"   -> srv.states \cup {"FULLSCREEN"}
    [] r = "unset_fullscreen" -> srv.states \ {"FULLSCREEN"}
    [] r = "set_maximized"    -> srv.states \cup {"MAXIMIZED"}
    [] r = "unset_maximized"  -> srv.states \ {"MAXIMIZED"}
    [] r = "commit"           -> srv.states

\* It reads a request.  A change of state and the first commit of a role are
\* answered with a configure.
SrvRequest ==
  /\ Connected /\ requests # <<>>
  /\ srv' = [states |-> Applied(Head(requests)),
             committed |-> srv.committed \/ Head(requests) = "commit",
             dirty |-> srv.dirty \/ ~srv.committed \/ Head(requests) # "commit"]
  /\ requests' = Tail(requests)
  /\ UNCHANGED <<main, win, events, asked, keep_hidden>>

\* It configures the toplevel, when it has to or because its user resized it.
SrvConfigure(size) ==
  /\ Connected /\ srv.committed /\ Len(events) + 2 <= MaxEvents
  /\ events' = events \o <<[kind |-> "toplevel", size |-> size, states |-> srv.states],
                           [kind |-> "xsurface"]>>
  /\ srv' = [srv EXCEPT !.dirty = FALSE]
  /\ UNCHANGED <<main, win, requests, asked, keep_hidden>>

-----------------------------------------------------------------------------
(* Listeners, run by wl_display_dispatch_pending and wl_display_roundtrip. *)

\* toplevel_configure
ToplevelConfigure ==
  /\ Connected /\ main # "none" /\ events # <<>> /\ Head(events).kind = "toplevel"
  /\ win' = [win EXCEPT !.pending = Head(events).size,
                        !.flags = (@ \ States) \cup Head(events).states]
  /\ events' = Tail(events)
  /\ UNCHANGED <<main, requests, srv, asked, keep_hidden>>

\* xdg_surface_ack_configure, and what is noted of it.
Acknowledged ==
  [win EXCEPT !.configured = TRUE,
              !.handshake = IF Head(events).kind = "stale" THEN @ ELSE "acked"]

\* Mutant: a configure that leaves the size to the client is taken literally.
ResizedToZero(ok) ==
  LET w == Acknowledged IN
  IF w.pending # w.size THEN CreateBuffer([w EXCEPT !.size = w.pending], ok) ELSE w

\* The window after the size part of xsurface_configure.
Resized(ok) ==
  LET w == Acknowledged IN
  IF w.pending # 0 /\ w.pending # w.size
  THEN CreateBuffer([w EXCEPT !.size = w.pending], ok)
  ELSE w

\* Mutant: the configure is acknowledged, and presenting is left to the
\* next call of the application.
XsurfaceConfigureLazy ==
  /\ Connected /\ main # "none" /\ events # <<>> /\ Head(events).kind \in {"xsurface", "stale"}
  /\ \E ok \in BOOLEAN : win' = Resized(ok)
  /\ events' = Tail(events)
  /\ UNCHANGED <<main, requests, srv, asked, keep_hidden>>

\* xsurface_configure.  It may try twice to create a buffer.
XsurfaceConfigure ==
  /\ Connected /\ main # "none" /\ events # <<>> /\ Head(events).kind \in {"xsurface", "stale"}
  /\ \E first, second \in BOOLEAN :
       LET r == Resized(first)
           w == IF r.buffer = NoBuffer THEN CreateBuffer(r, second) ELSE r
       IN  win' = IF "HIDDEN" \in w.flags THEN w ELSE Commit(w)
  /\ events' = Tail(events)
  /\ UNCHANGED <<main, requests, srv, asked, keep_hidden>>

RunListeners == ToplevelConfigure \/ XsurfaceConfigure

-----------------------------------------------------------------------------
(* The calls of the application. *)

\* What they do after an error, but for destroying the window, is left out.
App == main = "open" /\ Connected /\ Len(requests) < MaxRequests

\* SDL_CreateWindow up to the roundtrip of wayland_CreateWindow...
CreateWindow(size, flags, hidden) ==
  /\ main = "none"
  /\ LET w == [NoWindow EXCEPT !.flags = flags \cup {"HIDDEN"}, !.size = size] IN
       /\ win' = CreateRole(w)
       /\ requests' = RoleRequests(w)
  /\ main' = "creating"
  /\ keep_hidden' = hidden
  /\ asked' = ("FULLSCREEN" \in flags)
  /\ UNCHANGED <<events, srv>>

\* wayland_ShowWindow of a window that was hidden
Show(w) ==
  IF w.toplevel THEN win' = Commit(w) /\ UNCHANGED requests
  ELSE win' = CreateRole(w) /\ requests' = requests \o RoleRequests(w)

\* ... and from there to its end, where it shows the window.
CreateReturns ==
  /\ main = "creating"
  /\ main' = "open"
  /\ IF keep_hidden THEN UNCHANGED <<win, requests>>
     ELSE Show([win EXCEPT !.flags = @ \ {"HIDDEN"}])
  /\ keep_hidden' = FALSE
  /\ UNCHANGED <<events, srv, asked>>

ShowWindow ==
  /\ App /\ "HIDDEN" \in win.flags
  /\ Show([win EXCEPT !.flags = @ \ {"HIDDEN"}])
  /\ UNCHANGED <<main, events, srv, asked, keep_hidden>>

\* Mutant: the handshake state of the destroyed role is kept.
HideWindowConfigured ==
  /\ App /\ "HIDDEN" \notin win.flags
  /\ win' = [win EXCEPT !.flags = @ \cup {"HIDDEN"}, !.toplevel = FALSE,
                        !.attached = FALSE, !.pending = 0]
  /\ requests' = <<>> /\ events' = <<>> /\ srv' = NewRole
  /\ UNCHANGED <<main, asked, keep_hidden>>

\* SDL_HideWindow, wayland_HideWindow: the role objects are destroyed and a
\* null buffer is committed.
HideWindow ==
  /\ App /\ "HIDDEN" \notin win.flags
  /\ win' = [win EXCEPT !.flags = @ \cup {"HIDDEN"}, !.toplevel = FALSE,
                        !.attached = FALSE, !.configured = FALSE, !.pending = 0]
  /\ requests' = <<>> /\ events' = <<>> /\ srv' = NewRole
  /\ UNCHANGED <<main, asked, keep_hidden>>

SetWindowSize(size) ==
  /\ App
  /\ \E ok \in BOOLEAN : win' = Commit(CreateBuffer([win EXCEPT !.size = size], ok))
  /\ UNCHANGED <<main, requests, events, srv, asked, keep_hidden>>

SetWindowClearColor ==
  /\ App /\ win.buffer # NoBuffer
  /\ win' = Commit(win)
  /\ UNCHANGED <<main, requests, events, srv, asked, keep_hidden>>

\* SDL_SetWindowFullscreen.  Without role objects the driver refuses, and the
\* flag is reverted.
SetWindowFullscreen(fullscreen) ==
  /\ App
  /\ IF fullscreen = ("FULLSCREEN" \in win.flags) THEN
       /\ asked' = fullscreen
       /\ UNCHANGED <<win, requests>>
     ELSE
       /\ win.toplevel
       /\ asked' = fullscreen
       /\ win' = [win EXCEPT !.flags = IF fullscreen THEN @ \cup {"FULLSCREEN"}
                                       ELSE @ \ {"FULLSCREEN"}]
       /\ requests' = Append(requests,
                             IF fullscreen THEN "set_fullscreen" ELSE "unset_fullscreen")
  /\ UNCHANGED <<main, events, srv, keep_hidden>>

MaximizeWindow ==
  /\ App /\ win.toplevel
  /\ requests' = Append(requests, "set_maximized")
  /\ UNCHANGED <<main, win, events, srv, asked, keep_hidden>>

RestoreWindow ==
  /\ App /\ win.toplevel
  /\ requests' = requests \o <<"unset_maximized", "unset_fullscreen">>
  /\ asked' = FALSE
  /\ UNCHANGED <<main, win, events, srv, keep_hidden>>

\* SDL_GetWindowSurface, wayland_CreateWindowFramebuffer
GetWindowSurface ==
  /\ App /\ win.surface = NoSurface
  /\ \E ok \in BOOLEAN :
       LET w == IF win.buffer = NoBuffer THEN CreateBuffer(win, ok) ELSE win IN
       win' = IF w.buffer = NoBuffer THEN w
              ELSE [w EXCEPT !.surface = [size |-> w.size, live |-> TRUE]]
  /\ UNCHANGED <<main, requests, events, srv, asked, keep_hidden>>

\* wl_surface_attach of a null buffer, and wl_surface_commit: the toplevel is
\* unmapped and as it was when it was made, so that what was asked of it before
\* is void, and acknowledging a configure that is on its way counts for nothing.
\* A second one is the first commit that the unmapped toplevel waits for; on a
\* role that has shown nothing yet it tells the compositor nothing.
AttachNull ==
  IF win.attached THEN
    /\ win' = [win EXCEPT !.attached = FALSE, !.handshake = "unmapped"]
    /\ requests' = <<>> /\ srv' = NewRole
    /\ events' = [i \in DOMAIN events |->
                    IF events[i].kind = "xsurface" THEN [kind |-> "stale"] ELSE events[i]]
  ELSE
    /\ requests' = IF win.handshake = "unmapped" THEN Append(requests, "commit") ELSE requests
    /\ UNCHANGED <<win, events, srv>>

\* SDL_UpdateWindowSurface, wayland_UpdateWindowFramebuffer: unlike
\* window_commit it attaches the buffer without looking whether there is one,
\* and the window stays configured when there is none.
UpdateWindowSurface ==
  /\ App /\ win.surface # NoSurface /\ win.configured
  /\ IF win.buffer # NoBuffer THEN win' = Present(win) /\ UNCHANGED <<requests, events, srv>>
     ELSE AttachNull
  /\ UNCHANGED <<main, asked, keep_hidden>>

DestroyWindowSurface ==
  /\ App /\ win.surface # NoSurface
  /\ win' = [win EXCEPT !.surface = NoSurface]
  /\ UNCHANGED <<main, requests, events, srv, asked, keep_hidden>>

DestroyWindow ==
  /\ main = "open"
  /\ main' = "none" /\ win' = NoWindow
  /\ requests' = <<>> /\ events' = <<>> /\ srv' = NewRole
  /\ asked' = FALSE
  /\ UNCHANGED keep_hidden

WindowNext ==
  \/ SrvRequest
  \/ \E size \in Sizes \cup {0} : SrvConfigure(size)
  \/ RunListeners
  \/ \E size \in Sizes, flags \in SUBSET States, hidden \in BOOLEAN :
       CreateWindow(size, flags, hidden)
  \/ CreateReturns
  \/ ShowWindow \/ HideWindow \/ DestroyWindow
  \/ \E size \in Sizes : SetWindowSize(size)
  \/ SetWindowClearColor
  \/ \E fullscreen \in BOOLEAN : SetWindowFullscreen(fullscreen)
  \/ MaximizeWindow \/ RestoreWindow
  \/ GetWindowSurface \/ UpdateWindowSurface \/ DestroyWindowSurface

(* The compositor reads requests and answers them, and the application      *)
(* pumps events and returns from SDL_CreateWindow.                          *)
SrvAnswers == srv.dirty /\ \E size \in Sizes \cup {0} : SrvConfigure(size)
Fairness == WF_windowVars(SrvRequest) /\ WF_windowVars(SrvAnswers) /\ WF_windowVars(RunListeners)
            /\ WF_windowVars(CreateReturns)

WindowSpec == WindowInit /\ [][WindowNext]_windowVars /\ Fairness

-----------------------------------------------------------------------------
WindowStates ==
  [flags : SUBSET (States \cup {"HIDDEN"}), size : Sizes \cup {0}, pending : Sizes \cup {0},
   buffer : Sizes \cup {NoBuffer}, surface : [size : Sizes, live : BOOLEAN] \cup {NoSurface},
   configured : BOOLEAN, toplevel : BOOLEAN, attached : BOOLEAN, failed : BOOLEAN,
   handshake : {"new", "acked", "unmapped"},
   error : {"none", "unconfigured", "role", "unmapped"}]

RequestKinds ==
  {"set_fullscreen", "unset_fullscreen", "set_maximized", "unset_maximized", "commit"}

Configures == [kind : {"toplevel"}, size : Sizes \cup {0}, states : SUBSET States]
              \cup [kind : {"xsurface", "stale"}]

WindowTypeOK ==
  /\ main \in {"none", "creating", "open"}
  /\ win \in WindowStates
  /\ srv \in [states : SUBSET States, committed : BOOLEAN, dirty : BOOLEAN]
  /\ requests \in Seq(RequestKinds)
  /\ events \in Seq(Configures) /\ Len(events) <= MaxEvents
  /\ {asked, keep_hidden} \subseteq BOOLEAN

(* No sequence of calls and configures makes the client commit a buffer to a *)
(* role before its first configure, or give a role to a surface with a      *)
(* buffer: either ends the connection (src/video/wayland/sdlop_wayland.c,   *)
(* 1299-1304).  One error is left to AttachesConfigured below, and only     *)
(* a call that could not make a buffer leads to it.                          *)
NoProtocolError ==
  /\ win.error \in {"none", "unmapped"}
  /\ win.error = "unmapped" => win.failed

(* src/video/wayland/sdlop_wayland.c:1303: a new configure is needed before  *)
(* any buffer may be attached again.  The window that                        *)
(* wayland_UpdateWindowFramebuffer unmapped with a null buffer, because      *)
(* window_create_buffer had failed, counts as configured nonetheless, and    *)
(* the next buffer is attached to it at once.                                *)
AttachesConfigured == win.error # "unmapped"

(* The buffer always has the window's size, whoever changed the size last,  *)
(* and a surface whose pixels are mapped never claims more than the buffer. *)
BufferFits ==
  win.buffer # NoBuffer =>
    /\ win.buffer = win.size
    /\ win.surface # NoSurface => win.surface = [size |-> win.buffer, live |-> TRUE]

(* A window that is shown gets its content on the screen, whether the first  *)
(* configure came before or after SDL_ShowWindow, unless it is hidden or    *)
(* destroyed again or a buffer could not be created.                        *)
ShownIsMapped ==
  main = "open" /\ "HIDDEN" \notin win.flags
    ~> win.attached \/ "HIDDEN" \in win.flags \/ main = "none" \/ win.failed

(* src/SDL_surface.c:4-5: the surface pixels are the wl_shm buffer.  A      *)
(* window surface never points at memory that is not mapped.                *)
SurfaceIsBuffer == win.surface # NoSurface => win.surface.live

(* src/SDL_video.c:352: a call that finds the flag as requested has nothing  *)
(* to do.  When both streams are empty and the compositor has nothing left   *)
(* to tell, the window is fullscreen if that was the last request.          *)
Settled == main = "open" /\ win.toplevel /\ requests = <<>> /\ events = <<>> /\ ~srv.dirty
FullscreenAsAsked == Settled => (("FULLSCREEN" \in win.flags) <=> asked)

(* Sizes are sizes, also of a configure that leaves them to the client, and  *)
(* the window, its buffer and its surface agree on them.                     *)
SizesAgree == WindowTypeOK /\ BufferFits

-----------------------------------------------------------------------------
\* The inductive invariant.  What is acknowledged, on the screen or on its way
\* is of the role the window has now: a new role starts without any of it.  Only
\* a window that failed to make a buffer is ever unmapped.
OfTheRole ==
  /\ win.configured => win.toplevel /\ win.handshake # "new"
  /\ win.handshake = "unmapped" => win.failed
  /\ win.attached => win.toplevel
  /\ requests # <<>> \/ events # <<>> \/ srv.committed => win.toplevel
  /\ main = "none" => ~win.toplevel
  /\ win.configured /\ win.buffer = NoBuffer => win.failed
  /\ \A i \in DOMAIN events : events[i].kind = "stale" => win.handshake # "new"

\* A window in use has a size.
HasSize == main # "none" => win.size \in Sizes

WindowInv == WindowTypeOK /\ BufferFits /\ NoProtocolError /\ OfTheRole /\ HasSize
=============================================================================
