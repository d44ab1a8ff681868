------------------------------- MODULE Windows --------------------------------
(***************************************************************************)
(* Windows, their ids and the events about them, from SDL_Init to SDL_Quit *)
(* and the next SDL_Init: src/SDL_video.c, SDLop_core.c, what SDL_events.c *)
(* does with ids, and the dummy driver, which answers every call itself.   *)
(*                                                                         *)
(* A window object is a number of its own, never given again, so that the  *)
(* model can tell two windows with one id apart.  Sizes and positions have *)
(* one dimension.                                                          *)
(***************************************************************************)
EXTENDS Integers, Sequences, FiniteSets, SequencesExt

CONSTANTS
  MaxWindows,  \* bound: window objects made in the whole behaviour
  MaxQuits,    \* bound: SDL_Quit calls
  QueueSize,   \* SDLOP_EVENT_QUEUE_SIZE
  Extents,     \* sizes, and positions, of a window; the first of them at 0
  UserTypes    \* SDL_EVENT_LAST - SDL_EVENT_USER

ASSUME WindowsAssumption ==
  /\ MaxWindows \in Nat /\ MaxQuits \in Nat /\ QueueSize \in Nat \ {0} /\ UserTypes \in Nat
  /\ Extents \subseteq Nat /\ 0 \in Extents

NoOne == 0
Objects == 1 .. MaxWindows

VARIABLES
  init_done, init_flags,       \* sdlop.init_done, sdlop.init_flags
  windows,                     \* sdlop.windows, newest first
  win,                         \* what each window object holds
  made,                        \* window objects made so far
  next_window_id,
  next_user_event, ranges,     \* counted from SDL_EVENT_USER; ranges: history, the
                               \* ranges handed out since SDL_Init last set it
  keyboard_focus, mouse_focus,
  queue,                       \* the event queue: static, it outlives SDL_Quit
  told,                        \* history: each window as the events polled tell it
  refused,                     \* history: windows an event of which found no room,
                               \* or a call on which failed half way
  quits                        \* SDL_Quit calls so far

sessionVars == <<init_done, init_flags, quits>>
idVars == <<made, next_window_id, next_user_event, ranges>>
focusVars == <<keyboard_focus, mouse_focus>>
eventVars == <<queue, told, refused>>
windowsVars == <<sessionVars, idVars, windows, win, focusVars, eventVars>>

\* What a window is like, for those who see only its events: is it shown,
\* minimised, maximised, fullscreen, how large and where.
View == [shown : BOOLEAN, minimized : BOOLEAN, maximized : BOOLEAN, fullscreen : BOOLEAN,
         w : Extents, x : Extents]
NewView(w) == [shown |-> FALSE, minimized |-> FALSE, maximized |-> FALSE, fullscreen |-> FALSE,
               w |-> w, x |-> 0]
NoWin == [id |-> 0, view |-> NewView(0), focused |-> FALSE, session |-> 0]

WindowsInit ==
  /\ init_done = FALSE /\ init_flags = {} /\ quits = 0
  /\ windows = <<>> /\ win = [o \in Objects |-> NoWin] /\ made = 0
  /\ next_window_id = 0 /\ next_user_event = 0 /\ ranges = <<>>
  /\ keyboard_focus = NoOne /\ mouse_focus = NoOne
  /\ queue = <<>> /\ told = [o \in Objects |-> NewView(0)] /\ refused = {}

Live == ToSet(windows)
video == "video" \in init_flags

-----------------------------------------------------------------------------
(* Events. *)

\* SDLOP_SendWindowEvent: the id of the window; of and session are history.
Event(type, o, data) ==
  [type |-> type, id |-> win[o].id, data |-> data, of |-> o, session |-> quits]

\* SDLOP_PushEventInternal, for each: what finds no room is lost.
Queued(events) ==
  LET room == QueueSize - Len(queue) IN
  queue \o SubSeq(events, 1, IF Len(events) < room THEN Len(events) ELSE room)

\* Events about window o, one of which may be lost.
Send(o, events) ==
  /\ queue' = Queued(events)
  /\ refused' = IF Len(queue) + Len(events) > QueueSize THEN refused \cup {o} ELSE refused
  /\ UNCHANGED told

\* What the program learns from an event.
After(view, e) ==
  CASE e.type = "SHOWN" -> [view EXCEPT !.shown = TRUE]
    [] e.type = "HIDDEN" -> [view EXCEPT !.shown = FALSE]
    [] e.type = "RESIZED" -> [view EXCEPT !.w = e.data]
    [] e.type = "MOVED" -> [view EXCEPT !.x = e.data]
    [] e.type = "MINIMIZED" -> [view EXCEPT !.minimized = TRUE]
    [] e.type = "MAXIMIZED" -> [view EXCEPT !.maximized = TRUE]
    [] e.type = "RESTORED" -> [view EXCEPT !.minimized = FALSE, !.maximized = FALSE]
    [] e.type = "ENTER_FULLSCREEN" -> [view EXCEPT !.fullscreen = TRUE]
    [] e.type = "LEAVE_FULLSCREEN" -> [view EXCEPT !.fullscreen = FALSE]
    [] OTHER -> view

\* SDL_PollEvent
PollEvent ==
  /\ queue # <<>>
  /\ told' = IF Head(queue).of \in Live
             THEN [told EXCEPT ![Head(queue).of] = After(@, Head(queue))] ELSE told
  /\ queue' = Tail(queue)
  /\ UNCHANGED <<sessionVars, idVars, windows, win, focusVars, refused>>

\* SDL_GetWindowFromID: the newest window with the id
WindowFromID(id) ==
  LET at == {i \in DOMAIN windows : win[windows[i]].id = id} IN
  IF at = {} THEN NoOne ELSE windows[Min(at)]

\* SDL_GetWindowFromEvent
WindowFromEvent(e) == IF e.id = 0 THEN NoOne ELSE WindowFromID(e.id)

-----------------------------------------------------------------------------
(* Windows. *)

\* dummy_ShowWindow: the window that had the focus keeps its flag.
Focus(o) == keyboard_focus' = o /\ mouse_focus' = o

\* Mutant: an id is the number of windows, one more than before.
NextIdByCount == Len(windows) + 1
NextId == next_window_id + 1

\* SDL_CreateWindow.  The id is used up even when the driver makes no window,
\* which the dummy driver always does.
CreateWindow(w, hidden, fullscreen) ==
  LET o == made + 1
      shown == [NewView(w) EXCEPT !.fullscreen = fullscreen] IN
  /\ init_done /\ video /\ made < MaxWindows
  /\ made' = o /\ next_window_id' = NextId
  /\ windows' = <<o>> \o windows
  /\ win' = [win EXCEPT ![o] = [id |-> NextId, view |-> [shown EXCEPT !.shown = ~hidden],
                                focused |-> ~hidden, session |-> quits]]
  /\ told' = [told EXCEPT ![o] = shown]
  /\ IF hidden THEN UNCHANGED <<focusVars, queue, refused>>
     ELSE /\ Focus(o)
          /\ queue' = Queued(<<[type |-> "SHOWN", id |-> NextId, data |-> 0, of |-> o, session |-> quits]>>)
          /\ refused' = IF Len(queue) = QueueSize THEN refused \cup {o} ELSE refused
  /\ UNCHANGED <<sessionVars, next_user_event, ranges>>

\* Mutant: a destroyed window keeps the mouse.
RemoveWindowKeepsMouse(gone, left) ==
  /\ windows' = left
  /\ keyboard_focus' = IF keyboard_focus \in gone THEN NoOne ELSE keyboard_focus
  /\ UNCHANGED mouse_focus

\* SDLOP_RemoveWindow, for each window that goes
RemoveWindow(gone, left) ==
  /\ windows' = left
  /\ keyboard_focus' = IF keyboard_focus \in gone THEN NoOne ELSE keyboard_focus
  /\ mouse_focus' = IF mouse_focus \in gone THEN NoOne ELSE mouse_focus

\* The windows are freed; which id each had, and when, is history.
Free(gone) ==
  /\ win' = [o \in Objects |-> IF o \in gone THEN [NoWin EXCEPT !.id = win[o].id, !.session = win[o].session]
                             ELSE win[o]]
  /\ told' = [o \in Objects |-> IF o \in gone THEN NewView(0) ELSE told[o]]
  /\ refused' = refused \ gone

\* SDL_DestroyWindow
DestroyWindow(o) ==
  /\ \E i \in DOMAIN windows : windows[i] = o /\ RemoveWindow({o}, RemoveAt(windows, i))
  /\ queue' = Queued(<<Event("DESTROYED", o, 0)>>)
  /\ Free({o})
  /\ UNCHANGED <<sessionVars, idVars>>

\* A call on window o that leaves it as view says and sends events.
Change(o, view, events) ==
  /\ o \in Live
  /\ win' = [win EXCEPT ![o].view = view]
  /\ Send(o, events)
  /\ UNCHANGED <<sessionVars, idVars, windows, focusVars>>

\* SDL_ShowWindow with dummy_ShowWindow
ShowWindow(o) ==
  /\ o \in Live /\ ~win[o].view.shown
  /\ win' = [win EXCEPT ![o].view.shown = TRUE, ![o].focused = TRUE]
  /\ Focus(o)
  /\ Send(o, <<Event("SHOWN", o, 0)>>)
  /\ UNCHANGED <<sessionVars, idVars, windows>>

\* SDL_HideWindow with dummy_HideWindow
HideWindow(o) ==
  /\ o \in Live /\ win[o].view.shown
  /\ win' = [win EXCEPT ![o].view.shown = FALSE, ![o].focused = FALSE]
  /\ keyboard_focus' = IF keyboard_focus = o THEN NoOne ELSE keyboard_focus
  /\ mouse_focus' = IF mouse_focus = o THEN NoOne ELSE mouse_focus
  /\ Send(o, <<Event("HIDDEN", o, 0)>>)
  /\ UNCHANGED <<sessionVars, idVars, windows>>

\* SDL_RaiseWindow with dummy_RaiseWindow: hidden or not, it gets the focus.
RaiseWindow(o) ==
  /\ o \in Live
  /\ win' = [win EXCEPT ![o].focused = TRUE]
  /\ Focus(o)
  /\ UNCHANGED <<sessionVars, idVars, windows, eventVars>>

\* SDL_SetWindowSize with dummy_SetWindowSize: when the surface cannot grow the
\* window has its new size, and nobody is told.
SetWindowSize(o, w, granted) ==
  IF granted
  THEN Change(o, [win[o].view EXCEPT !.w = w],
              <<Event("RESIZED", o, w), Event("PIXEL_SIZE_CHANGED", o, w)>>)
  ELSE /\ o \in Live
       /\ win' = [win EXCEPT ![o].view.w = w]
       /\ refused' = refused \cup {o}
       /\ UNCHANGED <<sessionVars, idVars, windows, focusVars, queue, told>>

\* SDL_SetWindowPosition with dummy_SetWindowPosition
SetWindowPosition(o, x) ==
  Change(o, [win[o].view EXCEPT !.x = x], <<Event("MOVED", o, x)>>)

\* dummy_MinimizeWindow, dummy_MaximizeWindow
MinimizeWindow(o) ==
  Change(o, [win[o].view EXCEPT !.minimized = TRUE], <<Event("MINIMIZED", o, 0)>>)
MaximizeWindow(o) ==
  Change(o, [win[o].view EXCEPT !.maximized = TRUE], <<Event("MAXIMIZED", o, 0)>>)

\* Mutant: only one of the two flags goes.
RestoreWindowOne(o) ==
  Change(o, [win[o].view EXCEPT !.minimized = FALSE], <<Event("RESTORED", o, 0)>>)

\* dummy_RestoreWindow
RestoreWindow(o) ==
  Change(o, [win[o].view EXCEPT !.minimized = FALSE, !.maximized = FALSE],
         <<Event("RESTORED", o, 0)>>)

\* SDL_SetWindowFullscreen sets the flag, and dummy_SetWindowFullscreen, which
\* finds it set already, turns it round again.
SetWindowFullscreen(o, on) ==
  /\ win[o].view.fullscreen # on
  /\ Change(o, [win[o].view EXCEPT !.fullscreen = ~on],
            <<Event(IF on THEN "LEAVE_FULLSCREEN" ELSE "ENTER_FULLSCREEN", o, 0)>>)

-----------------------------------------------------------------------------
(* From SDL_Init to SDL_Quit. *)

\* Mutant: every call starts the library afresh.
InitLibraryAlways ==
  /\ init_done' = TRUE
  /\ next_window_id' = 0
  /\ next_user_event' = 0
  /\ ranges' = IF init_done THEN ranges ELSE <<>>

InitLibrary ==
  /\ init_done' = TRUE
  /\ next_window_id' = IF init_done THEN next_window_id ELSE 0
  /\ next_user_event' = IF init_done THEN next_user_event ELSE 0
  /\ ranges' = IF init_done THEN ranges ELSE <<>>

\* SDL_Init and SDL_InitSubSystem: found says whether SDL_VIDEODRIVER, if set,
\* names a driver there is (SDLOP_VideoInit).
InitSubSystem(flags, found) ==
  LET wanted == flags \cup (IF "video" \in flags THEN {"events"} ELSE {}) IN
  /\ InitLibrary
  /\ init_flags' = IF "video" \in wanted \ init_flags /\ ~found THEN init_flags
                   ELSE init_flags \cup wanted
  /\ UNCHANGED <<quits, made, windows, win, focusVars, eventVars>>

\* SDLOP_VideoQuit: the windows are destroyed, the newest first.
VideoQuit ==
  /\ queue' = Queued([i \in 1..Len(windows) |-> Event("DESTROYED", windows[i], 0)])
  /\ RemoveWindow(Live, <<>>)
  /\ Free(Live)

\* SDL_QuitSubSystem
QuitSubSystem(flags) ==
  /\ flags \cap init_flags # {}
  /\ init_flags' = init_flags \ flags
  /\ IF "video" \in flags /\ video THEN VideoQuit
     ELSE UNCHANGED <<windows, win, focusVars, eventVars>>
  /\ UNCHANGED <<init_done, quits, idVars>>

\* SDL_Quit: sdlop is zeroed; the queue is not part of it.
Quit ==
  /\ init_done /\ quits < MaxQuits
  /\ init_done' = FALSE /\ init_flags' = {} /\ quits' = quits + 1
  /\ IF video THEN VideoQuit
     ELSE UNCHANGED <<windows, win, focusVars, eventVars>>
  /\ next_window_id' = 0 /\ next_user_event' = 0 /\ ranges' = <<>>
  /\ UNCHANGED made

\* SDL_RegisterEvents, also before SDL_Init
RegisterEvents(n) ==
  /\ n > 0 /\ next_user_event + n <= UserTypes
  /\ next_user_event' = next_user_event + n
  /\ ranges' = Append(ranges, [base |-> next_user_event, n |-> n])
  /\ UNCHANGED <<sessionVars, made, next_window_id, windows, win, focusVars, eventVars>>

LifeNext ==
  \/ \E o \in Objects : DestroyWindow(o) \/ ShowWindow(o) \/ HideWindow(o) \/ RaiseWindow(o)
  \/ PollEvent

ChangeNext ==
  \E o \in Objects :
    \/ \E w \in Extents, granted \in BOOLEAN : SetWindowSize(o, w, granted)
    \/ \E x \in Extents : SetWindowPosition(o, x)
    \/ MinimizeWindow(o) \/ MaximizeWindow(o) \/ RestoreWindow(o)
    \/ \E on \in BOOLEAN : SetWindowFullscreen(o, on)

SessionNext ==
  \/ \E flags \in SUBSET {"video", "events"}, found \in BOOLEAN : InitSubSystem(flags, found)
  \/ \E flags \in SUBSET {"video", "events"} : QuitSubSystem(flags)
  \/ Quit

WindowsNext ==
  \/ \E w \in Extents, hidden, fullscreen \in BOOLEAN : CreateWindow(w, hidden, fullscreen)
  \/ LifeNext \/ ChangeNext \/ SessionNext
  \/ \E n \in 1..UserTypes : RegisterEvents(n)

WindowsSpec == WindowsInit /\ [][WindowsNext]_windowsVars

-----------------------------------------------------------------------------
(* Properties. *)

\* An event about a window leads back to that window or, once it is destroyed,
\* to none, however many windows came and went since and however often parts of
\* the library were shut down, until SDL_Quit (SDL_GetWindowFromEvent).
EventNamesItsWindow ==
  \A i \in DOMAIN queue :
    queue[i].session = quits => WindowFromEvent(queue[i]) \in {queue[i].of, NoOne} /\
                                (queue[i].of \in Live => WindowFromEvent(queue[i]) = queue[i].of)

\* A program that has polled every event knows what its windows are like, unless
\* an event found the queue full or a call failed half way: no function changes
\* a window without saying so (the dummy driver).
EventsTellState ==
  queue = <<>> => \A o \in Live \ refused : told[o] = win[o].view

\* The keyboard and the mouse have a window that exists, and whose flags say so
\* (SDLOP_RemoveWindow, dummy_ShowWindow and dummy_HideWindow).
FocusIsFlagged == \A o \in {keyboard_focus, mouse_focus} : o # NoOne => o \in Live /\ win[o].focused

\* Between SDL_Init and SDL_Quit no two callers get the same user event, and ids
\* of windows are not given twice, whatever subsystems are initialised meanwhile.
HandedOutOnce ==
  /\ \A i, j \in DOMAIN ranges :
       i < j => ranges[i].base + ranges[i].n <= ranges[j].base
  /\ \A o \in Objects : \A p \in Objects :
       o < p /\ p <= made /\ win[o].session = win[p].session => win[o].id # win[p].id

\* Ids and focus over windows that come and go, subsystems that stop and start
\* again, and a queue that outlives them all.
WindowsAccounted == EventNamesItsWindow /\ FocusIsFlagged /\ HandedOutOnce
===============================================================================
