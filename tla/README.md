# TLA+ models of SDLop

SDLop is a small SDL3-compatible library in C: windows, input, an event queue
and software surfaces, with a Wayland driver, a dummy driver and a web driver.
This directory holds TLA+ modules that model its stateful core, TLC
configurations that check them on small instances, and TLAPS proofs of what
matters most for every instance.  Paths below are those of the repository;
`PROJECT.json` gives the source lines of every definition.

## 1. The system

```
  kernel evdev            compositor (Wayland socket)        application
      |                          |                               |
  worker thread           wl_display dispatch              SDL_* calls
  (sdlop_evdev.c)         (sdlop_wayland.c)                      |
      |  SPSC rings              |                               |
      +--> sdl_ring --+          |                               |
      |               v          v                               |
      |         SDL_PumpEvents (main thread) <-------------------+
      |               |                                          |
      |     keyboard, mouse, focus, window state                 |
      |               v                                          |
      |         SDL event queue  -- SDL_PollEvent / WaitEvent -->|
      +--> poll_ring  ------------- SDLop_PollRawEvents -------->|
      +--> callbacks, on the worker thread --------------------->|
```

There are two threads: the raw-input worker and the main thread, which runs
everything else.  They share the two rings, an eventfd each way and a few
atomics.  On the main thread two independent sources report the same user: raw
evdev events (preferred when the devices can be opened) and the compositor's
events (the fallback, and always the source of focus and modifiers).  The
compositor is a third party with its own view of the window, connected by two
FIFO streams.  So the hard behaviours are the interleavings of two threads, the
races of two delayed streams about one keyboard and one pointer, the races of
requests and configures, objects destroyed while events about them are on the
way, calls that fail half way, what one session leaves to the next, and counters
and tables at their limits.  Nothing is persisted, so there is no crash recovery
to model.

The web build has no threads and no compositor.  Its third party is the browser:
it calls back for keys, the mouse and focus, keeps the pointer lock, the WebGL
contexts and the fullscreen element, and answers requests about them later, in an
order of its own.

### Components

| Component | State | Operations and interactions | Hard behaviour | What makes it correct |
|---|---|---|---|---|
| SPSC ring (`internal/sdlop_ring.h`) | `head`, `tail`, `dropped`, slots | push on the worker, pop on the main thread, empty and count on either | acquire loads that return an older index; wrap over the slots | no slot touched by both threads; a bounded FIFO; the count never wraps |
| SDL event queue (`SDL_events.c`) | 128 slots with text bytes, two `Uint32` counters | push, poll, peep/flush by type; filled by every other component | counters wrap, pointers into slots, full queue | FIFO; a flush removes exactly its range; text keeps its bytes |
| Raw input worker, waiting (`internal/sdlop_evdev.c`, `SDL_events.c`) | devices, epoll set, rings, eventfds, `running` | worker loop, `SDLOP_RawInputPump`, `SDL_WaitEventTimeout`, `SDLop_PollRawEvents`, quit | lost wake-up, full rings, hot unplug, shutdown of a sleeping worker | order per device, losses counted, no descriptor used after close, no endless sleep, quit returns |
| Wayland window (`video/wayland/sdlop_wayland.c`, `SDL_video.c`, `SDL_surface.c`) | flags, size, role objects, handshake, shm buffer, window surface | create/show/hide/resize/fullscreen/maximize/destroy; configure listeners; window surface calls | requests cross configures; hide and show make a new role; buffer creation fails | no protocol error; buffer = window = surface size; shown windows get on the screen |
| Keyboard (`SDL_keyboard.c`, listeners) | key state, modifiers, repeat, focus | raw keys, `wl_keyboard` enter/leave/key/modifiers, repeat timer, reset, window destroyed | keys and modifiers from two delayed streams; focus lost with keys down, or with its window; lost key ups | no stuck key, no repeat of a released key, modifiers agree with keys |
| Seat: pointer, lock, touch (`sdlop_wayland.c`, `SDL_mouse.c`, `SDL_video.c`) | pointer/mouse focus, relative mode, lock objects, finger table | enter/leave, lock/unlock, relative mode, touch down/motion/up/cancel, capabilities, window destruction | windows destroyed under the pointer, lock taken back by the compositor, table of 16 fingers full | no reference to a freed window; lock follows mode; enter/leave and down/up pair |
| Mouse (`SDL_mouse.c`, `sdlop_evdev.c`, `sdlop_wayland.c`) | position, last reported position, buttons, wheel accumulators | motion, button, wheel from two sources | re-anchoring, two units of wheel, clamping | position in the window, deltas add up |
| Initialisation (`SDLop_core.c`, `SDL_video.c`, `SDL_events.c`) | subsystem flags, user event ranges, window ids, driver | init, quit, register events, choice of the driver | order of shutdown, subsystems that stop and start, a queue that outlives them | ids and ranges handed out once, quit releases everything |
| Windows and their events (`SDL_video.c`, `SDL_events.c`, `video/dummy/sdlop_dummy.c`) | list of windows, focus, flags, sizes | create, destroy, show, hide, raise, size, position, minimize, maximize, fullscreen | ids looked up after their window is gone, events lost in a full queue, calls that fail half way | an event leads to its window, events tell the state, focus is on a window that lives |
| Raw devices and callbacks (`sdlop_evdev.c`) | device table, descriptors, epoll set, callback set | discovery, init, quit, register/unregister on both threads, dispatch on the worker | every step of init failing, a callback unregistered while the worker goes through its set | descriptors all accounted for, tags name their device, no freed set is read |
| GL contexts (`SDL_gl.c`, `sdlop_wayland_gl.c`, `sdlop_egl_dyn.c`) | current window and context, attributes, swap interval; EGL display and its loader; per window an EGL surface and `gl_active` | create, make current, swap, destroy, attributes; windows that resize and go; quit | EGL calls that fail half way, windows and contexts destroyed while current, state that outlives a session of video | SDL, driver and EGL agree on what is current; EGL window and swap interval follow; no call to what is gone |
| Surfaces and fills (`SDL_surface.c`) | pixels, pitch, format, window surface | create, wrap, fill, clip, read, resize, destroy | pitches that are no multiple of a pixel, rectangles outside, sizes that overflow | fills stay inside, and show what was filled |
| Keymaps (`SDL_keyboard.c`, `sdlop_xkb_dyn.c`) | context, keymap, two states, table of symbols | start, keymap of the compositor, modifiers, look-ups, quit | keymaps that replace each other or fail half way | nothing leaks or is used after release; key codes lead back to their key |
| Registry, outputs, cursor (`sdlop_wayland.c`) | table of outputs, scale of windows, seat and its device ids, cursor | globals announced and removed, output events, surface enter/leave, capabilities | outputs removed from the middle of the table while windows are on them | no window names an output that is gone; what was told is so |
| Libraries and Vulkan (`sdlop_wayland_dyn.c`, `SDL_vulkan.c`, `SDL_video.c`) | count of libwayland, handle of the Vulkan loader, driver | choice of a driver, load, unload, surfaces | drivers that fail after their library was loaded | no call into a library that is not open |
| Web keyboard (`sdlop_emscripten.c`, `SDL_keyboard_web.c`) | key state, modifiers, repeat | key and focus callbacks, reset, text input, look-ups | releases the page does not hear, modifiers without a side | key state accounted for, text and key code as held |
| Web windows and pointer (`sdlop_emscripten.c`) | canvases, table of selectors, pointer lock, focus | window calls, lock changes, mouse callbacks | lock granted, refused and ended behind the program's back | windows reached by their callbacks, lock agrees with the browser, movement told once |
| Web graphics (`sdlop_emscripten.c`) | WebGL contexts of windows, surface, fullscreen flag | window surface calls, context calls, fullscreen | contexts that cannot be made, answers that come later | no context that is gone is named, pixels cover the surface |
| Errors, log, timer; names of keys | none that others depend on | | | |

### What is modelled, and what is not

Modelled in full: the ring, the event queue, the raw input worker, its devices and
its callbacks, windows and initialisation with the dummy driver, surfaces,
the seat, dynamic loading, and the three parts of the web driver.  In their
main parts: the Wayland window (without titles, icons and minimizing), keyboard
state (one window, no lock modifiers, text input or `SDL_SetModState`), the mouse
(one axis, vertical wheel), OpenGL (without visuals and versions), the registry (scale, but no positions and modes of
outputs), keymaps (without the tables of names) and Vulkan (loading and surfaces;
the queries forward their calls).

### Not modelled

Errors, log and timer (formatting and clock reads), the tables of names of
scancodes and keys (constant data), the conversions of units, and the examples.

## 2. The modules

| Module | Models | Built on |
|---|---|---|
| `BoundedFifo` | abstract: a bounded queue that drops and counts when full, or when the producer has not noticed a free place | |
| `SpscRing` | the ring, one action per access to shared memory | refines `BoundedFifo` |
| `EventFifo` | abstract: the event queue as a sequence | |
| `EventQueue` | the event queue as slots and wrapping counters, with its text bytes | refines `EventFifo` |
| `RawInput` | worker and main thread around the two rings | takes each ring to be the queue `BoundedFifo` describes, with nothing owed |
| `WaylandWindow` | client window, both streams and the compositor | |
| `Keyboard` | keyboard state, the raw ring, the `wl_keyboard` stream and the compositor's view | |
| `Seat` | pointer, pointer lock, touch, windows and capabilities | |
| `Mouse` | position, motion, a button and the wheel, from the raw ring and the pointer's stream, with relative mode | |
| `GLContexts` | OpenGL contexts, their windows, EGL and its loader, over sessions of video | |
| `Windows` | windows, ids, focus and events, initialisation and quit, with the dummy driver | |
| `Surfaces` | surfaces and fills, byte by byte | |
| `RawDevices` | discovery of devices, descriptors, callback sets | |
| `Keymap` | xkb objects, table of symbols, key codes | |
| `Libraries` | libwayland-client, the choice of a driver, the Vulkan loader | |
| `Registry` | outputs, seat devices, cursor | |
| `WebKeyboard` | keyboard of the web build | |
| `WebPointer` | windows, pointer lock and mouse of the web build | |
| `WebGraphics` | surfaces, WebGL contexts and fullscreen of the web build | |
| `MCSessions` | the six modules from `Windows` to `Registry` in one instance | |
| `MCWeb` | the three modules of the web build in one instance | |
| `InputProofs` | theorems of `SpscRing` and `RawInput` | `TLAPS` and library facts, as all of these |
| `EventQueueProofs` | theorems of `EventQueue` | |
| `WaylandProofs` | theorems of `Keyboard`, `Keymap` and `WaylandWindow` | |
| `SeatProofs`, `MouseProofs`, `GLContextsProofs` | theorems of the module each is named after | |
| `SessionsProofs` | theorems of `Libraries`, `RawDevices`, `Registry`, `Windows` and `Surfaces` | |
| `WebProofs` | theorems of the three modules of the web build | |
| other `MC*` | the module with values of its constants for TLC | |

A definition named in a comment starting with "Mutant" is a plausible bug of
the definition that follows it.  It is never reachable from `Spec`;
`PROJECT.json` says which property notices it when it takes the place of the
real definition.

### How state and actions correspond to the code

*SpscRing.* `head`, `tail`, `dropped` and `data` are the fields of
`SDLOP_Ring`; `producer` and `consumer` say where a thread is inside
`SDLOP_RingPush` (`PushLoad`, `PushDrop`, `PushCopy`, `PushPublish`) and
`SDLOP_RingPop` (`PopLoad`, `PopCopy`, `PopPublish`).  A thread's own index is
exact.  Its acquire load of the other index returns any value from the last one
it saw to the current one: that is what C11 coherence allows.  The release store
that published that value makes the slots below it visible, so `data` is read in
place.  The 64-bit indices are naturals.

*EventQueue.* One action per call: `PushEvent` (`SDL_PushEvent`,
`SDLOP_PushEventInternal`), `PushBack` (pushing an event just polled, the one
case in which the source text lives in a slot), `PollEvent`, `FlushEvents`.
Counters wrap at `Width`, which stands for 2^32.  `text` is the pointer in the
event, `textbuf` the bytes in the slot; `said` remembers what was pushed.

*RawInput.* `worker` and `main` are program counters.  `EpollWait` returns all
ready sources in any order; `ReadSource` is one turn of the read loop, `PushSdl`,
`PushPoll` and `Count` publish one event; `Sample` and `Signal` are the two
halves of the wake-up test.  On the other side `Call`, `Pump`, `PollOrBlock` and
`Unblock` are the loop of `SDL_WaitEventTimeout`, and `QuitStop`, `QuitWake` and
`QuitClose` are `SDLOP_RawInputQuit`.  An unplugged device stays readable and
every read of it fails, as `EPOLLHUP` behaves.

*WaylandWindow.* `win` is `SDL_Window` with its `WaylandWindowData`, `requests`
and `events` are the two streams, `srv` what the compositor knows.  Handlers
(`ToplevelConfigure`, `XsurfaceConfigure`) and calls (`CreateWindow` and
`CreateReturns`, `ShowWindow`, `HideWindow`, `SetWindowSize`,
`SetWindowFullscreen`, ...) are made of functions of the window named for the
static functions of the driver (`CreateBuffer`, `Commit`, `Show`).
`win.error` is set where the protocol makes it an error, and nothing is sent after
that.  `win.handshake` is how far the role is: new, acknowledged, or unmapped by a
null buffer, after which a new commit and a new configure are needed; a configure
that was under way then is stale and acknowledges nothing.  `AttachNull` is the
attach of `wayland_UpdateWindowFramebuffer` when there is no buffer.  The
compositor's actions are external: they are what the client's listeners assume of
it.

*Keyboard.* `kb` holds the fields of `sdlop` that `SDL_keyboard.c` writes;
`ring` and `wire` are the two streams; `held` the fingers of the user; `seat`
what the compositor thinks.  Functions of `kb` are named for the C functions
(`SendKeyboardKey`, `ResetKeyboard`, `UpdateXkbModifiers`).  There is one window at
a time, which is destroyed (`RemoveWindow`) and made again (`OpenWindow`); until
the compositor has read that its surface is gone (`SurfaceGone`), an `enter` may name
it, and is nobody's.  `Leave` resets the keys only if there is a focus, as
`keyboard_leave` does.

*Seat.* Variables carry the names of `sdlop` and `wl_data` fields.  A window is
its address: it can be freed and handed out again.  A destroyed surface is
`Gone`: libwayland delivers events that carry it with a null surface, until the
compositor has noticed (`SurfaceGone`).

*Mouse.* `mouse` holds the fields of `sdlop` that `SDL_mouse.c` writes; functions
of it are the three ways to call `SDLOP_SendMouseMotion` (`SendRelative`,
`SendBoth`, `SendAbsolute`) and `SendButton`.  `ring` is the worker's ring,
`wire` the pointer's frames under way, `link` what the compositor has done about
relative mode.  What the user does (`Move`, `Cross`, `Press`, `Turn`) goes into
both streams at once, and each delivers when it likes: `RawPump` is one turn of
`SDLOP_RawInputPump` with `pump_event`, the `Pointer*` actions are the listeners.
`moved` and `turned` remember what the user did, for `MotionOnce` and
`WheelOnce`; `inexact` marks the cases in which the code itself counts a movement
twice or drops it (below), until the accumulated motion is next asked for.
`MotionOnce` says nothing of these.

*GLContexts.* `current_context`, `current_window`, `swap_interval`,
`egl_load_refcount`, `egl_initialized` and `egl_display` are the static variables
of the three files, `win[w]` the fields of `WaylandWindowData` that OpenGL uses.
EGL itself is external: `bound` is the context and surface of the thread,
`win[w].object` says that an EGL surface exists on the `wl_egl_window` (whether
or not the driver still has it in its slot, `gl_surface`), and `interval` is the
swap interval of that surface.  Three rules of EGL are used: a `wl_egl_window` has
one surface at a time, `eglSwapBuffers` takes the surface that is bound and no
other, and a new surface has a swap interval of 1.  A call is one action, and how
far it gets before something fails is chosen freely (`Outcomes` for
`ensure_egl_display`, `Reaches` for the rest of making current); what was done
until then stays done.  `egl_display` is the number of the session it was made
in, so that a display of an earlier session can be told apart.  A call through a
null pointer, with such a display, or that reads a freed context sets `fault`,
after which nothing happens.  `Careful` says what is assumed of the application:
it looks functions up after it made a context, and it makes its OpenGL calls in
one session.  The code faults without it (section 6).

*Windows.* `init_flags`, `windows`, `next_window_id`, `next_user_event` and the two
focus variables are fields of `sdlop`; the queue is the static one of
`SDL_events.c`, which `SDL_Quit` does not touch.  A window object is a number that
is never given again, so that two windows with one id can be told apart; an
event remembers, as history, the object it is about.  `told` is each window as a
program that applied every polled event would picture it, and `refused` the
windows about which an event was lost in a full queue or on which a call failed
half way.  Each call is one action, with what the dummy driver does in it.

*Surfaces.* The bytes of one surface, from offset 0.  A byte is a channel of a named
colour, so a colour is four bytes in the order of a little-endian machine, and
what a fill wrote can be compared with what `SDL_MapSurfaceRGBA` promised.
`image` is the colour each pixel was filled with last, `strayed` whether a byte
outside was written.  Sums of ints that overflow have no outcome in C: the build
may wrap them, or compare as if they were exact, so the model takes either
(`Computed`).  The pitch of a resized surface wraps (it is stored), its bytes are
a `size_t`.  `overflowed` remembers that one of these did not fit.

*RawDevices.* `StartInit`, `OpenDevice`, `NoDevices`, `StartWorker` and
`WorkerFails` are `SDLOP_RawInputInit` up to each of its returns; `StartQuit`,
`FinishQuit` and `CloseWake` are the shutdown.  A descriptor is the lowest number
that is free, so numbers are reused as the kernel reuses them.  `TakeSet` and
`CallNext` are `dispatch_callbacks`: the worker goes through the set it took while
`Register` and `Unregister`, on either thread, replace it.

*Keymap.* `objects` are the xkb objects alive, `xkb` the four pointers to them.
Scancodes, symbols and key codes have the numbers of the headers, and `symtab`
is the hash table with its linear probing; three layouts (us, fr, ru) replace one
another.

*Libraries.* `wl` is the handle and the count of `sdlop_wayland_dyn.c`, `vk` the
handle and entry point of `SDL_vulkan.c`; `InitVideo` tries the drivers as
`SDLOP_VideoInit` does, and says how far `wayland_Init` gets.  `pinned` counts the
attempts that left a reference behind.

*Registry.* `outputs` is the table of `wl_data`, `names` the globals of the
compositor, whose names are never used again in a session; `on` the outputs a
surface is on.  The listeners are the actions `Global`, `GlobalRemove`,
`ScaleOutput`, `OutputDone`, `Enter`, `Leave` and `Capabilities`; `seen` is what the
events told.

*WebKeyboard.* `held` and `page` are the browser's: the keys down and whether the
page has the focus, without which it hears of no key.  `Press`, `Autorepeat` and
`Release` include `key_cb` and `SDLOP_SendKeyboardKey`; `event` is what was pushed.
The tables have one row of each kind of row in the code.  `locks` are caps lock and num
lock as the user sees them (`ToggleLock`), which the browser could tell and the code
does not ask for.  `unheard` and `missed` are
the keys whose press or release the page did not hear.

*WebPointer.* `canvas`, `selectors` and `pointer_locked` are the driver's; `lock`,
`asked` and `changed` the browser's: who has the pointer lock, who asked for it,
and whether the page is still to hear of a change.  `AnswerLock` and `LockMoves` are the
browser's steps, `PointerlockCb` the callback.  `inherited` names windows created on
an element that had the lock already, of which no change is told.

*WebGraphics.* `first` is the window on the page's own canvas (`PageCanvas`), which
stays in the page when the window goes; the others have a canvas of their own,
removed with them (`Canvas`, `ClosePane`).  `contexts` and `bound` are the browser's WebGL contexts; a handle is
never given again.  A context that cannot be created has the result 0 or one that
is no handle, which the driver stores.  Sizes in bytes are computed modulo
`SizeMax + 1`, as a `size_t` is.  `SetPaneFullscreen` is refused at once or answered
later by `FullscreenAnswered`; `overtaken` says that fullscreen was left while a
request was on its way, `abandoned` that the page's canvas was fullscreen, or to
become so, when its window went.

`MCSessions` and `MCWeb` explore each of their modules by itself: a variable `part`
says which one a behaviour is of.  The parts write no variable of one another in
the code either, apart from the calls that each module includes.  Some are a part
of a module: where two groups of actions write what the other does not read (the
mouse and the windows of the web, the states of a window and its extents), each
is explored with a small instance of the other.

## 3. The runs

| Run | Instance | Properties | What it shows |
|---|---|---|---|
| `spsc_ring` | 2 slots, 2 values, 5 pushes | `RingSafe`, `ImplementsFifo` | No slot is touched by both threads, the count never wraps, and the ring is the bounded queue, with stale indices. Five pushes lap two slots twice and find the ring full. |
| `event_queue` | 3 slots, counters wrap at 6, text of 2 bytes, strings of 0 and 2 | `QueueInv`, `OwnTextIntact`, `ImplementsEventFifo` | The queue through several wraps of its counters, with flushes that drop one event and move two. 279 thousand states, all of them: the state space is finite without a bound. |
| `raw_input` | 2 devices of 2 events, rings of 2 and 1, reads of 2, queue of 1 | `InOrder`, `LossesCounted`, `NoUseAfterClose` | Every interleaving of worker, main thread, unplugging and quitting. Both rings overflow, at different times. 5.0 million states. |
| `raw_input_live` | 1 device of 3 events | `BlockedSeesInput`, `QuitTerminates` | A blocked wait ends and quit returns, with both threads scheduled. Three events are a batch and a half. |
| `wayland_window` | 2 sizes, 2 requests and 2 events under way | `NoProtocolError`, `SizesAgree`, `ShownIsMapped` | All orders of calls, configures and failed allocations of one window, a null buffer that unmaps it included. Two events are one whole configure, two requests a call behind another. 2.1 million states. |
| `wayland_window_surface` | 4 events under way | `SurfaceIsBuffer`, violated | A failed resize leaves a dangling surface (section 6). |
| `keyboard` | 2 shift keys, 1 repeating key, ring of 2, 4 messages under way | `DownAsTold`, `NoStuckKey`, `ModsTrackSeat` | Two streams with independent delays, overflow, focus changes, resets, and a window that is destroyed with or without the focus and made again. Two keys of one group are needed to see a bit survive its key. 5.9 million states up to symmetry of the shift keys. |
| `seat` | 2 windows, 3 fingers, 2 slots, symmetric | `FocusSound`, `LockFollowsMode`, `EnterLeave`, `NoStuckFinger`, `RearmedOnEnter` | Windows and devices that come and go at any time. Three fingers overflow two slots. 466 thousand states up to symmetry. |
| `mouse` | windows of 2 and 3 positions, ring of 1, 2 frames under way, movement of 1 not asked for | `PositionInside`, `ToldOnce`, `Follows` | Both streams with independent delays, with raw input and without, relative mode, lock taken back. One window larger than the other puts the last position outside the new one; two frames are a crossing and what follows it. 1.8 million states. (A ring of 2 passes too: 13.4 million, too long to run often.) |
| `gl_contexts` | 2 windows of 2 sizes, 2 contexts, 2 sessions, symmetric, `Careful` | `NoFault`, `DrawnAsTold`, `EglWindowFits`, `IntervalApplied` | All orders of OpenGL calls, window calls and configures, each failing wherever it can. Two windows and two contexts are needed for anything to be bound to the wrong one; the second session meets what the first left. 1.1 million states up to symmetry. (It also passes with 2 loads of libEGL: 2.3 million.) |
| `web` | 6 keys; 2 windows, 2 selectors, 2 canvases beside the first, places 0 to 1; 2 panes of sides 1 to 3, `SizeMax` 31, 2 contexts; symmetric | `KeysAccounted`, `KeysMean`, `PointerSound`, `GraphicsAgree` | The web build with a browser that does what it likes between the program's calls. A side of 3 is 36 bytes, more than `SizeMax`, so the sizes that overflow are there; three canvases overflow two selectors; a pane that goes and one that comes share the page's canvas. Caps lock and num lock are on or off. 721 thousand states up to symmetry. |
| `sessions` | 5 nodes for 3 device slots, 2 callbacks for 3 entries, 6 sets, 2 failed threads; 3 layouts; 3 references left behind; 2 windows on 2 outputs of 4 names, scales 1 and 2, 6 ids; 3 window objects, 1 quit, queue of 2, 3 user events; 8 formats, widths 1, 2 and 9, pads 0, 2 and 4, edges of -16, 1 and 15, `IntMax` 15, `SizeMax` 63 | `WindowsAccounted`, `EventsTellState`, `SurfacesSound`, `DevicesAccounted`, `CallbacksSafe`, `KeymapSound`, `OpenWhileUsed`, `RegistryTold` | What is opened and handed out is accounted for over two sessions, with every step failing somewhere. More nodes than slots, and more names than outputs, fill both tables; a width of 9 overflows an int pitch (36 > 15) while its bytes still fit one row of `SizeMax` and not two, and edges of 15 and -16 overflow the sum with a corner on their side of 0. The colours of fills are explored with the rectangles whose sums are ints; one whose sum overflows is tried on an unpainted surface, and nothing is made of a surface after an overflow but destroying it. 687 thousand states up to symmetry of the callbacks. |

The larger properties are conjunctions of named parts: `RingSafe` of `RingInv`,
`NoSlotRace` and `CountInRange`; `LossesCounted` of `TypeOK` and `Accounting`;
`SizesAgree` of `WindowTypeOK` and `BufferFits`; `DownAsTold` of `TypeOK`, `RepeatHeld` and
`ModBitHeld`; `FocusSound` of `TypeOK` and `FocusLives`; `ToldOnce` of `TypeOK`,
`MotionOnce`, `ButtonOnce` and `WheelOnce`; `DrawnAsTold` of `TypeOK`, `BoundAsTold`
and `ActiveWhereBound`; `KeysMean` of `TextAsHeld` and `KeycodeLeadsBack`;
`PointerSound` of `WindowsReachable`, `LockAgrees` and `MotionTold`; `GraphicsAgree` of
`NoDeadContext`, `PixelsCoverSurface` and `FullscreenTold`; `WindowsAccounted` of
`EventNamesItsWindow`, `FocusIsFlagged` and `HandedOutOnce`; `SurfacesSound` of
`FillStaysInside` and `SurfaceIsImage`; `DevicesAccounted` of `TagNamesDevice`,
`FdsAccounted` and `SeatHasReader`; `KeymapSound` of `ObjectsOwned` and
`KeycodeLeadsBack`; `RegistryTold` of `OutputsFollow` and `DevicesPaired`.

Bounds, all of them constants: `MaxPush` (pushes attempted on the ring),
`MaxEvents` of `RawInput` (events per device), `MaxRequests`, `MaxEvents` of
`WaylandWindow` and `WireSize` of `Keyboard` and `Mouse` (messages under way),
`MaxUnread` and `Outside` of `Mouse` (movement not asked for, and how far a
position that no window confines may go), `MaxSessions` and `MaxLoads` of
`GLContexts` (initialisations of video, and references to libEGL), `MaxNodes`,
`MaxSets` and `MaxLost` of `RawDevices` (entries of `/dev/input`, callback sets
allocated, thread starts that fail), `MaxPinned` of `Libraries` (connections that
failed), `MaxNames` and `MaxIds` of `Registry` (globals of a session, devices
reported), `MaxWindows` and `MaxQuits` of `Windows` (window objects made, calls of
`SDL_Quit`), `MaxCanvas` of `WebPointer` and `MaxContexts` of `WebGraphics` (canvases and
WebGL contexts made).  `RingSize`, `Slots`, `Size`, `Width` and the like are
parameters of the code at a small value.  Symmetry is used in `keyboard`, `seat`,
`gl_contexts`, `web` and `sessions`, which check no liveness; shift keys, windows,
fingers, contexts and callbacks are only compared for equality there.

Deadlock is checked except where the system really may stop: in `spsc_ring`
when the bound on pushes is spent, in the `event_queue` run because a full
queue refuses pushes, and in the `raw_input` runs when both threads have
ended after quit.

## 4. Fairness

`RawInput` asks for weak fairness of the worker's next step and of the main
thread's next step inside a library call: the operating system schedules both.
It asks nothing of devices and nothing of the application, which may stop
calling.  `Unblock` is always enabled in a blocked main thread because
`SDL_WaitEventTimeout` caps its `poll` at 10 ms; the mutant without the cap
loses `BlockedSeesInput`, so the cap is what the property rests on.

`WaylandWindow` asks that the compositor reads requests and answers what it has
to answer, that the client dispatches what it received, and that
`SDL_CreateWindow` returns from its roundtrip.  `ShownIsMapped` is a promise
about that situation only: nothing is promised to an application that never
pumps.

The other modules have no liveness properties and no fairness.

## 5. The proofs

TLAPS proves these for all values of the constants that satisfy the `ASSUME`s of
the modules (a positive capacity, a finite table, sentinels that are no
values, a table of symbols with room for two symbols of each key), over
unbounded behaviours.  One theorem has a hypothesis of its own, about constants:
`LayoutsUsual` on the layouts, which the instance that TLC checks meets
(`MCSessions` assumes it).

* `InputProofs`, the ring: `RingAlwaysSafe` (from `RingInvariant`, `NoSlotRaceHolds` and
  `CountInRangeHolds`), `RingImplementsFifo`.  `NoSlotRace` is not inductive: a thread acts on an
  index it read earlier.  `RingInv` adds the order seenTail <= tail <=
  seenHead <= head, the distance head - seenTail <= Capacity, and what each
  local copy equals.  Distinct indices less than `Capacity` apart lie in distinct
  slots (a lemma on `%`), from which the race freedom follows.  Refinement maps
  publishing to append and pop to removal of the head; the other steps stutter
  or give back a place owed.
* `InputProofs`, worker and main thread: `RawInvariant`, and from it `EventsStayInOrder`,
  `LossesAlwaysCounted` and `NeverUsedAfterClose`, for any devices, events and
  sizes of rings and reads.  Order is not inductive by itself.  `OnTheWay` says where the
  events of a device are: the kernel holds the last ones without a gap, the batch and the
  ring hold older ones in order, the ring's before the batch's, and all of them
  after the last one popped.  The count of losses needs to know that there is a batch
  exactly where the worker publishes (`BatchAtHand`), the shutdown that only a quit that
  joined the worker closes descriptors (`Closed`).
* `EventQueueProofs`: `QueueInvHolds`, `OwnTextIntactHolds`, `QueueImplementsFifo`.  The inductive
  invariant is `QueueInv` with two parts: a queued text event says what its
  slot's bytes are, wherever it points (`BytesIntact`), and only an event that was
  pushed with a string points at a slot (`Pointed`).  `OwnTextIntact` alone is
  not inductive: a flush can bring an event to the slot its stale pointer names,
  and the string there is its own only because its bytes were moved with it.
  The difficult part is the arithmetic of places modulo `Width`
  and slots modulo `Size`; it uses only that `Width` is a multiple of `Size`.
  For the refinement the abstract flush says which places stay, in their order, and
  the proof gives the places that the flush of the ring keeps.
* `WaylandProofs`, the keyboard: `DownAlwaysAsTold`, `KeyboardInvariant`, `KeysNeverStick`,
  `ModsAlwaysTrackSeat`.  `DownAsTold` needs only itself; that the
  scancode of the repeat is the one a key up compares with is the point of `RepeatHeld`.  The other two
  are about streams that were drained, so `KeyboardInv` must say what each stream
  will do: `Reaches` says that the messages lead from the keys told down to those
  the user holds (`RawReach`, `WireReach`).  It is stated without handling
  the messages one by one: a key that is down, or goes down, is down at the end unless a later message
  settles it.  So it is proved without induction over the stream.  A message of the
  modifiers leads to keys whose groups are in effect where it stands (`Leads`), and a leave finds the client in
  focus, or its window gone (`LeaveInFocus`): in the first case it resets the keys, in the second
  it does not, and `NoStuckKey` excuses those that were down (section 6).
* `WaylandProofs`, the window: `WindowInvariant`, `NeverProtocolError`, `SizesAlwaysAgree`, for any
  number of requests and configures under way.  `OfTheRole` says that what is
  acknowledged, committed or on its way is of the role the window has now, `HasSize` that a window in
  use has a size; without the first a configure of an earlier role would be acknowledged to
  the new one.  `NoProtocolError` excepts the buffer that is attached after one could not be made and
  a null buffer unmapped the window, which does happen (section 6).
* `WaylandProofs`, the keymaps: `ObjectsAlwaysOwned`, without a hypothesis, and `KeymapAlwaysSound`.
  `KeymapInv` says that there is no context, a context alone, or a keymap with two
  states of one layout, and that the table is the one `build_symtab` makes of that layout.  The table is
  the difficult part.  A symbol that is put in stays findable (`Findable`): the
  search for any other symbol passes the same slots or ends at a free one.  As long as a slot is free
  (two symbols for each key at most, by `KeymapAssumption`) the table then behaves as a map (`PutFinds`, `GetFinds`).
  `build_symtab` is a recursive function; that it exists, and what it has entered after
  each code (`Holds`), is proved from the lowest code at which it would fail, since the rules
  of induction take an operator.  `LayoutsUsual` is what the rest needs: a printable symbol of a layout is on the first evdev code of its scancode, Delete
  on the Delete key, and no layout has both a capital and its small letter as symbols without shift.
* `SeatProofs`: `FocusAlwaysSound` (from `SeatTypeCorrect` and
  `FocusAlwaysLives`), `LockAlwaysFollowsMode`, `EnterAlwaysLeaves`, `FingersNeverStick`, `AlwaysRearmed`.  Two parts
  strengthen the invariant: the set of fingers is finite (for the bound on the
  table), and `Granted`: there is a window in relative mode only if the
  compositor has the protocols.  Without `Granted` a re-arm on enter might be
  refused and `RearmedOnEnter` fail.

* `MouseProofs`: `PositionAlwaysInside`, `MotionAndButtonOnce`, `AlwaysFollows`.  For the first, three things strengthen it.  The far
  edge gives way to the position last reported (`constrain_mouse_pos`), so that
  must be inside as well.  `pointer_motion` stores what the compositor sent,
  so a frame under way must be about the window that will have the
  pointer when it is handled (`Chained`), and the last one about the window the
  pointer is on (`EndsOn`).  An enter needs none of it: it forgets where the
  mouse was.  `MotionOnce` is a sum over the messages under way.  A sum
  is the number of those that say +1 less the number of those that say -1
  (`CountOf`, `SumOf`), so one more or one less changes it by its own amount, without induction.  Of the button
  it is enough what the stream ends on (`Ends`).  That movement is told once rests on
  what a frame can bring where nothing is told (`Quiet`), and both `MotionOnce` and `Follows` on
  where the frames lead: each one starts at the position the one before it left, and the last
  ends at the cursor (`WireMoves`).  These are one inductive invariant, `Streams`.  Movement and
  button are told once with any wheel.  Nothing is proved of the wheel: current kernels and
  compositors report a notch twice, and the code does not tell it once then (section 6).

* `GLContextsProofs`: `DrawnAlwaysAsTold` (from `GLTypeCorrect`,
  `BoundIsAlwaysTold` and `BoundIsAlwaysActive`), `EglWindowAlwaysFits`, `IntervalAlwaysApplied` hold for
  any application, `CarefulNeverFaults` for a careful one.  Three things
  strengthen their conjunction (`GLInv`): before the display is there nothing is
  bound and no context exists (`UnboundBefore`), windows have EGL surfaces only
  while the display they were made from is there (`SurfacesUsable`; without it
  destroying a window might call into a library that was unloaded), and the
  context SDL reports was not deleted (`CurrentLives`; without it a context might
  share with freed memory).  What a call does to one window is proved once
  (`WindowInv`), then lifted to the table of windows.

* `WebProofs`: `GraphicsAlwaysAgree`, `KeysAlwaysAccounted`, `KeysAlwaysMean` and
  `PointerAlwaysSound`, for any number of
  windows, sizes, contexts, canvases and keys.  `GraphicsInv` is three parts that share only
  the windows.  For contexts it adds that no two windows name one context
  (`ContextsApart`): otherwise closing a window would take the context of another.
  For surfaces `PixelsCoverSurface` is inductive, by one fact on `%`.  For
  fullscreen it adds that a window about which a request is on its way says
  it is fullscreen, or the request was overtaken or its page canvas abandoned: an answer that comes late
  would otherwise break it.  `KeyInv` adds only types; that it is inductive rests on
  no two codes having one scancode (`CodesApart`), for otherwise letting go of one
  key would release another that is held.  What an event means (`KeysMean`) is a matter of the tables,
  row by row, and of how `key_cb` rebuilds the modifiers (`KeyCbMeans`); of the text it says
  nothing where a lock that is on concerns the key (`LockMatters`).
  For the pointer, `PointerInv` adds that a window is listed once and that no two have one canvas
  (`CanvasesApart`): the callback of a canvas looks for the first window that has
  it.  As long as the table of selectors has room each canvas of a window is in it
  (`SelectorsKept`), the lock is on a canvas, and the
  position is that of the event handled last (`PositionKept`), which is what makes
  the next motion the right difference.

* `SessionsProofs`: `LibrariesAlwaysOpenWhileUsed`, `DevicesAlwaysAccounted`, `CallbacksAlwaysSafe`,
  `RegistryAlwaysTold`, `WindowsAlwaysAccounted`, `EventsAlwaysTellState` and `SurfacesAlwaysSound`, about modules that share nothing.  The count of
  libwayland is what `WaylandCounted` says it is, the library of n references; the
  proof is the arithmetic of loading and unloading.  For the devices,
  `DevicesInv` adds that no descriptor is used for two things (`FdsApart`): closing one
  would close the other.  It rests on `LowestIsFree`, that a finite set of numbers
  leaves a lowest one free, which takes the well-foundedness of <.  It also notes what
  the devices can do while they are being opened (`HaveNoted`).  `CallbacksInv` adds only
  that the sets allocated are finitely many, so that a new one has a new number.  For the registry,
  `OutputsBound` adds that no two entries of the table have one name and that no name
  is beyond the last one announced, so that an output that is new is not one that a
  window still names; `CompactedTable` says that moving entries up
  loses the removed one only; `FramesTold` says it of every entry with the
  name, which the look-up finds (`OutputAt`).  For the windows, ids grow with the objects of
  a session and the next one is beyond them (`IdsInv`), and a queued event has the id and the session
  of its window, gone or not (`EventsInv`): so an id that is looked up finds that
  window or none.  `ToldInv` makes `EventsTellState` inductive: what is
  queued leads from what the program was told of a window to what the window is like (`Tells`, a history of
  views, one for each place of the queue), unless an event of it was refused.
  For the surfaces, `SurfaceInv` adds that the bytes of a surface hold its rows (`Shape`), and speaks of
  surfaces on which nothing overflowed; there clipping has one outcome (`ClipsExact`).  The rest
  is arithmetic of places: byte r of row y, y * s + r, is of one row and column
  only (`PlaceApart`), for a fill that counts rows in pixels (`StrideFits`) and for a reader that counts
  them in bytes; so a fill writes each byte with the channel that is read there, and no byte of the padding.

Checked by TLC only: liveness (`BlockedSeesInput`, `QuitTerminates`,
`ShownIsMapped`), which is beyond the prover, and the wheel's part of `ToldOnce`.
Every other property of a run that passes is stated by a theorem.  The invariants these add were first checked with
TLC, where it can evaluate them.

## 6. Where the code and what is said of it disagree

One is a run that ends in a counterexample, `wayland_window_surface`:
`window_create_buffer` unmaps the old buffer before the new one exists; when that
fails, the window surface points at unmapped memory.

The others have no run of their own.  Most are stated in their module: to see
one, name it as `INVARIANT` or `PROPERTY` in a copy of the module's
configuration.  The rest are what a module takes from the code as it is, or
excuses by name in one of its properties; the entries of `PROJECT.json` quote both
sides of each.

`QueuedTextIntact`, an invariant of `EventQueue`: `SDL_FlushEvents` copies
`event.text.text` unchanged when it moves a slot; a later push overwrites the
string of a queued event.

`FullscreenAsAsked`, an invariant of `WaylandWindow`: a configure sent before a
request overwrites the fullscreen flag, and the next request is dropped as already
done.

`AttachesConfigured`, an invariant of `WaylandWindow`:
`wayland_UpdateWindowFramebuffer` attaches a null buffer when the last resize could
not make one; that unmaps the window, which goes on counting as configured, and
the next buffer is attached without a new configure.  `NoProtocolError` is every
other reason for an error.

`DestroyedLetsGo`, an invariant of `Keyboard`: a window that is destroyed while it
has the focus is taken out of `keyboard_focus`, so the leave that follows finds no
focus and resets nothing: its keys stay down, with their repeat and modifier bits.
`NoStuckKey` and `ModsTrackSeat` excuse this until the next reset.

`ModsTrackKeys`, an invariant of `Keyboard`: with raw input a modifiers message
that was sent before a key press clears the bit the press has set, and it is not
set again.

`WakePending`, an invariant of `RawInput`: the ring is sampled before the reads
and the eventfd written after them.  Drained in between, the batch is not
signalled, and a blocked `SDL_WaitEvent` sleeps out its 10 ms instead of waking at
once.

In `Seat`, an invariant (`FlagMeansMode`) and two action properties:

* `WindowUnderFinger`: motion of every finger is reported for the window touched
  last (`touch_focus`), also when the finger is on another.
* `TouchFocusLives`: `touch_focus` outlives its window.  That is why
  `FocusLives` does not list it.
* `FlagMeansMode`: relative mode moved to a second window leaves the flag of the
  first set.

In `Mouse`:

* `ToldOneWay`, an action property: after the compositor took the lock back the
  relative pointer stays, and each movement is told both as a change of the
  position and as relative motion, so the accumulated motion doubles.
* `WheelOnce` with `Value120 = TRUE` (a `wl_seat` of version 8 or 9, no raw input):
  `pointer_axis` and `pointer_axis_value120` add up one notch with opposite signs,
  and no wheel event is sent at 10 units a notch.  The run has a seat that does
  not send it, which is the case the code handles.
* `WheelOnce` with `HiRes = TRUE` (raw input): a kernel that sends
  `REL_WHEEL_HI_RES` besides `REL_WHEEL` has every notch told twice.
* `Anchored`, an invariant: a raw movement handled after the `pointer_motion` that
  includes it moves the position a second time; it stays off until the next
  motion.

In `GLContexts`, all invariants:

* `CurrentIsBound`: deleting any context, also one that could not be made current,
  unbinds the current one; `SDL_GL_GetCurrentContext` goes on returning it.
  `BoundAsTold` is the half that holds.
* `CurrentWindowLives`: `SDL_GL_GetCurrentWindow` returns a window that was
  destroyed.
* `PresentsConfigured`: `SDL_GL_SwapWindow` attaches a buffer to a window whose role
  is gone or not configured yet, which `window_commit` takes care not to do.
* `CanBeRemade`: a swap of a window that is not current makes the driver forget an
  EGL surface that is still there, and the window can have no other.
* `ReleasedAtQuit` with `MaxLoads = 2`: every attempt to get a display takes a
  reference to libEGL, and quit gives one back.
* `NoFault` with `Careful = FALSE`: `SDL_GL_GetProcAddress` before the first context
  calls a null pointer, and so does every OpenGL call of a second session:
  `egl_initialized` stays set when the library is unloaded.

In `Registry`, both invariants:

* `OutputIntersects`: `surface_leave` forgets the window's output whichever one was
  left, so a window on two outputs stops following the scale of the other.
* `CursorOfSession`: `ensure_cursor` keeps its surface in static variables that
  `wayland_Quit` does not reset; the next session gives a pointer an object of a
  connection that is closed.

In `RawDevices`:

* `SeatHasReader` without `unwatched`: `have_keyboard` is set before `epoll_ctl` can
  refuse the device, and the seat's keys are dropped though nobody reads it.
* `FdsAccounted` without `lost`: when the thread cannot be started the control
  eventfd stays open.
* A callback registered before `SDL_Init` is accepted and then forgotten
  (`StartInit`); every unregistration allocates a set that is not freed.

In `Keymap`: the space bar's key code is not `SDLK_SPACE`; F13 to F24 are computed
from F1 and get the codes of other keys; without a keymap every key code is
unknown, where `SDL_Init` says that they still resolve.

In `Windows` and `Surfaces`: the dummy driver turns round the fullscreen flag that
SDL has set already; `SDL_FillSurfaceRect` swaps red and blue of a colour that
`SDL_MapSurfaceRGBA` laid out for the format.  `FillNeverStrays`, an invariant of
`Surfaces`: a rectangle whose position and width add up to more than an int is
not clipped, and is filled beyond the surface; `SurfacesSound` is about surfaces on
which nothing overflowed.

In the web build:

* `LocksCount`, an invariant of `WebKeyboard`: `key_cb` builds the modifiers without
  caps lock and num lock, so letters have no capitals by caps lock and the keypad
  never types, which `resolve` is written to do.  `TextAsHeld` speaks of text where
  no lock that is on concerns the key.
* `NewWindowTold`, an invariant of `WebGraphics`: the page's canvas stays fullscreen
  when its window goes, and the next window on it has the flag clear and cannot
  leave.

* `KeysAccounted` excuses `missed`: losing the focus releases no key.
* `TextAsHeld` leaves out modifier keys, and speaks of groups only: the side of all
  modifiers is taken from the one key of the event, so right control turns a
  left shift that is held into a right one.
* `FullscreenTold` excuses `overtaken` and `abandoned`, and says only one direction: a request
  refused later, or a user who leaves, keeps the flag, and
  the next request is dropped as already done.
* The pixels of an `ARGB8888` surface are uploaded as RGBA, with red and blue
  exchanged; `SDL_DestroyWindowSurface` frees none of them.
* `SDL_SetWindowSize` multiplies sizes without the check that
  `SDL_CreateSurface` makes (also in the dummy driver).

`src/README.md:120` names functions that do not exist.

## 7. Abstractions, and the plan

What the models leave out, by module:

* `SpscRing`: elements are values; `elem_size` and the allocation are not there.
* `EventQueue`: a string is its length; `SDL_RegisterEvents` is in `Windows`; pump
  and wait in `RawInput`.
* `RawInput`: which devices are opened and what callbacks do (`RawDevices`), `MSC_SCAN` (skipped by the
  worker); reading an event and the `left <= 0` turn of the wait loop is part of
  its timeout return; `EINTR` retries.
* `WaylandWindow`: titles, icons, outputs and scale, minimizing (`MINIMIZED` is
  never read back), failures to create role objects, GL (`gl_active` is false;
  `GLContexts` has it),
  `mapped`, which nothing reads.  A size is one number.
* `Keyboard`: keymaps and key codes (`Keymap`), text input, lock modifiers, `SDL_SetModState`;
  a second window (each enter and leave is of one, and `Seat` has two); whether raw input is active does not change while it runs.
* `Seat`: positions, buttons, cursors, outputs.  A pointer that goes away
  without a leave is a step; that its lock object is stale afterwards is visible
  (`locked_pointer` stays set), and what the compositor does with it is not
  modelled.

* `Mouse`: one axis, and one button; a frame is one message, and so is a device's
  report up to its `SYN_REPORT`; positions are whole; windows keep their sizes
  and stay (`Seat` has them come and go), so a window made smaller under the
  pointer is not there, and driver and core have one pointer focus; whether raw
  input reads the mouse does not change while it runs.  `keyboard_focus`, which
  `pump_event` reads when no window has the pointer, is any window at any time.
  `SDL_WINDOW_MOUSE_CAPTURE` is never set in the repository.
  `inexact` is set when a frame brings position and relative motion both, when a
  position follows relative motion, and when switching relative mode destroys
  relative motion on its way.

* `GLContexts`: visuals, versions, profiles, the API that is bound, events sent;
  the compositor is reduced to a configure that may come at any time, and a size
  is one number; a lost libwayland-egl is one of the failures before the
  `wl_egl_window`; one thread makes all calls, as EGL binds per thread.

* `Windows`: titles are data; sizes and positions have
  one dimension; the functions for OpenGL and Vulkan of the dummy driver report an
  error and change nothing.

* `Surfaces`: one surface at a time; overflow that does anything but wrap or go
  unnoticed; a
  big-endian machine is left out; what a `realloc` keeps of old pixels is not said
  by anyone, so it is blank here.

* `RawDevices`: what the worker reads (`RawInput`); `MSC_SCAN` and abilities
  other than keyboard and pointer; a mutex makes each registration one step.

* `Keymap`: dead keys and composing, which the code has not; groups; modifiers other
  than shift and caps; xkb itself is external: an object is made whole or not
  at all.

* `Libraries`: which of the candidate names is opened; symbols are loaded together or
  one is missing; the requests a window makes while it is mapped are one step.

* `Registry`: modes, positions and names of outputs; an event is dispatched when it
  is sent, so a request never crosses one (`WaylandWindow` and `Seat` have that).

* `WebKeyboard`: one row of each kind of the two tables; Japanese and
  other input methods are the code 229, and text they compose is not modelled.

* `WebPointer`: one dimension, one size of canvas; the wheel only
  converts units; touch is not in the driver.

* `WebGraphics`: square windows; attributes of contexts; a context the browser takes
  away stays a handle and is not modelled.

Seen in the code and in no model: `wayland_Init` that fails after libwayland was
loaded leaves its count (`pinned` in `Libraries` says by how much, not that it
should be otherwise); `SDL_Vulkan_UnloadLibrary` unloads at once however often the
library was loaded; the table of symbols outlives `SDLOP_KeyboardQuit`; on the web a
second context of a window makes the driver forget the first one, which is then
deleted by nobody; a seat that loses its keyboard leaves focus and key state as
they were (`Capability` in `Keyboard`, which counts the keys that were down among the
lost reports `NoStuckKey` excuses).

Plan, in this order:

1. Refinements between modules: that the rings of `RawInput` are the queue that `SpscRing` implements.
2. Minimizing in `WaylandWindow`, and the horizontal wheel in `Mouse`.
