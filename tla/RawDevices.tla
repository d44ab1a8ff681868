------------------------------ MODULE RawDevices ------------------------------
(***************************************************************************)
(* The devices, descriptors and callbacks of src/internal/sdlop_evdev.c:   *)
(* what SDLOP_RawInputInit opens and SDLOP_RawInputQuit closes, and the    *)
(* snapshots of the callback table, which a callback on the worker thread  *)
(* and the main thread replace while the worker goes through an older one. *)
(*                                                                         *)
(* A descriptor is a small number, the lowest free one, as the kernel      *)
(* gives them.  What the worker does with an event is RawInput's subject.  *)
(***************************************************************************)
EXTENDS Integers, Sequences, FiniteSets, SequencesExt

CONSTANTS
  MaxNodes,     \* bound: entries of /dev/input
  MaxDevices,   \* SDLOP_MAX_DEVICES
  Callbacks,    \* the functions an application registers
  MaxCallbacks, \* SDLOP_MAX_CALLBACKS
  MaxSets,      \* bound: callback sets allocated, most of which leak
  MaxLost,      \* bound: thread starts that fail
  Control       \* 0xFFFFFFFF, the tag of the control eventfd

ASSUME DevicesAssumption ==
  /\ {MaxNodes, MaxDevices, MaxCallbacks, MaxSets, MaxLost} \subseteq Nat
  /\ Control \notin Nat

NoFd == -1

VARIABLES
  main,       \* where the main thread is: "off", "opening", "on", "quitting"
  nodes,      \* entries of /dev/input not yet read
  files,      \* the open descriptors
  watched,    \* what epoll watches: a descriptor and its tag
  fds,        \* sdlop.wake_fd, raw.epoll_fd and raw.control_fd
  devices,    \* raw.devices, up to num_devices
  have,       \* raw.have_keyboard and raw.have_pointer
  callbacks,  \* raw.callbacks: a set's id, or 0
  sets,       \* the callback sets allocated
  worker,     \* the set the worker goes through, and the entry it calls; 0 when not
  wanted,     \* history: callbacks registered and not unregistered since Init
  removed,    \* history: those unregistered since the worker took its set
  unwatched,  \* history: what the devices epoll refused could do
  lost        \* history: control eventfds left open by thread starts that failed

deviceVars == <<main, nodes, files, watched, fds, devices, have, callbacks, sets, worker,
                wanted, removed, unwatched, lost>>
openVars == <<files, watched, fds, devices, have>>
callbackVars == <<callbacks, sets, wanted, removed>>

Idle == [set |-> 0, at |-> 0]

DevicesInit ==
  /\ main = "off" /\ nodes = 0
  /\ files = {} /\ watched = {} /\ devices = <<>> /\ have = {}
  /\ fds = [wake |-> NoFd, epoll |-> NoFd, control |-> NoFd]
  /\ callbacks = 0 /\ sets = <<>> /\ worker = Idle
  /\ wanted = {} /\ removed = {} /\ unwatched = {} /\ lost = {}

Lowest(used) == CHOOSE n \in 0..Cardinality(used) : n \notin used /\ \A k \in 0..(n - 1) : k \in used

\* Closing a descriptor takes it out of the epoll set too.
Closed(fdset) ==
  /\ files' = files \ fdset
  /\ watched' = {w \in watched : w[1] \notin fdset}

-----------------------------------------------------------------------------
(* SDLOP_RawInputInit *)

\* memset, the wake eventfd if SDL_Init could not make it, the epoll and
\* control descriptors: `made` of the last two steps and of epoll_ctl succeed.
StartInit(made, woken) ==
  /\ main = "off"
  /\ LET wake == IF fds.wake # NoFd THEN fds.wake ELSE IF woken THEN Lowest(files) ELSE NoFd
         held == files \cup ({wake} \ {NoFd})
         epoll == Lowest(held)
         control == Lowest(held \cup {epoll})
     IN  IF made = 3
         THEN /\ files' = held \cup {epoll, control}
              /\ watched' = {<<control, Control>>}
              /\ fds' = [wake |-> wake, epoll |-> epoll, control |-> control]
              /\ main' = "opening" /\ nodes' \in 0..MaxNodes
         ELSE /\ files' = held
              /\ fds' = [wake |-> wake, epoll |-> NoFd, control |-> NoFd]
              /\ UNCHANGED <<watched, main, nodes>>
  /\ devices' = <<>> /\ have' = {} /\ callbacks' = 0
  /\ wanted' = {} /\ unwatched' = {}
  /\ UNCHANGED <<sets, worker, removed, lost>>

\* Mutant: num_devices counts the device before epoll_ctl can refuse it.
OpenDeviceEarly(can, outcome) ==
  LET fd == Lowest(files) IN
  /\ main = "opening" /\ nodes > 0 /\ Len(devices) < MaxDevices
  /\ nodes' = nodes - 1
  /\ IF outcome \in {"denied", "mute"} \/ can = {}
     THEN UNCHANGED <<openVars, unwatched>>
     ELSE /\ have' = have \cup can
          /\ devices' = Append(devices, [fd |-> fd, can |-> can])
          /\ IF outcome = "refused"
             THEN unwatched' = unwatched \cup can /\ UNCHANGED <<files, watched>>
             ELSE /\ files' = files \cup {fd}
                  /\ watched' = watched \cup {<<fd, Len(devices)>>}
                  /\ UNCHANGED unwatched
  /\ UNCHANGED <<main, fds, callbackVars, worker, lost>>

\* open_input_devices, one entry: it cannot be opened ("denied"), has no
\* bits ("mute") or none of interest, is refused by epoll or is added.  What
\* it can do is noted before epoll is asked.
OpenDevice(can, outcome) ==
  LET fd == Lowest(files) IN
  /\ main = "opening" /\ nodes > 0 /\ Len(devices) < MaxDevices
  /\ nodes' = nodes - 1
  /\ IF outcome \in {"denied", "mute"} \/ can = {}
     THEN UNCHANGED <<openVars, unwatched>>
     ELSE /\ have' = have \cup can
          /\ IF outcome = "refused"
             THEN unwatched' = unwatched \cup can /\ UNCHANGED <<files, watched, devices>>
             ELSE /\ files' = files \cup {fd}
                  /\ watched' = watched \cup {<<fd, Len(devices)>>}
                  /\ devices' = Append(devices, [fd |-> fd, can |-> can])
                  /\ UNCHANGED unwatched
  /\ UNCHANGED <<main, fds, callbackVars, worker, lost>>

AllRead == main = "opening" /\ (nodes = 0 \/ Len(devices) = MaxDevices)

NoDevices ==
  /\ AllRead /\ devices = <<>>
  /\ Closed({fds.control, fds.epoll})
  /\ fds' = [fds EXCEPT !.control = NoFd, !.epoll = NoFd]
  /\ main' = "off" /\ nodes' = 0
  /\ UNCHANGED <<devices, have, callbackVars, worker, unwatched, lost>>

\* pthread_create
StartWorker ==
  /\ AllRead /\ devices # <<>>
  /\ main' = "on" /\ nodes' = 0
  /\ UNCHANGED <<openVars, callbackVars, worker, unwatched, lost>>

\* pthread_create fails: the control eventfd is not closed, and control_fd
\* still names it when the next SDLOP_RawInputInit clears everything.
WorkerFails ==
  /\ AllRead /\ devices # <<>> /\ Cardinality(lost) < MaxLost
  /\ Closed({devices[i].fd : i \in DOMAIN devices} \cup {fds.epoll})
  /\ lost' = lost \cup {fds.control}
  /\ fds' = [fds EXCEPT !.epoll = NoFd]
  /\ devices' = <<>>
  /\ main' = "off" /\ nodes' = 0
  /\ UNCHANGED <<have, callbackVars, worker, unwatched>>

-----------------------------------------------------------------------------
(* SDLOP_RawInputQuit *)

\* raw.running = false, and the control eventfd wakes the worker.
StartQuit ==
  /\ main = "on"
  /\ main' = "quitting"
  /\ UNCHANGED <<nodes, openVars, callbackVars, worker, unwatched, lost>>

Without(id) == [s \in DOMAIN sets \ {id} |-> sets[s]]

CloseDevices ==
  /\ Closed({devices[i].fd : i \in DOMAIN devices} \cup {fds.control, fds.epoll})
  /\ fds' = [fds EXCEPT !.control = NoFd, !.epoll = NoFd]
  /\ devices' = <<>>
  /\ sets' = Without(callbacks)
  /\ callbacks' = 0 /\ wanted' = {}
  /\ main' = "off"
  /\ UNCHANGED <<nodes, have, worker, removed, unwatched, lost>>

\* Mutant: the worker is not joined.
FinishQuitNoJoin == main = "quitting" /\ CloseDevices

\* pthread_join: the worker has handled the batch it had read.
FinishQuit == main = "quitting" /\ worker = Idle /\ CloseDevices

\* SDL_Quit
CloseWake ==
  /\ main = "off" /\ fds.wake # NoFd
  /\ Closed({fds.wake})
  /\ fds' = [fds EXCEPT !.wake = NoFd]
  /\ UNCHANGED <<main, nodes, devices, have, callbackVars, worker, unwatched, lost>>

-----------------------------------------------------------------------------
(* The callback table. *)

Entries(id) == IF id = 0 THEN <<>> ELSE sets[id]
NewId == CHOOSE n \in 1..(Cardinality(DOMAIN sets) + 1) :
            n \notin DOMAIN sets /\ \A k \in 1..(n - 1) : k \in DOMAIN sets
WithSet(entries) == [s \in DOMAIN sets \cup {NewId} |-> IF s = NewId THEN entries ELSE sets[s]]

\* The main thread outside Init and Quit, or a callback on the worker.
CanCall == main \in {"off", "on"} \/ worker # Idle

\* SDLop_RegisterRawEventCallback, under the mutex: the old set is not freed.
Register(cb) ==
  /\ CanCall /\ Len(Entries(callbacks)) < MaxCallbacks
  /\ Cardinality(DOMAIN sets) < MaxSets
  /\ sets' = WithSet(Append(Entries(callbacks), cb))
  /\ callbacks' = NewId
  /\ wanted' = wanted \cup {cb}
  /\ UNCHANGED <<main, nodes, openVars, worker, removed, unwatched, lost>>

\* Mutant: the old set is freed at once.
UnregisterFrees(cb) ==
  /\ CanCall /\ callbacks # 0 /\ Cardinality(DOMAIN sets) < MaxSets
  /\ LET left == SelectSeq(sets[callbacks], LAMBDA c : c # cb)
     IN  sets' = [s \in (DOMAIN sets \cup {NewId}) \ {callbacks} |->
                    IF s = NewId THEN left ELSE sets[s]]
  /\ callbacks' = NewId
  /\ wanted' = wanted \ {cb} /\ removed' = removed \cup {cb}
  /\ UNCHANGED <<main, nodes, openVars, worker, unwatched, lost>>

\* SDLop_UnregisterRawEventCallback: every entry of the function goes, and the
\* others keep their order.
Unregister(cb) ==
  /\ CanCall /\ callbacks # 0 /\ Cardinality(DOMAIN sets) < MaxSets
  /\ LET entries == sets[callbacks]
         kept == {i \in DOMAIN entries : entries[i] # cb}
     IN  \E n \in 0..Len(entries) : \E was \in [1..n -> kept] :
           /\ \A i, j \in 1..n : i < j => was[i] < was[j]
           /\ \A k \in kept : \E i \in 1..n : was[i] = k
           /\ sets' = WithSet([i \in 1..n |-> entries[was[i]]])
  /\ callbacks' = NewId
  /\ wanted' = wanted \ {cb} /\ removed' = removed \cup {cb}
  /\ UNCHANGED <<main, nodes, openVars, worker, unwatched, lost>>

\* dispatch_callbacks takes the set of the moment.  A worker told to quit may
\* still have events of its last batch to dispatch.
TakeSet ==
  /\ main \in {"on", "quitting"} /\ worker = Idle /\ Entries(callbacks) # <<>>
  /\ worker' = [set |-> callbacks, at |-> 1]
  /\ removed' = {}
  /\ UNCHANGED <<main, nodes, openVars, callbacks, sets, wanted, unwatched, lost>>

\* A callback returns, and the next one of the set is called.
CallNext ==
  /\ worker # Idle
  /\ worker' = IF worker.at < Len(sets[worker.set]) THEN [worker EXCEPT !.at = @ + 1] ELSE Idle
  /\ UNCHANGED <<main, nodes, openVars, callbackVars, unwatched, lost>>

Abilities == SUBSET {"keyboard", "pointer"}
Outcomes == {"denied", "mute", "refused", "added"}

DevicesNext ==
  \/ \E made \in 0..3, woken \in BOOLEAN : StartInit(made, woken)
  \/ \E can \in Abilities, outcome \in Outcomes : OpenDevice(can, outcome)
  \/ NoDevices \/ StartWorker \/ WorkerFails \/ StartQuit \/ FinishQuit \/ CloseWake
CallbacksNext ==
  \/ \E cb \in Callbacks : Register(cb) \/ Unregister(cb)
  \/ TakeSet \/ CallNext
  \/ StartQuit \/ FinishQuit

DevicesSpec == DevicesInit /\ [][DevicesNext \/ CallbacksNext]_deviceVars

-----------------------------------------------------------------------------
(* Each descriptor epoll watches has the tag of the table slot that holds    *)
(* it, over devices that could not be opened, were refused or were closed:   *)
(* the worker never reads a device as another, or a closed descriptor.      *)
TagNamesDevice ==
  main # "off" =>
    /\ watched = {<<fds.control, Control>>} \cup {<<devices[i].fd, i - 1>> : i \in DOMAIN devices}
    /\ {w[1] : w \in watched} \subseteq files
    /\ Cardinality(watched) = Len(devices) + 1

(* Every path out of Init and Quit closes what it opened: the descriptors    *)
(* left open are those in use, and the control eventfd of each thread start  *)
(* that failed.                                                              *)
FdsAccounted ==
  files = lost \cup ({fds.wake} \ {NoFd})
          \cup (IF main = "off" THEN {}
                ELSE {fds.epoll, fds.control} \cup {devices[i].fd : i \in DOMAIN devices})

(* The seat's keyboard is ignored for a raw one only if there is one, or     *)
(* there was one that epoll refused.                                         *)
SeatHasReader ==
  main = "on" => have = unwatched \cup UNION {devices[i].can : i \in DOMAIN devices}

DevicesAccounted == TagNamesDevice /\ FdsAccounted /\ SeatHasReader

(* The worker never goes through a freed set, whatever is registered or      *)
(* unregistered under it, by a callback or by the main thread, and through a *)
(* shutdown; it calls only functions that are registered or were when it     *)
(* took the set; and no registration is lost when another is replaced.      *)
CallbacksSafe ==
  /\ callbacks # 0 => callbacks \in DOMAIN sets
  /\ ToSet(Entries(callbacks)) = wanted
  /\ worker # Idle =>
       /\ worker.set \in DOMAIN sets /\ main \in {"on", "quitting"}
       /\ \A i \in worker.at..Len(sets[worker.set]) : sets[worker.set][i] \in wanted \cup removed
=============================================================================
