------------------------------- MODULE RawInput -------------------------------
(***************************************************************************)
(* The raw input worker of src/internal/sdlop_evdev.c and the main thread  *)
(* that waits for its events in SDL_WaitEventTimeout (src/SDL_events.c).   *)
(*                                                                         *)
(* The worker sleeps in epoll_wait, reads its devices in batches, pushes   *)
(* each event to two rings and signals an eventfd when the ring of the SDL *)
(* events stops being empty.  The main thread drains that ring, and when   *)
(* it has nothing to return it polls the eventfd for at most 10 ms.        *)
(*                                                                         *)
(* The rings are the bounded queues of BoundedFifo, which SpscRing is      *)
(* proved to implement, with both indices up to date.  The n-th event of a *)
(* device is [dev, n]: odd ones are keys, which become an SDL event, even  *)
(* ones the EV_SYN reports between them, which become none.                *)
(***************************************************************************)
EXTENDS Integers, Sequences, FiniteSets

CONSTANTS
  Devices,      \* devices open_input_devices found
  MaxEvents,    \* bound: events each device sends
  SdlRingSize,  \* SDLOP_SDL_RING_SIZE
  PollRingSize, \* SDLOP_POLL_RING_SIZE
  ReadSize,     \* SDLOP_MAX_EVENTS_PER_READ
  QueueSize,    \* SDLOP_EVENT_QUEUE_SIZE
  Control       \* the shutdown eventfd among the sources of epoll_wait

ASSUME RawAssumption ==
  /\ IsFiniteSet(Devices) /\ Control \notin Devices
  /\ MaxEvents \in Nat
  /\ {SdlRingSize, PollRingSize, ReadSize, QueueSize} \subseteq Nat \ {0}

VARIABLES
  sent,        \* events each device has sent so far
  devq,        \* what the kernel holds for each device
  plugged,     \* devices still there
  control_fd,  \* the shutdown eventfd is readable
  wake_fd,     \* the eventfd the main thread polls is readable
  running,     \* raw.running
  fds_open,    \* the descriptors the worker uses are open
  sdl_ring, poll_ring,
  sdl_dropped, poll_dropped,
  event_count, \* raw.event_count
  worker,      \* where the worker is
  ready,       \* sources epoll_wait returned, not yet handled
  batch,       \* events read, not yet published
  was_empty,   \* ring_was_empty
  quit_requested,
  main,        \* where the main thread is
  wait,        \* the call it is in: SDL_WaitEvent, SDL_WaitEventTimeout, SDL_PumpEvents
  drained,     \* events popped in this SDLOP_RawInputPump
  queued,      \* length of the SDL event queue
  last,        \* last event of each device the main thread popped (history)
  pumped, polled \* events it popped from each ring (history)

kernelVars == <<sent, devq, plugged>>
workerVars == <<worker, ready, batch, was_empty, quit_requested>>
mainVars == <<main, wait, drained, queued, last, pumped, polled>>
ringVars == <<sdl_ring, poll_ring, sdl_dropped, poll_dropped, event_count>>
fdVars == <<control_fd, wake_fd, running, fds_open>>
vars == <<kernelVars, workerVars, mainVars, ringVars, fdVars>>

Events == [dev : Devices, n : 1..MaxEvents]
IsKey(e) == e.n % 2 = 1

Init ==
  /\ sent = [d \in Devices |-> 0]
  /\ devq = [d \in Devices |-> <<>>]
  /\ plugged = Devices
  /\ control_fd = FALSE /\ wake_fd = FALSE /\ running = TRUE /\ fds_open = TRUE
  /\ sdl_ring = <<>> /\ poll_ring = <<>>
  /\ sdl_dropped = 0 /\ poll_dropped = 0 /\ event_count = 0
  /\ worker = "top" /\ ready = <<>> /\ batch = <<>>
  /\ was_empty = FALSE /\ quit_requested = FALSE
  /\ main = "app" /\ wait = "none" /\ drained = 0 /\ queued = 0
  /\ last = [d \in Devices |-> 0]
  /\ pumped = 0 /\ polled = 0

-----------------------------------------------------------------------------
(* The kernel. *)

Input(d) ==
  /\ d \in plugged /\ sent[d] < MaxEvents
  /\ sent' = [sent EXCEPT ![d] = @ + 1]
  /\ devq' = [devq EXCEPT ![d] = Append(@, [dev |-> d, n |-> sent[d] + 1])]
  /\ UNCHANGED <<plugged, workerVars, mainVars, ringVars, fdVars>>

\* A device that is gone stays readable for epoll, and every read of it fails.
Unplug(d) ==
  /\ d \in plugged
  /\ plugged' = plugged \ {d}
  /\ devq' = [devq EXCEPT ![d] = <<>>]
  /\ UNCHANGED <<sent, workerVars, mainVars, ringVars, fdVars>>

-----------------------------------------------------------------------------
(* worker_main *)

WorkerGoes(pc) == worker' = pc

Readable == {d \in Devices : devq[d] # <<>> \/ d \notin plugged}
            \cup (IF control_fd THEN {Control} ELSE {})

Orders(S) == {f \in [1..Cardinality(S) -> S] : \A i, j \in DOMAIN f : f[i] = f[j] => i = j}

\* while (raw.running)
WorkerTop ==
  /\ worker = "top"
  /\ WorkerGoes(IF running THEN "wait" ELSE "done")
  /\ UNCHANGED <<kernelVars, ready, batch, was_empty, quit_requested, mainVars, ringVars, fdVars>>

\* epoll_wait, without a timeout: everything readable, in some order.
EpollWait ==
  /\ worker = "wait"
  /\ Readable # {}
  /\ ready' \in Orders(Readable)
  /\ WorkerGoes("sample")
  /\ UNCHANGED <<kernelVars, batch, was_empty, quit_requested, mainVars, ringVars, fdVars>>

Sample ==
  /\ worker = "sample"
  /\ was_empty' = (sdl_ring = <<>>)
  /\ quit_requested' = FALSE
  /\ WorkerGoes("read")
  /\ UNCHANGED <<kernelVars, ready, batch, mainVars, ringVars, fdVars>>

\* One turn of the loops over the sources and over the reads of a device.
ReadSource ==
  /\ worker = "read"
  /\ IF ready = <<>> THEN
       /\ WorkerGoes("signal")
       /\ UNCHANGED <<devq, ready, batch, quit_requested>>
     ELSE IF Head(ready) = Control THEN
       /\ quit_requested' = TRUE
       /\ ready' = <<>>
       /\ WorkerGoes("signal")
       /\ UNCHANGED <<devq, batch>>
     ELSE LET d == Head(ready)
              got == IF Len(devq[d]) < ReadSize THEN Len(devq[d]) ELSE ReadSize
          IN  /\ batch' = SubSeq(devq[d], 1, got)
              /\ devq' = [devq EXCEPT ![d] = SubSeq(@, got + 1, Len(@))]
              /\ ready' = IF got = 0 THEN Tail(ready) ELSE ready
              /\ WorkerGoes(IF got = 0 THEN "read" ELSE "push")
              /\ UNCHANGED quit_requested
  /\ UNCHANGED <<sent, plugged, was_empty, mainVars, ringVars, fdVars>>

\* Mutant: the capacity test off by one.
PushSdlLate ==
  /\ worker = "push"
  /\ IF Len(sdl_ring) <= SdlRingSize
     THEN sdl_ring' = Append(sdl_ring, Head(batch)) /\ UNCHANGED sdl_dropped
     ELSE sdl_dropped' = sdl_dropped + 1 /\ UNCHANGED sdl_ring
  /\ WorkerGoes("pushpoll")
  /\ UNCHANGED <<kernelVars, ready, batch, was_empty, quit_requested, mainVars,
                 poll_ring, poll_dropped, event_count, fdVars>>

\* SDLOP_RingPush(&raw.sdl_ring, &ev2)
PushSdl ==
  /\ worker = "push"
  /\ IF Len(sdl_ring) < SdlRingSize
     THEN sdl_ring' = Append(sdl_ring, Head(batch)) /\ UNCHANGED sdl_dropped
     ELSE sdl_dropped' = sdl_dropped + 1 /\ UNCHANGED sdl_ring
  /\ WorkerGoes("pushpoll")
  /\ UNCHANGED <<kernelVars, ready, batch, was_empty, quit_requested, mainVars,
                 poll_ring, poll_dropped, event_count, fdVars>>

\* Mutant: the oldest element makes room for a new one, and nothing is counted.
PushPollOverwrite ==
  /\ worker = "pushpoll"
  /\ poll_ring' = Append(IF Len(poll_ring) < PollRingSize THEN poll_ring ELSE Tail(poll_ring),
                         Head(batch))
  /\ WorkerGoes("count")
  /\ UNCHANGED <<kernelVars, ready, batch, was_empty, quit_requested, mainVars,
                 sdl_ring, sdl_dropped, poll_dropped, event_count, fdVars>>

\* SDLOP_RingPush(&raw.poll_ring, &ev2)
PushPoll ==
  /\ worker = "pushpoll"
  /\ IF Len(poll_ring) < PollRingSize
     THEN poll_ring' = Append(poll_ring, Head(batch)) /\ UNCHANGED poll_dropped
     ELSE poll_dropped' = poll_dropped + 1 /\ UNCHANGED poll_ring
  /\ WorkerGoes("count")
  /\ UNCHANGED <<kernelVars, ready, batch, was_empty, quit_requested, mainVars,
                 sdl_ring, sdl_dropped, event_count, fdVars>>

\* Mutant: every turn of the loop publishes the first event of the batch.
CountFirstAgain ==
  /\ worker = "count"
  /\ event_count' = event_count + 1
  /\ batch' = [i \in 1..Len(batch)-1 |-> Head(batch)]
  /\ WorkerGoes(IF Len(batch) = 1 THEN "read" ELSE "push")
  /\ UNCHANGED <<kernelVars, ready, was_empty, quit_requested, mainVars,
                 sdl_ring, poll_ring, sdl_dropped, poll_dropped, fdVars>>

\* dispatch_callbacks and atomic_fetch_add(&raw.event_count), then the next
\* event of the batch.
Count ==
  /\ worker = "count"
  /\ event_count' = event_count + 1
  /\ batch' = Tail(batch)
  /\ WorkerGoes(IF Tail(batch) = <<>> THEN "read" ELSE "push")
  /\ UNCHANGED <<kernelVars, ready, was_empty, quit_requested, mainVars,
                 sdl_ring, poll_ring, sdl_dropped, poll_dropped, fdVars>>

\* The eventfd is written only if the ring was empty before the reads.
Signal ==
  /\ worker = "signal"
  /\ wake_fd' = (wake_fd \/ (was_empty /\ sdl_ring # <<>>))
  /\ WorkerGoes("again")
  /\ UNCHANGED <<kernelVars, ready, batch, was_empty, quit_requested, mainVars, ringVars,
                 control_fd, running, fds_open>>

\* if (quit_requested || !raw.running) break
Again ==
  /\ worker = "again"
  /\ WorkerGoes(IF quit_requested \/ ~running THEN "done" ELSE "top")
  /\ UNCHANGED <<kernelVars, ready, batch, was_empty, quit_requested, mainVars, ringVars, fdVars>>

Worker ==
  \/ WorkerTop \/ EpollWait \/ Sample \/ ReadSource
  \/ PushSdl \/ PushPoll \/ Count \/ Signal \/ Again

-----------------------------------------------------------------------------
(* The main thread. *)

MainGoes(pc) == main' = pc

\* SDL_WaitEvent, SDL_WaitEventTimeout or SDL_PumpEvents is called.
Call(w) ==
  /\ main = "app" /\ running
  /\ wait' = w
  /\ drained' = 0
  /\ MainGoes("pump")
  /\ UNCHANGED <<kernelVars, workerVars, ringVars, fdVars, queued, last, pumped, polled>>

\* One turn of SDLOP_RawInputPump: at most SDLOP_SDL_RING_SIZE events, each
\* pushed to the SDL queue unless it is full.
Pump ==
  /\ main = "pump"
  /\ IF sdl_ring = <<>> \/ drained = SdlRingSize THEN
       /\ MainGoes("poll")
       /\ UNCHANGED <<sdl_ring, last, pumped, drained, queued>>
     ELSE LET e == Head(sdl_ring) IN
       /\ sdl_ring' = Tail(sdl_ring)
       /\ last' = [last EXCEPT ![e.dev] = e.n]
       /\ pumped' = pumped + 1
       /\ drained' = drained + 1
       /\ queued' = IF IsKey(e) /\ queued < QueueSize THEN queued + 1 ELSE queued
       /\ UNCHANGED main
  /\ UNCHANGED <<kernelVars, workerVars, fdVars, wait, polled,
                 poll_ring, sdl_dropped, poll_dropped, event_count>>

\* SDL_PollEvent succeeds, or the deadline has passed, or there is none and
\* the thread goes to wait.
PollOrBlock ==
  /\ main = "poll"
  /\ \/ /\ wait = "pump"
        /\ MainGoes("app") /\ wait' = "none"
        /\ UNCHANGED queued
     \/ /\ wait # "pump" /\ queued > 0
        /\ queued' = queued - 1
        /\ MainGoes("app") /\ wait' = "none"
     \/ /\ wait = "timeout" /\ queued = 0
        /\ MainGoes("app") /\ wait' = "none"
        /\ UNCHANGED queued
     \/ /\ wait # "pump" /\ queued = 0
        /\ MainGoes("block")
        /\ UNCHANGED <<queued, wait>>
  /\ UNCHANGED <<kernelVars, workerVars, ringVars, fdVars, drained, last, pumped, polled>>

\* Mutant: poll without a timeout.
UnblockOnWake ==
  /\ main = "block" /\ wake_fd
  /\ wake_fd' = FALSE
  /\ drained' = 0
  /\ MainGoes("pump")
  /\ UNCHANGED <<kernelVars, workerVars, ringVars, control_fd, running, fds_open,
                 wait, queued, last, pumped, polled>>

\* poll returns, because the eventfd is readable or after at most 10 ms, and
\* a readable eventfd is reset.
Unblock ==
  /\ main = "block"
  /\ wake_fd' = FALSE
  /\ drained' = 0
  /\ MainGoes("pump")
  /\ UNCHANGED <<kernelVars, workerVars, ringVars, control_fd, running, fds_open,
                 wait, queued, last, pumped, polled>>

\* One turn of SDLop_PollRawEvents.
PollRawEvents ==
  /\ main = "app" /\ poll_ring # <<>>
  /\ poll_ring' = Tail(poll_ring)
  /\ polled' = polled + 1
  /\ UNCHANGED <<kernelVars, workerVars, fdVars, main, wait, drained, queued, last, pumped,
                 sdl_ring, sdl_dropped, poll_dropped, event_count>>

\* SDLOP_RawInputQuit up to the write of the control eventfd...
QuitStop ==
  /\ main = "app" /\ running
  /\ running' = FALSE
  /\ MainGoes("stop")
  /\ UNCHANGED <<kernelVars, workerVars, ringVars, control_fd, wake_fd, fds_open,
                 wait, drained, queued, last, pumped, polled>>

\* Mutant: the worker is only told through raw.running.
QuitNoWake ==
  /\ main = "stop"
  /\ MainGoes("join")
  /\ UNCHANGED <<kernelVars, workerVars, ringVars, fdVars,
                 wait, drained, queued, last, pumped, polled>>

QuitWake ==
  /\ main = "stop"
  /\ control_fd' = TRUE
  /\ MainGoes("join")
  /\ UNCHANGED <<kernelVars, workerVars, ringVars, wake_fd, running, fds_open,
                 wait, drained, queued, last, pumped, polled>>

\* Mutant: the descriptors are closed without waiting for the worker.
QuitCloseEarly ==
  /\ main = "join"
  /\ fds_open' = FALSE /\ control_fd' = FALSE
  /\ MainGoes("quit")
  /\ UNCHANGED <<kernelVars, workerVars, ringVars, wake_fd, running,
                 wait, drained, queued, last, pumped, polled>>

\* ... pthread_join, and the descriptors are closed.
QuitClose ==
  /\ main = "join" /\ worker = "done"
  /\ fds_open' = FALSE /\ control_fd' = FALSE
  /\ MainGoes("quit")
  /\ UNCHANGED <<kernelVars, workerVars, ringVars, wake_fd, running,
                 wait, drained, queued, last, pumped, polled>>

MainStep ==
  \/ Pump \/ PollOrBlock \/ Unblock
  \/ QuitWake \/ QuitClose

App ==
  \/ \E w \in {"event", "timeout", "pump"} : Call(w)
  \/ PollRawEvents
  \/ QuitStop

Next ==
  \/ \E d \in Devices : Input(d) \/ Unplug(d)
  \/ Worker
  \/ MainStep
  \/ App

(* Both threads are scheduled; when and whether the application calls is   *)
(* its own business, and so are the devices.                               *)
Fairness == WF_vars(Worker) /\ WF_vars(MainStep)

Spec == Init /\ [][Next]_vars /\ Fairness

-----------------------------------------------------------------------------
QueuesOK ==
  /\ sent \in [Devices -> 0..MaxEvents] /\ last \in [Devices -> 0..MaxEvents]
  /\ devq \in [Devices -> Seq(Events)] /\ plugged \subseteq Devices
  /\ sdl_ring \in Seq(Events) /\ Len(sdl_ring) <= SdlRingSize
  /\ poll_ring \in Seq(Events) /\ Len(poll_ring) <= PollRingSize
  /\ batch \in Seq(Events) /\ Len(batch) <= ReadSize
  /\ ready \in Seq(Devices \cup {Control})

CountsOK ==
  /\ {sdl_dropped, poll_dropped, event_count, pumped, polled} \subseteq Nat
  /\ queued \in 0..QueueSize /\ drained \in 0..SdlRingSize

PlacesOK ==
  /\ worker \in {"top", "wait", "sample", "read", "push", "pushpoll", "count",
                 "signal", "again", "done"}
  /\ main \in {"app", "pump", "poll", "block", "stop", "join", "quit"}
  /\ wait \in {"none", "event", "timeout", "pump"}

FlagsOK == {control_fd, wake_fd, running, fds_open, was_empty, quit_requested} \subseteq BOOLEAN

TypeOK == QueuesOK /\ CountsOK /\ PlacesOK /\ FlagsOK

\* The batch's first event is in the ring already after PushSdl, unless it was dropped.
Unpushed == IF worker \in {"pushpoll", "count"} THEN Tail(batch) ELSE batch

\* What the main thread has not popped yet of a device's events, and of the
\* others' events in the same ring and batch, the oldest first.
Way(d) == sdl_ring \o Unpushed \o devq[d]

(* The events of one device reach the main thread in the order the device    *)
(* sent them, none twice, over batches, rings that fill up and the other     *)
(* devices' events: the last one it has popped, the ring, the batch in the   *)
(* worker's hands and the kernel's queue are one increasing sequence.        *)
InOrder ==
  \A d \in Devices :
    LET way == Way(d) IN
    /\ \A i \in DOMAIN way : way[i].dev = d => last[d] < way[i].n
    /\ \A i, j \in DOMAIN way :
         i < j /\ way[i].dev = d /\ way[j].dev = d => way[i].n < way[j].n

(* No event is lost without a count: each event the worker handled is in a   *)
(* ring, was popped from it or is in its count of dropped events, for both   *)
(* rings, though each is drained by its own reader at its own pace.          *)
Accounting ==
  LET InSdl == IF worker \in {"pushpoll", "count"} THEN 1 ELSE 0
      InPoll == IF worker = "count" THEN 1 ELSE 0
  IN  /\ pumped + Len(sdl_ring) + sdl_dropped = event_count + InSdl
      /\ polled + Len(poll_ring) + poll_dropped = event_count + InPoll

(* SDLOP_RawInputQuit closes no descriptor the worker may still use.         *)
NoUseAfterClose == ~fds_open => worker = "done"

(* src/internal/sdlop_evdev.c:11: the worker signals the eventfd so that     *)
(* SDL_WaitEvent wakes up immediately.  When the worker has gone back to     *)
(* sleep with events in the ring, the eventfd of a blocked main thread is    *)
(* readable.                                                                 *)
WakePending ==
  main = "block" /\ sdl_ring # <<>> /\ worker = "wait" => wake_fd

(* A thread waiting in SDL_WaitEvent returns once a key event is in the      *)
(* ring, signalled or not.                                                   *)
KeyInRing == \E i \in DOMAIN sdl_ring : IsKey(sdl_ring[i])

BlockedSeesInput == main = "block" /\ KeyInRing ~> main = "app"

(* SDLOP_RawInputQuit returns, wherever the worker is when it is called.     *)
QuitTerminates == main = "stop" ~> main = "quit"

(* Bounded rings and whole events, and each event that one of the two rings  *)
(* had no room for in the count of that ring alone.                          *)
LossesCounted == TypeOK /\ Accounting

-----------------------------------------------------------------------------
(* The inductive invariant. *)

\* The number of the newest event of a device that the kernel no longer holds.
Left(d) == sent[d] - Len(devq[d])

Sorted(s) == \A i, j \in DOMAIN s : i < j /\ s[i].dev = s[j].dev => s[i].n < s[j].n

Precedes(s, t) == \A i \in DOMAIN s, j \in DOMAIN t : s[i].dev = t[j].dev => s[i].n < t[j].n

\* Events that left the kernel after the last one the main thread popped.
Between(s) == \A i \in DOMAIN s : last[s[i].dev] < s[i].n /\ s[i].n <= Left(s[i].dev)

\* The kernel holds the last events of each device, and the worker and the
\* ring hold older ones, in the order they were sent.
OnTheWay ==
  /\ \A d \in Devices : \A i \in DOMAIN devq[d] : devq[d][i] = [dev |-> d, n |-> Left(d) + i]
  /\ \A d \in Devices : last[d] <= Left(d)
  /\ Sorted(sdl_ring) /\ Between(sdl_ring)
  /\ Sorted(Unpushed) /\ Between(Unpushed)
  /\ Precedes(sdl_ring, Unpushed)

\* There is a batch exactly where its events are published.
BatchAtHand == worker \in {"push", "pushpoll", "count"} <=> batch # <<>>

\* Only a quit that joined the worker closes the descriptors, and a worker
\* that has returned stays so.
Closed == ~fds_open => main = "quit" /\ worker = "done"

RawInv == TypeOK /\ Accounting /\ BatchAtHand /\ Closed /\ OnTheWay
=============================================================================
