------------------------------ MODULE EventQueue ------------------------------
(***************************************************************************)
(* The SDL event queue of src/SDL_events.c: a ring of slots on the main    *)
(* thread, indexed by two 32-bit counters that wrap, whose slots own the   *)
(* bytes of the text events they hold.                                     *)
(*                                                                         *)
(* A string is represented by its length, the only thing the copy into a   *)
(* slot depends on.  The field text of an event is the pointer              *)
(* event.text.text: the slot whose textbuf it points at, or Null.  The      *)
(* field said is not in the code: it remembers what was pushed.             *)
(***************************************************************************)
EXTENDS Integers, FiniteSets, Sequences

CONSTANTS
  Size,       \* SDLOP_EVENT_QUEUE_SIZE
  Width,      \* the counters are Uint32: they wrap at Width, a multiple of Size
  TextSize,   \* SDLOP_TEXT_SIZE
  TextInput,  \* SDL_EVENT_TEXT_INPUT
  OtherTypes, \* other event types
  Strings,    \* lengths of the strings applications push
  Null, Nothing

ASSUME QueueAssumption ==
  /\ Size \in Nat \ {0}
  /\ \E laps \in 2..Width : Width = Size * laps
  /\ TextSize \in Nat \ {0}
  /\ TextInput \in Nat /\ OtherTypes \subseteq Nat
  /\ OtherTypes # {} /\ TextInput \notin OtherTypes
  /\ Strings \subseteq Nat
  /\ Null \notin Nat

VARIABLES
  queue_head, \* next write index
  queue_tail, \* next read index
  slot,       \* event_queue[i].event
  textbuf,    \* event_queue[i].textbuf: length of the string it holds
  got         \* the event SDL_PollEvent last gave the application

vars == <<queue_head, queue_tail, slot, textbuf, got>>

Types == {TextInput} \cup OtherTypes
Slots == 0..Size-1
\* A string read back from a slot has one of the lengths a slot can hold.
Lengths == Strings \cup 0..TextSize-1
Event == [type : Types, text : Slots \cup {Null}, said : Lengths \cup {Null}]
ASSUME NothingAssumption == Nothing \notin Event
Slot(i) == i % Size

\* queue_head - queue_tail in 32-bit arithmetic
queue_count == (queue_head - queue_tail) % Width

\* The index k places after queue_tail.
At(k) == (queue_tail + k) % Width

Blank == [type |-> CHOOSE t \in OtherTypes : TRUE, text |-> Null, said |-> Null]

Init ==
  /\ queue_head = 0 /\ queue_tail = 0
  /\ slot = [i \in Slots |-> Blank]
  /\ textbuf = [i \in Slots |-> 0]
  /\ got = Nothing

\* The part of a string of len bytes that fits in a slot with its final zero.
Cut(len) == IF len >= TextSize THEN TextSize - 1 ELSE len

\* Mutant: the capacity test off by one.
HasRoomLate == queue_count <= Size

HasRoom == queue_count < Size

\* Mutant: the slot keeps the caller's string by reference only.
CopyTextSkipped(type, str) == UNCHANGED textbuf

CopyText(type, str) ==
  textbuf' = IF type = TextInput /\ str # Null
             THEN [textbuf EXCEPT ![Slot(queue_head)] = Cut(str)]
             ELSE textbuf

\* SDLOP_PushEventInternal, when it returns true.
PushInternal(type, str) ==
  LET text == type = TextInput /\ str # Null IN
  /\ HasRoom
  /\ CopyText(type, str)
  /\ slot' = [slot EXCEPT ![Slot(queue_head)] =
                [type |-> type, text |-> IF text THEN Slot(queue_head) ELSE Null,
                 said |-> IF text THEN str ELSE Null]]
  /\ queue_head' = (queue_head + 1) % Width
  /\ UNCHANGED queue_tail

\* SDL_PushEvent of an event the application filled in.
PushEvent(type, str) ==
  /\ PushInternal(type, str)
  /\ UNCHANGED got

\* SDL_PushEvent of the event it last polled: its text is read from the slot
\* it points at, whatever that slot holds by now.
PushBack ==
  /\ got # Nothing
  /\ PushInternal(got.type, IF got.text = Null THEN Null ELSE textbuf[got.text])
  /\ UNCHANGED got

\* SDL_PollEvent; with a NULL event the front of the queue is discarded.
PollEvent(wanted) ==
  /\ queue_tail # queue_head
  /\ got' = IF wanted THEN slot[Slot(queue_tail)] ELSE got
  /\ queue_tail' = (queue_tail + 1) % Width
  /\ UNCHANGED <<queue_head, slot, textbuf>>

\* The places, from queue_tail on, of the events a flush of lo..hi keeps.
Kept(lo, hi) ==
  {k \in 0..queue_count-1 :
     LET t == slot[Slot(At(k))].type IN ~(lo <= t /\ t <= hi)}

\* Mutant: the queue is cut to the number of kept events, which stay in place.
FlushEventsInPlace(lo, hi) ==
  /\ queue_head' = At(Cardinality(Kept(lo, hi)))
  /\ UNCHANGED <<slot, textbuf, queue_tail, got>>

\* SDL_FlushEvents: the kept slots, text bytes included, close up towards
\* queue_tail.  The pointers in them are copied as they are.
FlushEvents(lo, hi) ==
  LET kept == Kept(lo, hi)
      Rank(k) == Cardinality({j \in kept : j < k})
      Source(s) == {k \in kept : Slot(At(Rank(k))) = s}
      Moved(f) == [s \in Slots |-> IF Source(s) = {} THEN f[s]
                                   ELSE f[Slot(At(CHOOSE k \in Source(s) : TRUE))]]
  IN  /\ slot' = Moved(slot)
      /\ textbuf' = Moved(textbuf)
      /\ queue_head' = At(Cardinality(kept))
      /\ UNCHANGED <<queue_tail, got>>

Next ==
  \/ \E t \in Types, str \in Strings \cup {Null} : PushEvent(t, str)
  \/ PushBack
  \/ \E wanted \in BOOLEAN : PollEvent(wanted)
  \/ \E lo, hi \in Types : FlushEvents(lo, hi)

Spec == Init /\ [][Next]_vars

-----------------------------------------------------------------------------
TypeOK ==
  /\ queue_head \in 0..Width-1 /\ queue_tail \in 0..Width-1
  /\ slot \in [Slots -> Event]
  /\ textbuf \in [Slots -> 0..TextSize-1]
  /\ got \in Event \cup {Nothing}

(* The counters never drift apart by more than the queue's size, across the *)
(* 32-bit wrap too, and every string ends inside the slot that holds it.    *)
QueueInv == TypeOK /\ queue_count <= Size

(* A queued text event that points at its own slot reads the string it was  *)
(* pushed with, cut to the slot: no push reuses a slot still queued, and a   *)
(* flush that closes the queue up never brings a pointer home to a slot      *)
(* holding someone else's string.                                           *)
OwnTextIntact ==
  \A k \in 0..queue_count-1 :
    LET s == Slot(At(k)) IN
      slot[s].text = s => textbuf[s] = Cut(slot[s].said)

(* src/SDL_events.c:47-48 and tests/test_events.c:75: a queued text event   *)
(* keeps its string until it is polled, whatever happens to the queue.      *)
QueuedTextIntact ==
  \A k \in 0..queue_count-1 :
    LET e == slot[Slot(At(k))] IN
      e.text # Null => textbuf[e.text] = Cut(e.said)

(* The ring of slots and wrapping counters is the bounded queue EventFifo.   *)
Seen(e) == IF e = Nothing THEN Nothing ELSE [type |-> e.type, said |-> e.said]

Pending == [k \in 1..queue_count |-> Seen(slot[Slot(At(k - 1))])]
SeenEvent == [type : Types, said : Lengths \cup {Null}]

Fifo == INSTANCE EventFifo WITH
          Event <- SeenEvent, pending <- Pending, polled <- Seen(got)

ImplementsEventFifo == Fifo!Spec
=============================================================================
