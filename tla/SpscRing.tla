------------------------------- MODULE SpscRing -------------------------------
(***************************************************************************)
(* The lock-free single-producer single-consumer ring of                   *)
(* src/internal/sdlop_ring.h: SDLOP_RingPush and SDLOP_RingPop, one action *)
(* per access to shared memory.                                            *)
(*                                                                         *)
(* A thread reads its own index with a relaxed load, which is exact, and   *)
(* the other thread's with an acquire load, which may return any value     *)
(* from the last one it saw (seenTail, seenHead) to the current one.  The  *)
(* release store that published the value makes the slots below it         *)
(* visible, so data itself is read and written in place.  The indices are  *)
(* 64-bit and only grow: they are naturals here, bounded by MaxPush.       *)
(***************************************************************************)
EXTENDS Integers, Sequences

CONSTANTS
  Capacity,  \* mask + 1, a power of two, so that i & mask is i % Capacity
  Value,     \* elements pushed
  NoValue,   \* content of a slot never written
  MaxPush    \* bound: pushes the producer attempts

ASSUME RingAssumption ==
  /\ Capacity \in Nat \ {0}
  /\ NoValue \notin Value
  /\ MaxPush \in Nat

VARIABLES
  head,      \* next index to write; stored by the producer only
  tail,      \* next index to read; stored by the consumer only
  dropped,   \* producer-side count of refused elements
  data,      \* the slots
  producer,  \* where the producer is in SDLOP_RingPush
  elem,      \* the element being pushed
  seenTail,  \* last value of tail the producer loaded
  consumer,  \* where the consumer is in SDLOP_RingPop
  out,       \* the consumer's output buffer
  seenHead,  \* last value of head the consumer loaded
  popped     \* what the last SDLOP_RingPop that returned true returned

producerVars == <<dropped, producer, elem, seenTail>>
consumerVars == <<consumer, out, seenHead, popped>>
spscVars == <<head, tail, data, producerVars, consumerVars>>

Slot(i) == i % Capacity

RingTypeOK ==
  /\ head \in Nat /\ tail \in Nat /\ dropped \in Nat
  /\ data \in [0..Capacity-1 -> Value \cup {NoValue}]
  /\ producer \in {"idle", "loaded", "copied"}
  /\ elem \in Value \cup {NoValue}
  /\ seenTail \in Nat
  /\ consumer \in {"idle", "loaded", "copied"}
  /\ out \in Value \cup {NoValue}
  /\ seenHead \in Nat
  /\ popped \in Value \cup {NoValue}

RingInit ==
  /\ head = 0 /\ tail = 0 /\ dropped = 0
  /\ data = [i \in 0..Capacity-1 |-> NoValue]
  /\ producer = "idle" /\ elem = NoValue /\ seenTail = 0
  /\ consumer = "idle" /\ out = NoValue /\ seenHead = 0
  /\ popped = NoValue

\* Mutant: the capacity test off by one.
FullLate(h, t) == h - t > Capacity

\* head - tail > mask
Full(h, t) == h - t > Capacity - 1

-----------------------------------------------------------------------------
(* SDLOP_RingPush, on the producer thread. *)

PushLoad(v) ==
  /\ producer = "idle"
  /\ head + dropped < MaxPush
  /\ \E t \in seenTail..tail : seenTail' = t
  /\ elem' = v
  /\ producer' = "loaded"
  /\ UNCHANGED <<head, tail, dropped, data, consumerVars>>

PushDrop ==
  /\ producer = "loaded"
  /\ Full(head, seenTail)
  /\ dropped' = dropped + 1
  /\ producer' = "idle"
  /\ UNCHANGED <<head, tail, data, elem, seenTail, consumerVars>>

\* Mutant: the element is published before its copy is visible (a relaxed store).
PushCopyInvisible ==
  /\ producer = "loaded"
  /\ ~Full(head, seenTail)
  /\ producer' = "copied"
  /\ UNCHANGED <<head, tail, dropped, data, elem, seenTail, consumerVars>>

PushCopy ==
  /\ producer = "loaded"
  /\ ~Full(head, seenTail)
  /\ data' = [data EXCEPT ![Slot(head)] = elem]
  /\ producer' = "copied"
  /\ UNCHANGED <<head, tail, dropped, elem, seenTail, consumerVars>>

PushPublish ==
  /\ producer = "copied"
  /\ head' = head + 1
  /\ producer' = "idle"
  /\ UNCHANGED <<tail, dropped, data, elem, seenTail, consumerVars>>

-----------------------------------------------------------------------------
(* SDLOP_RingPop, on the consumer thread. *)

PopLoad ==
  /\ consumer = "idle"
  /\ \E h \in seenHead..head :
       /\ seenHead' = h
       /\ consumer' = IF tail = h THEN "idle" ELSE "loaded"
  /\ UNCHANGED <<head, tail, data, out, popped, producerVars>>

PopCopy ==
  /\ consumer = "loaded"
  /\ out' = data[Slot(tail)]
  /\ consumer' = "copied"
  /\ UNCHANGED <<head, tail, data, seenHead, popped, producerVars>>

PopPublish ==
  /\ consumer = "copied"
  /\ tail' = tail + 1
  /\ popped' = out
  /\ consumer' = "idle"
  /\ UNCHANGED <<head, data, out, seenHead, producerVars>>

-----------------------------------------------------------------------------

RingNext ==
  \/ \E v \in Value : PushLoad(v)
  \/ PushDrop
  \/ PushCopy
  \/ PushPublish
  \/ PopLoad
  \/ PopCopy
  \/ PopPublish

RingSpec == RingInit /\ [][RingNext]_spscVars

-----------------------------------------------------------------------------
(* The producer's copy into a slot and the consumer's copy out of one      *)
(* never touch the same slot: memcpy without a lock is safe because the    *)
(* capacity test keeps a lap of distance, even with stale indices.         *)
NoSlotRace ==
  (producer = "loaded" /\ ~Full(head, seenTail) /\ consumer = "loaded")
    => Slot(head) # Slot(tail)

(* What SDLOP_RingCount can return on either thread: an element count, and *)
(* never the wrapped difference of a stale head and a newer tail.          *)
CountInRange ==
  /\ \A t \in seenTail..tail : head - t \in 0..Capacity
  /\ \A h \in seenHead..head : h - tail \in 0..Capacity

(* The inductive invariant of the ring.                                    *)
RingInv ==
  /\ RingTypeOK
  /\ seenTail <= tail /\ tail <= seenHead /\ seenHead <= head
  /\ head - seenTail <= Capacity
  /\ producer = "loaded" => elem \in Value
  /\ producer = "copied" =>
       /\ ~Full(head, seenTail)
       /\ elem \in Value
       /\ data[Slot(head)] = elem
  /\ consumer \in {"loaded", "copied"} => tail < seenHead
  /\ consumer = "copied" => out = data[Slot(tail)]
  /\ \A i \in tail..head-1 : data[Slot(i)] \in Value

(* The ring is a BoundedFifo: its content is the window of slots from tail *)
(* to head, and the places owed are those between the tail the producer    *)
(* last saw and the real one.                                              *)
Content == [k \in 1..head-tail |-> data[Slot(tail + k - 1)]]

Fifo == INSTANCE BoundedFifo WITH
          queue <- Content, owed <- tail - seenTail, lost <- dropped, taken <- popped

(* Every behaviour of the two lock-free functions is a behaviour of the    *)
(* bounded queue: in order, no duplicate, dropped only when full.          *)
ImplementsFifo == Fifo!Spec

(* What the two threads may rely on: the order of the indices and of what    *)
(* each has read of them, no slot copied by both at a time, and a count that *)
(* is one.                                                                   *)
RingSafe == RingInv /\ NoSlotRace /\ CountInRange
=============================================================================
