------------------------------ MODULE EventFifo ------------------------------
(***************************************************************************)
(* What SDL_PushEvent, SDL_PollEvent and SDL_FlushEvents promise: a queue  *)
(* of bounded length that keeps order, refuses pushes only when full, and  *)
(* from which a flush removes the events of a range of types and no other. *)
(***************************************************************************)
EXTENDS Integers, Sequences

CONSTANTS
  Size,   \* places in the queue
  Event,  \* events, records with a field type
  Nothing \* no event was polled yet

VARIABLES pending, polled

Init == pending = <<>> /\ polled = Nothing

Push(e) ==
  /\ Len(pending) < Size
  /\ pending' = Append(pending, e)
  /\ UNCHANGED polled

Poll ==
  /\ pending # <<>>
  /\ polled' = Head(pending)
  /\ pending' = Tail(pending)

\* SDL_PollEvent(NULL): the event is dropped, the application's copy stays.
Discard ==
  /\ pending # <<>>
  /\ pending' = Tail(pending)
  /\ UNCHANGED polled

\* What is kept stays in its order.
Flush(lo, hi) ==
  LET kept == {k \in DOMAIN pending : ~(lo <= pending[k].type /\ pending[k].type <= hi)} IN
  /\ \E n \in 0..Len(pending) : \E was \in [1..n -> kept] :
       /\ \A i, j \in 1..n : i < j => was[i] < was[j]
       /\ \A k \in kept : \E i \in 1..n : was[i] = k
       /\ pending' = [i \in 1..n |-> pending[was[i]]]
  /\ UNCHANGED polled

Next ==
  \/ \E e \in Event : Push(e)
  \/ Poll
  \/ Discard
  \/ \E lo, hi \in {e.type : e \in Event} : Flush(lo, hi)

Spec == Init /\ [][Next]_<<pending, polled>>
=============================================================================
