----------------------------- MODULE BoundedFifo -----------------------------
(***************************************************************************)
(* What one producer and one consumer are promised by the rings between    *)
(* the input worker and the main thread: accepted elements come out once,  *)
(* in order, and an element is refused only when every place is taken, as  *)
(* far as the producer can know.                                           *)
(*                                                                         *)
(* The producer learns of freed places late (it reads the consumer's index *)
(* without a lock), so a place freed by Take stays "owed" until Notice.    *)
(***************************************************************************)
EXTENDS Naturals, Sequences

CONSTANTS
  Capacity,  \* places in the queue
  Value,     \* elements
  NoValue    \* no element was taken yet

VARIABLES
  queue,   \* accepted and not yet taken, oldest first
  owed,    \* places freed by Take that the producer has not noticed
  lost,    \* elements refused
  taken    \* the element of the last Take

fifoVars == <<queue, owed, lost, taken>>

Init ==
  /\ queue = <<>>
  /\ owed = 0
  /\ lost = 0
  /\ taken = NoValue

Accept(v) ==
  /\ Len(queue) + owed < Capacity
  /\ queue' = Append(queue, v)
  /\ UNCHANGED <<owed, lost, taken>>

Refuse ==
  /\ Len(queue) + owed = Capacity
  /\ lost' = lost + 1
  /\ UNCHANGED <<queue, owed, taken>>

Take ==
  /\ queue # <<>>
  /\ taken' = Head(queue)
  /\ queue' = Tail(queue)
  /\ owed' = owed + 1
  /\ UNCHANGED lost

Notice ==
  /\ \E n \in 0..owed : owed' = n
  /\ UNCHANGED <<queue, lost, taken>>

Next ==
  \/ \E v \in Value : Accept(v)
  \/ Refuse
  \/ Take
  \/ Notice

Spec == Init /\ [][Next]_fifoVars
=============================================================================
