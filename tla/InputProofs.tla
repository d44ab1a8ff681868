---------------------------- MODULE InputProofs -------------------------------
(***************************************************************************)
(* Proofs about the path of raw input: the ring of SpscRing and the worker *)
(* and main thread of RawInput that share two of them.                     *)
(*                                                                         *)
(* For every capacity, element set and bound RingInv is inductive, the two *)
(* threads never copy in the same slot, and the ring implements the        *)
(* bounded queue.  With rings of that kind, for any devices and sizes, the *)
(* events of a device stay in order, losses are counted, and the shutdown  *)
(* waits for the worker.                                                   *)
(***************************************************************************)
EXTENDS SpscRing, RawInput, SequenceTheorems, FiniteSetTheorems, TLAPS

-----------------------------------------------------------------------------
(* Masking: indices less than a lap apart have different slots.            *)

LEMMA SlotType ==
  ASSUME NEW i \in Nat
  PROVE  Slot(i) \in 0..Capacity-1
BY RingAssumption DEF Slot

\* Division with remainder, the fact about % that the next lemma needs.
LEMMA SlotQuotient ==
  ASSUME NEW i \in Nat
  PROVE  /\ i \div Capacity \in Nat
         /\ i = Capacity * (i \div Capacity) + Slot(i)
BY RingAssumption DEF Slot

LEMMA SlotInjective ==
  ASSUME NEW i \in Nat, NEW j \in Nat, i <= j, j - i < Capacity, Slot(i) = Slot(j)
  PROVE  i = j
<1> DEFINE a == i \div Capacity
           b == j \div Capacity
<1>1. a \in Nat /\ b \in Nat /\ i = Capacity * a + Slot(i) /\ j = Capacity * b + Slot(j)
  BY SlotQuotient
<1>2. j - i = Capacity * (b - a)
  BY <1>1, RingAssumption, SlotType
<1> HIDE DEF a, b
<1>3. \A n \in Int : n >= 1 => Capacity * n >= Capacity
  BY RingAssumption
<1>4. \A n \in Int : n <= -1 => Capacity * n <= -Capacity
  BY RingAssumption
<1>5. b - a < 1 /\ b - a > -1
  BY <1>1, <1>2, <1>3, <1>4, RingAssumption
<1> QED
  BY <1>1, <1>5

-----------------------------------------------------------------------------
(* The inductive invariant.                                                *)

LEMMA RingInvInit == RingInit => RingInv
BY RingAssumption DEF RingInit, RingInv, RingTypeOK, Full, Slot

LEMMA RingInvNext == RingInv /\ [RingNext]_spscVars => RingInv'
<1> SUFFICES ASSUME RingInv, [RingNext]_spscVars
             PROVE  RingInv'
  OBVIOUS
<1> USE RingAssumption DEF RingInv, RingTypeOK, Full, producerVars, consumerVars
<1>1. ASSUME NEW v \in Value, PushLoad(v)
      PROVE  RingInv'
  BY <1>1 DEF PushLoad
<1>2. CASE PushDrop
  BY <1>2 DEF PushDrop
<1>3. CASE PushCopy
  <2>1. \A i \in tail..head-1 : Slot(i) # Slot(head)
    BY SlotInjective, <1>3 DEF PushCopy
  <2>2. Slot(head) \in 0..Capacity-1 /\ \A i \in tail..head-1 : Slot(i) \in 0..Capacity-1
    BY SlotType
  <2>3. data' \in [0..Capacity-1 -> Value \cup {NoValue}] /\ data'[Slot(head)] = elem
    BY <2>2, <1>3 DEF PushCopy
  <2>4. \A i \in tail..head-1 : data'[Slot(i)] = data[Slot(i)]
    BY <2>1, <2>2, <1>3 DEF PushCopy
  <2>5. consumer \in {"loaded", "copied"} => tail \in tail..head-1
    OBVIOUS
  <2> QED
    BY <2>3, <2>4, <2>5, <1>3 DEF PushCopy
<1>4. CASE PushPublish
  BY <1>4, SlotType DEF PushPublish
<1>5. CASE PopLoad
  BY <1>5 DEF PopLoad
<1>6. CASE PopCopy
  <2>1. tail \in tail..head-1
    BY <1>6 DEF PopCopy
  <2> QED
    BY <2>1, <1>6 DEF PopCopy
<1>7. CASE PopPublish
  <2>1. tail \in tail..head-1
    BY <1>7 DEF PopPublish
  <2> QED
    BY <2>1, <1>7 DEF PopPublish
<1>8. CASE UNCHANGED spscVars
  BY <1>8 DEF spscVars
<1> QED
  BY <1>1, <1>2, <1>3, <1>4, <1>5, <1>6, <1>7, <1>8 DEF RingNext

(* The indices, the copied element and the published slots stay consistent  *)
(* whatever the threads' interleaving and however stale their loads.        *)
THEOREM RingInvariant == RingSpec => []RingInv
BY RingInvInit, RingInvNext, PTL DEF RingSpec

(* SDLOP_RingPush and SDLOP_RingPop never copy in the same slot.            *)
THEOREM NoSlotRaceHolds == RingSpec => []NoSlotRace
<1>1. RingInv => NoSlotRace
  BY SlotInjective, RingAssumption DEF RingInv, RingTypeOK, NoSlotRace, Full
<1> QED
  BY <1>1, RingInvariant, PTL

(* SDLOP_RingCount never returns the wrapped difference of two indices.     *)
THEOREM CountInRangeHolds == RingSpec => []CountInRange
<1>1. RingInv => CountInRange
  BY RingAssumption DEF RingInv, RingTypeOK, CountInRange
<1> QED
  BY <1>1, RingInvariant, PTL

-----------------------------------------------------------------------------
(* Refinement.                                                             *)

LEMMA ContentSeq ==
  ASSUME RingInv
  PROVE  Content \in Seq(Value) /\ Len(Content) = head - tail
BY DEF RingInv, RingTypeOK, Content

\* The tail of a sequence, as the function it is.
LEMMA TailAsFunction ==
  ASSUME NEW S, NEW s \in Seq(S), Len(s) \in Nat \ {0}
  PROVE  Tail(s) = [k \in 1..Len(s)-1 |-> s[k + 1]]
<1>1. Tail(s) \in Seq(S) /\ Len(Tail(s)) = Len(s) - 1
  BY HeadTailProperties, EmptySeq
<1>2. \A k \in 1..Len(s)-1 : Tail(s)[k] = s[k + 1]
  BY HeadTailProperties, EmptySeq, <1>1
<1> DEFINE t == Tail(s)
<1>3. t \in [1..Len(s)-1 -> S]
  BY <1>1, LenProperties
<1>4. \A k \in 1..Len(s)-1 : t[k] = s[k + 1]
  BY <1>2
<1> HIDE DEF t
<1>5. t = [k \in 1..Len(s)-1 |-> s[k + 1]]
  BY <1>3, <1>4
<1> QED
  BY <1>5 DEF t

LEMMA RefinesInit == RingInit => Fifo!Init
BY DEF RingInit, Fifo!Init, Content

LEMMA RefinesNext == RingInv /\ [RingNext]_spscVars => [Fifo!Next]_Fifo!fifoVars
<1> SUFFICES ASSUME RingInv, [RingNext]_spscVars
             PROVE  Fifo!Next \/ UNCHANGED Fifo!fifoVars
  OBVIOUS
<1> USE RingAssumption DEF RingInv, RingTypeOK, Full, producerVars, consumerVars
<1>0. Content \in Seq(Value) /\ Len(Content) = head - tail
  BY ContentSeq
<1>1. ASSUME NEW v \in Value, PushLoad(v)
      PROVE  Fifo!Notice
  BY <1>1 DEF PushLoad, Fifo!Notice, Content, Slot
<1>2. ASSUME PushDrop
      PROVE  Fifo!Refuse
  BY <1>2, <1>0 DEF PushDrop, Fifo!Refuse, Content, Slot
<1>3. ASSUME PushCopy
      PROVE  UNCHANGED Fifo!fifoVars
  <2>1. \A i \in tail..head-1 : data'[Slot(i)] = data[Slot(i)]
    BY <1>3, SlotInjective, SlotType DEF PushCopy
  <2>2. Content' = Content
    BY <2>1, <1>3 DEF PushCopy, Content
  <2> QED
    BY <2>2, <1>3 DEF PushCopy, Fifo!fifoVars
<1>4. ASSUME PushPublish
      PROVE  Fifo!Accept(elem)
  <2>1. Content' = Append(Content, elem)
    BY <1>4, <1>0 DEF PushPublish, Content, Slot
  <2> QED
    BY <2>1, <1>0, <1>4 DEF PushPublish, Fifo!Accept
<1>5. ASSUME PopLoad
      PROVE  UNCHANGED Fifo!fifoVars
  BY <1>5 DEF PopLoad, Fifo!fifoVars, Content, Slot
<1>6. ASSUME PopCopy
      PROVE  UNCHANGED Fifo!fifoVars
  BY <1>6 DEF PopCopy, Fifo!fifoVars, Content, Slot
<1>7. ASSUME PopPublish
      PROVE  Fifo!Take
  <2>1. head - tail \in Nat \ {0}
    BY <1>7 DEF PopPublish
  <2>2. Head(Content) = out
    BY <2>1, <1>7, <1>0 DEF PopPublish, Content
  <2>3. Content' = Tail(Content)
    <3>1. Content' = [k \in 1..(head - tail) - 1 |-> data[Slot(tail + k)]]
      BY <1>7 DEF PopPublish, Content
    <3>2. \A k \in 1..(head - tail) - 1 : Content[k + 1] = data[Slot(tail + k)]
      BY <2>1 DEF Content
    <3>3. Tail(Content) = [k \in 1..(head - tail) - 1 |-> Content[k + 1]]
      BY <2>1, <1>0, TailAsFunction
    <3> QED
      BY <3>1, <3>2, <3>3
  <2>4. Content # <<>>
    BY <2>1, <1>0
  <2> QED
    BY <2>2, <2>3, <2>4, <1>7 DEF PopPublish, Fifo!Take
<1>8. ASSUME UNCHANGED spscVars
      PROVE  UNCHANGED Fifo!fifoVars
  BY <1>8 DEF spscVars, Fifo!fifoVars, Content, Slot
<1>9. PushCopy \/ PopLoad \/ PopCopy \/ UNCHANGED spscVars => UNCHANGED Fifo!fifoVars
  BY <1>3, <1>5, <1>6, <1>8
<1>10. PushPublish => \E v \in Value : Fifo!Accept(v)
  BY <1>4 DEF PushPublish
<1> QED
  BY <1>1, <1>2, <1>7, <1>9, <1>10 DEF RingNext, Fifo!Next

(* The lock-free ring implements the bounded queue.                         *)
THEOREM RingImplementsFifo == RingSpec => ImplementsFifo
BY RefinesInit, RefinesNext, RingInvariant, PTL DEF RingSpec, ImplementsFifo, Fifo!Spec

\* The whole of what the run checks of the ring, for every capacity.
THEOREM RingAlwaysSafe == RingSpec => []RingSafe
<1>1. RingInv /\ NoSlotRace /\ CountInRange => RingSafe
  BY DEF RingSafe
<1>2. QED
  BY <1>1, RingInvariant, NoSlotRaceHolds, CountInRangeHolds, PTL
-----------------------------------------------------------------------------
(***************************************************************************)
(* The raw input worker and the main thread of RawInput.  RawInv is taken  *)
(* one part at a time: the control points and flags, what a step does to   *)
(* the rings and queues, the counts, and last the order of the events on   *)
(* their way.                                                              *)
(***************************************************************************)

LEMMA PlacesStep == ASSUME PlacesOK, [Next]_vars PROVE PlacesOK'
<1> USE DEF WorkerGoes, MainGoes
<1>1. CASE Worker
  <2>1. UNCHANGED <<main, wait>>
    BY <1>1, Zenon DEF Worker, WorkerTop, EpollWait, Sample, ReadSource, PushSdl, PushPoll, Count,
              Signal, Again, mainVars
  <2>2. worker' \in {"top", "wait", "sample", "read", "push", "pushpoll", "count",
                     "signal", "again", "done"}
    BY <1>1, Zenon DEF Worker, WorkerTop, EpollWait, Sample, ReadSource, PushSdl, PushPoll, Count,
              Signal, Again
  <2> QED BY <2>1, <2>2 DEF PlacesOK
<1>2. CASE MainStep \/ App
  <2>1. UNCHANGED worker
    BY <1>2, Zenon DEF MainStep, App, Call, Pump, PollOrBlock, Unblock, PollRawEvents, QuitStop,
              QuitWake, QuitClose, workerVars
  <2>2. main' = main \/ main' \in {"app", "pump", "poll", "block", "stop", "join", "quit"}
    BY <1>2, Zenon DEF MainStep, App, Call, Pump, PollOrBlock, Unblock, PollRawEvents, QuitStop,
              QuitWake, QuitClose
  <2>3. wait' = wait \/ wait' \in {"none", "event", "timeout", "pump"}
    BY <1>2, Zenon DEF MainStep, App, Call, Pump, PollOrBlock, Unblock, PollRawEvents, QuitStop,
              QuitWake, QuitClose
  <2> QED BY <2>1, <2>2, <2>3 DEF PlacesOK
<1>3. ASSUME NEW d \in Devices, Input(d) \/ Unplug(d) PROVE PlacesOK'
  BY <1>3, Zenon DEF Input, Unplug, PlacesOK, workerVars, mainVars
<1>4. CASE UNCHANGED vars
  BY <1>4, Zenon DEF PlacesOK, vars, workerVars, mainVars
<1> QED BY <1>1, <1>2, <1>3, <1>4, Zenon DEF Next

LEMMA FlagsStep == ASSUME FlagsOK, [Next]_vars PROVE FlagsOK'
<1>1. CASE Worker
  <2>1. ASSUME Signal PROVE FlagsOK'
    <3>1. (wake_fd \/ (was_empty /\ sdl_ring # <<>>)) \in BOOLEAN
      BY Zenon
    <3> QED BY <2>1, <3>1, Zenon DEF Signal, FlagsOK, workerVars
  <2>2. ASSUME Sample PROVE FlagsOK'
    <3>1. (sdl_ring = <<>>) \in BOOLEAN
      BY Zenon
    <3> QED BY <2>2, <3>1, Zenon DEF Sample, FlagsOK, fdVars
  <2>3. ASSUME ReadSource PROVE FlagsOK'
    <3>1. quit_requested' \in {TRUE, quit_requested}
      BY <2>3, Zenon DEF ReadSource
    <3> QED BY <2>3, <3>1, Zenon DEF ReadSource, FlagsOK, fdVars
  <2>4. ASSUME WorkerTop \/ EpollWait \/ PushSdl \/ PushPoll \/ Count \/ Again PROVE FlagsOK'
    BY <2>4, Zenon DEF WorkerTop, EpollWait, PushSdl, PushPoll, Count, Again, FlagsOK, fdVars
  <2> QED BY <1>1, <2>1, <2>2, <2>3, <2>4, Zenon DEF Worker
<1>2. CASE MainStep \/ App
  BY <1>2, Zenon DEF MainStep, App, Call, Pump, PollOrBlock, Unblock, PollRawEvents, QuitStop,
            QuitWake, QuitClose, workerVars, fdVars, FlagsOK
<1>3. ASSUME NEW d \in Devices, Input(d) \/ Unplug(d) PROVE FlagsOK'
  BY <1>3, Zenon DEF Input, Unplug, FlagsOK, workerVars, fdVars
<1>4. CASE UNCHANGED vars
  BY <1>4, Zenon DEF FlagsOK, vars, workerVars, fdVars
<1> QED BY <1>1, <1>2, <1>3, <1>4, Zenon DEF Next

LEMMA ClosedStep == ASSUME Closed, [Next]_vars PROVE Closed'
<1>1. CASE Worker
  <2>1. worker # "done" /\ UNCHANGED <<main, fds_open>>
    BY <1>1, Zenon DEF Worker, WorkerTop, EpollWait, Sample, ReadSource, PushSdl, PushPoll, Count,
              Signal, Again, mainVars, fdVars
  <2> QED BY <2>1 DEF Closed
<1>2. CASE QuitClose
  BY <1>2 DEF QuitClose, workerVars, MainGoes, Closed
<1>3. CASE App \/ Pump \/ PollOrBlock \/ Unblock \/ QuitWake
  <2>1. main # "quit" /\ UNCHANGED <<worker, fds_open>>
    BY <1>3, Zenon DEF App, Call, Pump, PollOrBlock, Unblock, PollRawEvents, QuitStop,
              QuitWake, workerVars, fdVars
  <2> QED BY <2>1 DEF Closed
<1>4. ASSUME NEW d \in Devices, Input(d) \/ Unplug(d) PROVE Closed'
  BY <1>4, Zenon DEF Input, Unplug, Closed, workerVars, mainVars, fdVars
<1>5. CASE UNCHANGED vars
  BY <1>5, Zenon DEF Closed, vars, workerVars, mainVars, fdVars
<1> QED BY <1>1, <1>2, <1>3, <1>4, <1>5, Zenon DEF Next, MainStep

-----------------------------------------------------------------------------
LEMMA OrdersAreSequences ==
  ASSUME NEW S, IsFiniteSet(S), NEW f \in Orders(S)
  PROVE  f \in Seq(S)
<1>1. Cardinality(S) \in Nat
  BY FS_CardinalityType
<1>2. f \in [1..Cardinality(S) -> S]
  BY DEF Orders
<1> QED BY <1>1, <1>2, SeqDef

LEMMA ReadableFinite == IsFiniteSet(Readable) /\ Readable \subseteq Devices \cup {Control}
<1>1. IsFiniteSet(Devices \cup {Control})
  BY RawAssumption, FS_Singleton, FS_Union
<1>2. Readable \subseteq Devices \cup {Control}
  BY DEF Readable
<1> QED BY <1>1, <1>2, FS_Subset

\* Either end of what a device has sent, in one read or left for the next.
LEMMA ReadParts ==
  ASSUME NEW S, NEW q \in Seq(S)
  PROVE  LET got == IF Len(q) < ReadSize THEN Len(q) ELSE ReadSize IN
         /\ got \in 0..Len(q)
         /\ got = 0 => q = <<>>
         /\ SubSeq(q, 1, got) \in Seq(S) /\ Len(SubSeq(q, 1, got)) = got
         /\ \A i \in 1..got : SubSeq(q, 1, got)[i] = q[i]
         /\ SubSeq(q, got + 1, Len(q)) \in Seq(S) /\ Len(SubSeq(q, got + 1, Len(q))) = Len(q) - got
         /\ \A i \in 1..Len(q) - got : SubSeq(q, got + 1, Len(q))[i] = q[got + i]
<1> DEFINE got == IF Len(q) < ReadSize THEN Len(q) ELSE ReadSize
<1>1. got \in 0..Len(q) /\ (got = 0 => q = <<>>)
  BY RawAssumption, EmptySeq
<1> HIDE DEF got
<1>2. got \in Nat /\ Len(q) \in Nat
  BY <1>1
<1>3. \A i \in 1..got : q[i] \in S
  BY <1>1
<1>4. \A i \in got+1..Len(q) : q[i] \in S
  BY <1>1
<1>5. /\ SubSeq(q, 1, got) \in Seq(S) /\ Len(SubSeq(q, 1, got)) = IF 1 <= got THEN got-1+1 ELSE 0
      /\ \A i \in 1..got-1+1 : SubSeq(q, 1, got)[i] = q[1+i-1]
  BY <1>2, <1>3, SubSeqProperties
<1>6. /\ SubSeq(q, got+1, Len(q)) \in Seq(S)
      /\ Len(SubSeq(q, got+1, Len(q))) = IF got+1 <= Len(q) THEN Len(q)-(got+1)+1 ELSE 0
      /\ \A i \in 1..Len(q)-(got+1)+1 : SubSeq(q, got+1, Len(q))[i] = q[(got+1)+i-1]
  BY <1>2, <1>4, SubSeqProperties
<1>7. \A i \in 1..got : SubSeq(q, 1, got)[i] = q[i]
  BY <1>2, <1>5
<1>8. \A i \in 1..Len(q) - got : SubSeq(q, got+1, Len(q))[i] = q[got + i]
  BY <1>2, <1>6
<1>9. Len(SubSeq(q, 1, got)) = got /\ Len(SubSeq(q, got+1, Len(q))) = Len(q) - got
  BY <1>1, <1>2, <1>5, <1>6
<1> QED BY <1>1, <1>5, <1>6, <1>7, <1>8, <1>9 DEF got

LEMMA QueuesStep == ASSUME RawInv, [Next]_vars PROVE QueuesOK'
<1> USE RawAssumption DEF QueuesOK
<1>1. QueuesOK /\ BatchAtHand
  BY DEF RawInv, TypeOK
<1>2. ASSUME NEW d \in Devices, Input(d) PROVE QueuesOK'
  <2>1. sent[d] + 1 \in 1..MaxEvents
    BY <1>1, <1>2 DEF Input
  <2>2. [dev |-> d, n |-> sent[d] + 1] \in Events
    BY <2>1 DEF Events
  <2> QED BY <1>1, <1>2, <2>1, <2>2 DEF Input, workerVars, mainVars, ringVars
<1>3. ASSUME NEW d \in Devices, Unplug(d) PROVE QueuesOK'
  BY <1>1, <1>3 DEF Unplug, workerVars, mainVars, ringVars
<1>4. ASSUME WorkerTop \/ Sample \/ Signal \/ Again PROVE QueuesOK'
  BY <1>1, <1>4 DEF WorkerTop, Sample, Signal, Again, kernelVars, mainVars, ringVars
<1>5. ASSUME EpollWait PROVE QueuesOK'
  <2>1. ready' \in Seq(Readable)
    BY <1>5, ReadableFinite, OrdersAreSequences DEF EpollWait
  <2>2. ready' \in Seq(Devices \cup {Control})
    BY <2>1, ReadableFinite, SeqMonotonic
  <2> QED BY <1>1, <1>5, <2>2 DEF EpollWait, kernelVars, mainVars, ringVars
<1>6. ASSUME ReadSource PROVE QueuesOK'
  <2>0. UNCHANGED <<sent, last, plugged, sdl_ring, poll_ring>>
    BY <1>6 DEF ReadSource, mainVars, ringVars
  <2>1. CASE ready = <<>>
    BY <1>1, <1>6, <2>1, <2>0 DEF ReadSource
  <2>2. CASE ready # <<>> /\ Head(ready) = Control
    BY <1>1, <1>6, <2>2, <2>0, EmptySeq DEF ReadSource
  <2>3. CASE ready # <<>> /\ Head(ready) # Control
    <3> DEFINE d == Head(ready)
               got == IF Len(devq[d]) < ReadSize THEN Len(devq[d]) ELSE ReadSize
    <3>1. d \in Devices
      BY <1>1, <2>3
    <3>2. /\ batch' = SubSeq(devq[d], 1, got)
          /\ devq' = [devq EXCEPT ![d] = SubSeq(@, got + 1, Len(@))]
          /\ ready' = IF got = 0 THEN Tail(ready) ELSE ready
      BY <1>6, <2>3 DEF ReadSource
    <3>3. devq[d] \in Seq(Events)
      BY <1>1, <3>1
    <3>4. got <= ReadSize
      BY <3>3
    <3>5. /\ SubSeq(devq[d], 1, got) \in Seq(Events) /\ Len(SubSeq(devq[d], 1, got)) = got
          /\ SubSeq(devq[d], got + 1, Len(devq[d])) \in Seq(Events)
      BY <3>3, ReadParts
    <3>6. ready' \in Seq(Devices \cup {Control})
      BY <1>1, <2>3, <3>2
    <3> HIDE DEF d, got
    <3> QED BY <1>1, <2>0, <3>1, <3>2, <3>4, <3>5, <3>6
  <2> QED BY <2>1, <2>2, <2>3
<1>7. ASSUME PushSdl \/ PushPoll PROVE QueuesOK'
  <2>1. batch # <<>> /\ Head(batch) \in Events
    BY <1>1, <1>7 DEF PushSdl, PushPoll, BatchAtHand
  <2>2. UNCHANGED <<sent, last, devq, plugged, batch, ready>>
    BY <1>7, Zenon DEF PushSdl, PushPoll, kernelVars, mainVars
  <2>3. /\ sdl_ring' \in Seq(Events) /\ Len(sdl_ring') <= SdlRingSize
        /\ poll_ring' \in Seq(Events) /\ Len(poll_ring') <= PollRingSize
    <3>1. /\ Append(sdl_ring, Head(batch)) \in Seq(Events)
          /\ Len(Append(sdl_ring, Head(batch))) = Len(sdl_ring) + 1
          /\ Append(poll_ring, Head(batch)) \in Seq(Events)
          /\ Len(Append(poll_ring, Head(batch))) = Len(poll_ring) + 1
      BY <1>1, <2>1, AppendProperties
    <3>2. \/ sdl_ring' \in Seq(Events) /\ Len(sdl_ring') = Len(sdl_ring)
          \/ /\ Len(sdl_ring) < SdlRingSize
             /\ sdl_ring' \in Seq(Events) /\ Len(sdl_ring') = Len(sdl_ring) + 1
      BY <1>1, <1>7, <3>1, Zenon DEF PushSdl, PushPoll
    <3>3. \/ poll_ring' \in Seq(Events) /\ Len(poll_ring') = Len(poll_ring)
          \/ /\ Len(poll_ring) < PollRingSize
             /\ poll_ring' \in Seq(Events) /\ Len(poll_ring') = Len(poll_ring) + 1
      BY <1>1, <1>7, <3>1, Zenon DEF PushSdl, PushPoll
    <3>4. /\ Len(sdl_ring) \in Nat /\ Len(sdl_ring) <= SdlRingSize
          /\ Len(poll_ring) \in Nat /\ Len(poll_ring) <= PollRingSize
      BY <1>1
    <3> QED BY <3>2, <3>3, <3>4
  <2> QED BY <1>1, <2>2, <2>3
<1>8. ASSUME Count PROVE QueuesOK'
  <2>1. batch # <<>>
    BY <1>1, <1>8 DEF Count, BatchAtHand
  <2> QED BY <1>1, <1>8, <2>1 DEF Count, kernelVars, mainVars
<1>9. ASSUME Pump PROVE QueuesOK'
  <2>1. CASE sdl_ring = <<>> \/ drained = SdlRingSize
    BY <1>1, <1>9, <2>1 DEF Pump, kernelVars, workerVars
  <2>2. CASE ~(sdl_ring = <<>> \/ drained = SdlRingSize)
    <3>0. /\ Head(sdl_ring) \in Events
          /\ Tail(sdl_ring) \in Seq(Events) /\ Len(Tail(sdl_ring)) = Len(sdl_ring) - 1
      BY <1>1, <2>2, HeadTailProperties
    <3>1. Head(sdl_ring).dev \in Devices /\ Head(sdl_ring).n \in 0..MaxEvents
      BY <3>0 DEF Events
    <3>2. /\ sdl_ring' = Tail(sdl_ring)
          /\ last' = [last EXCEPT ![Head(sdl_ring).dev] = Head(sdl_ring).n]
      BY <1>9, <2>2, Zenon DEF Pump
    <3>3. UNCHANGED <<sent, devq, plugged, batch, ready, poll_ring>>
      BY <1>9, Zenon DEF Pump, kernelVars, workerVars
    <3>4. last' \in [Devices -> 0..MaxEvents]
      BY <1>1, <3>1, <3>2
    <3> QED BY <1>1, <3>0, <3>2, <3>3, <3>4
  <2> QED BY <2>1, <2>2
<1>10. ASSUME PollRawEvents PROVE QueuesOK'
  BY <1>1, <1>10 DEF PollRawEvents, kernelVars, workerVars
<1>11. ASSUME PollOrBlock \/ Unblock \/ QuitWake \/ QuitClose \/ QuitStop
              \/ \E w \in {"event", "timeout", "pump"} : Call(w)
       PROVE  QueuesOK'
  BY <1>1, <1>11 DEF PollOrBlock, Unblock, QuitWake, QuitClose, QuitStop, Call,
                     kernelVars, workerVars, ringVars
<1>12. CASE UNCHANGED vars
  BY <1>1, <1>12 DEF vars, kernelVars, workerVars, mainVars, ringVars
<1> QED
  BY <1>2, <1>3, <1>4, <1>5, <1>6, <1>7, <1>8, <1>9, <1>10, <1>11, <1>12, Zenon
  DEF Next, Worker, MainStep, App

LEMMA CountsStep == ASSUME RawInv, [Next]_vars PROVE CountsOK'
<1> USE RawAssumption DEF CountsOK
<1>1. CountsOK
  BY DEF RawInv, TypeOK
<1>2. CASE Worker
  BY <1>1, <1>2 DEF Worker, WorkerTop, EpollWait, Sample, ReadSource, PushSdl, PushPoll, Count,
                    Signal, Again, mainVars, ringVars
<1>3. CASE MainStep
  <2>1. UNCHANGED <<sdl_dropped, poll_dropped, event_count, polled>>
    BY <1>3, Zenon DEF MainStep, Pump, PollOrBlock, Unblock, QuitWake, QuitClose, ringVars
  <2>2. pumped' \in {pumped, pumped + 1}
    BY <1>3, Zenon DEF MainStep, Pump, PollOrBlock, Unblock, QuitWake, QuitClose
  <2>3. ASSUME Pump PROVE queued' \in 0..QueueSize /\ drained' \in 0..SdlRingSize
    <3>1. \/ UNCHANGED <<drained, queued>>
          \/ /\ drained # SdlRingSize /\ drained' = drained + 1
             /\ queued' = queued \/ (queued < QueueSize /\ queued' = queued + 1)
      BY <2>3, SMT DEF Pump
    <3> QED BY <1>1, <3>1
  <2>4. ASSUME PollOrBlock \/ Unblock \/ QuitWake \/ QuitClose
        PROVE  queued' \in 0..QueueSize /\ drained' \in 0..SdlRingSize
    <3>1. /\ queued' = queued \/ (queued > 0 /\ queued' = queued - 1)
          /\ drained' = drained \/ drained' = 0
      <4>1. CASE PollOrBlock
        BY <4>1, SMT DEF PollOrBlock
      <4>2. CASE Unblock \/ QuitWake \/ QuitClose
        BY <4>2, SMT DEF Unblock, QuitWake, QuitClose
      <4> QED BY <2>4, <4>1, <4>2
    <3> QED BY <1>1, <3>1
  <2>5. {sdl_dropped', poll_dropped', event_count', pumped', polled'} \subseteq Nat
    BY <1>1, <2>1, <2>2
  <2>6. queued' \in 0..QueueSize /\ drained' \in 0..SdlRingSize
    BY <1>3, <2>3, <2>4, Zenon DEF MainStep
  <2> QED BY <2>5, <2>6
<1>4. CASE App
  BY <1>1, <1>4 DEF App, Call, PollRawEvents, QuitStop, ringVars
<1>5. ASSUME NEW d \in Devices, Input(d) \/ Unplug(d) PROVE CountsOK'
  BY <1>1, <1>5 DEF Input, Unplug, mainVars, ringVars
<1>6. CASE UNCHANGED vars
  BY <1>1, <1>6 DEF vars, mainVars, ringVars
<1> QED BY <1>2, <1>3, <1>4, <1>5, <1>6, Zenon DEF Next

LEMMA AccountingStep == ASSUME RawInv, [Next]_vars PROVE Accounting'
<1> USE DEF Accounting
<1>1. Accounting /\ CountsOK
  BY DEF RawInv, TypeOK
<1>2. sdl_ring \in Seq(Events) /\ poll_ring \in Seq(Events)
  BY DEF RawInv, TypeOK, QueuesOK
<1>3. CASE WorkerTop \/ EpollWait \/ Sample \/ Signal \/ Again \/ ReadSource
  <2>1. UNCHANGED <<pumped, polled, sdl_ring, poll_ring, sdl_dropped, poll_dropped, event_count>>
    BY <1>3, Zenon DEF WorkerTop, EpollWait, Sample, Signal, Again, ReadSource, mainVars, ringVars
  <2>2. worker \notin {"pushpoll", "count"} /\ worker' \notin {"pushpoll", "count"}
    BY <1>3, Zenon DEF WorkerTop, EpollWait, Sample, Signal, Again, ReadSource, WorkerGoes
  <2> QED BY <1>1, <2>1, <2>2
<1>4. CASE PushSdl \/ PushPoll
  <2>1. Head(batch) \in Events
    BY <1>4 DEF PushSdl, PushPoll, RawInv, TypeOK, QueuesOK, BatchAtHand
  <2>2. /\ Len(Append(sdl_ring, Head(batch))) = Len(sdl_ring) + 1
        /\ Len(Append(poll_ring, Head(batch))) = Len(poll_ring) + 1
    BY <1>2, <2>1, AppendProperties
  <2>3. Len(sdl_ring) \in Nat /\ Len(poll_ring) \in Nat
    BY <1>2
  <2>4. {sdl_dropped, poll_dropped, event_count, pumped, polled} \subseteq Nat
    BY <1>1 DEF CountsOK
  <2>5. CASE PushSdl
    <3>1. \/ Len(sdl_ring') = Len(sdl_ring) /\ sdl_dropped' = sdl_dropped + 1
          \/ Len(sdl_ring') = Len(sdl_ring) + 1 /\ sdl_dropped' = sdl_dropped
      BY <2>2, <2>5, Zenon DEF PushSdl
    <3>2. /\ UNCHANGED <<pumped, polled, poll_ring, poll_dropped, event_count>>
          /\ worker = "push" /\ worker' = "pushpoll"
      BY <2>5, Zenon DEF PushSdl, mainVars, WorkerGoes
    <3>3. /\ pumped + Len(sdl_ring) + sdl_dropped = event_count
          /\ polled + Len(poll_ring) + poll_dropped = event_count
      BY <1>1, <2>4, <3>2
    <3>4. pumped' + Len(sdl_ring') + sdl_dropped' = event_count' + 1
      <4> DEFINE l == Len(sdl_ring)
                 m == Len(sdl_ring')
      <4>1. l \in Nat /\ pumped \in Nat /\ sdl_dropped \in Nat /\ event_count \in Nat
        BY <2>3, <2>4
      <4>2. (m = l /\ sdl_dropped' = sdl_dropped + 1) \/ (m = l + 1 /\ sdl_dropped' = sdl_dropped)
        BY <3>1
      <4>3. pumped + l + sdl_dropped = event_count /\ pumped' = pumped /\ event_count' = event_count
        BY <3>2, <3>3
      <4> HIDE DEF l, m
      <4>4. pumped' + m + sdl_dropped' = event_count' + 1
        BY <4>1, <4>2, <4>3
      <4> QED BY <4>4 DEF m
    <3>5. polled' + Len(poll_ring') + poll_dropped' = event_count' + 0
      BY <2>3, <2>4, <3>2, <3>3
    <3> QED BY <3>2, <3>4, <3>5
  <2>6. CASE PushPoll
    <3>1. \/ Len(poll_ring') = Len(poll_ring) /\ poll_dropped' = poll_dropped + 1
          \/ Len(poll_ring') = Len(poll_ring) + 1 /\ poll_dropped' = poll_dropped
      BY <2>2, <2>6, Zenon DEF PushPoll
    <3>2. /\ UNCHANGED <<pumped, polled, sdl_ring, sdl_dropped, event_count>>
          /\ worker = "pushpoll" /\ worker' = "count"
      BY <2>6, Zenon DEF PushPoll, mainVars, WorkerGoes
    <3> QED BY <1>1, <2>3, <2>4, <3>1, <3>2
  <2> QED BY <1>4, <2>5, <2>6
<1>6. CASE Count
  BY <1>1, <1>2, <1>6 DEF Count, mainVars, WorkerGoes, CountsOK
<1>7. CASE Pump
  <2>1. UNCHANGED <<worker, polled, poll_ring, sdl_dropped, poll_dropped, event_count>>
    BY <1>7, Zenon DEF Pump, workerVars
  <2>2. \/ UNCHANGED <<sdl_ring, pumped>>
        \/ sdl_ring # <<>> /\ sdl_ring' = Tail(sdl_ring) /\ pumped' = pumped + 1
    BY <1>7, Zenon DEF Pump
  <2>3. sdl_ring # <<>> => Len(Tail(sdl_ring)) = Len(sdl_ring) - 1 /\ Len(sdl_ring) \in Nat
    BY <1>2, HeadTailProperties
  <2> QED BY <1>1, <2>1, <2>2, <2>3 DEF CountsOK
<1>8. CASE PollRawEvents
  BY <1>1, <1>2, <1>8 DEF PollRawEvents, workerVars, CountsOK
<1>9. ASSUME \/ PollOrBlock \/ Unblock \/ QuitWake \/ QuitClose \/ QuitStop
             \/ \E w \in {"event", "timeout", "pump"} : Call(w)
             \/ \E d \in Devices : Input(d) \/ Unplug(d)
             \/ UNCHANGED vars
      PROVE Accounting'
  <2>1. UNCHANGED <<worker, pumped, polled, sdl_ring, poll_ring, sdl_dropped, poll_dropped,
                    event_count>>
    BY <1>9, Zenon DEF PollOrBlock, Unblock, QuitWake, QuitClose, QuitStop, Call, Input, Unplug,
                       vars, workerVars, mainVars, ringVars
  <2> QED BY <1>1, <2>1
<1> QED
  BY <1>3, <1>4, <1>6, <1>7, <1>8, <1>9, Zenon DEF Next, Worker, MainStep, App

LEMMA BatchStep == ASSUME RawInv, [Next]_vars PROVE BatchAtHand'
<1> USE DEF BatchAtHand
<1>1. BatchAtHand /\ QueuesOK
  BY DEF RawInv, TypeOK
<1>2. CASE ReadSource
  <2>1. CASE ready = <<>> \/ Head(ready) = Control
    BY <1>1, <1>2, <2>1 DEF ReadSource, WorkerGoes
  <2>2. CASE ready # <<>> /\ Head(ready) # Control
    <3> DEFINE d == Head(ready)
               got == IF Len(devq[d]) < ReadSize THEN Len(devq[d]) ELSE ReadSize
    <3>1. d \in Devices /\ devq[d] \in Seq(Events)
      BY <1>1, <2>2 DEF QueuesOK
    <3>2. /\ batch' = SubSeq(devq[d], 1, got)
          /\ worker' = IF got = 0 THEN "read" ELSE "push"
      BY <1>2, <2>2 DEF ReadSource, WorkerGoes
    <3>3. SubSeq(devq[d], 1, got) \in Seq(Events) /\ Len(SubSeq(devq[d], 1, got)) = got
      BY <3>1, ReadParts
    <3> HIDE DEF got, d
    <3> QED BY <3>2, <3>3, EmptySeq
  <2> QED BY <2>1, <2>2
<1>3. CASE Count
  BY <1>1, <1>3 DEF Count, WorkerGoes
<1>4. CASE WorkerTop \/ EpollWait \/ Sample \/ PushSdl \/ PushPoll \/ Signal \/ Again
  BY <1>1, <1>4 DEF WorkerTop, EpollWait, Sample, PushSdl, PushPoll, Signal, Again, WorkerGoes
<1>5. ASSUME MainStep \/ App \/ (\E d \in Devices : Input(d) \/ Unplug(d)) \/ UNCHANGED vars
      PROVE BatchAtHand'
  <2>1. UNCHANGED <<worker, batch>>
    BY <1>5, Zenon DEF MainStep, App, Pump, PollOrBlock, Unblock, QuitWake, QuitClose,
                       PollRawEvents,
                       QuitStop, Call, Input, Unplug, vars, workerVars
  <2> QED BY <1>1, <2>1
<1> QED BY <1>2, <1>3, <1>4, <1>5, Zenon DEF Next, Worker

-----------------------------------------------------------------------------
LEMMA UnpushedType == ASSUME RawInv PROVE Unpushed \in Seq(Events)
<1>1. batch \in Seq(Events) /\ (worker \in {"pushpoll", "count"} => batch # <<>>)
  BY DEF RawInv, TypeOK, QueuesOK, BatchAtHand
<1> QED BY <1>1, HeadTailProperties DEF Unpushed

LEMMA LeftType ==
  ASSUME QueuesOK, NEW d \in Devices
  PROVE  /\ sent[d] \in Nat /\ last[d] \in Nat
         /\ devq[d] \in Seq(Events) /\ Len(devq[d]) \in Nat
         /\ Left(d) \in Int
BY RawAssumption DEF QueuesOK, Left

LEMMA EventType == ASSUME NEW e \in Events PROVE e.dev \in Devices /\ e.n \in Nat
BY RawAssumption DEF Events

\* The part of OnTheWay about what left the kernel...
Handled ==
  /\ \A d \in Devices : last[d] <= Left(d)
  /\ Sorted(sdl_ring) /\ Between(sdl_ring)
  /\ Sorted(Unpushed) /\ Between(Unpushed)
  /\ Precedes(sdl_ring, Unpushed)

\* ... and the part about what it holds.
Held == \A d \in Devices : \A i \in DOMAIN devq[d] : devq[d][i] = [dev |-> d, n |-> Left(d) + i]

LEMMA OnTheWayParts == OnTheWay <=> Held /\ Handled
BY DEF OnTheWay, Held, Handled

\* ... is kept by a step that only takes events from the kernel.
LEMMA HandledKept ==
  ASSUME RawInv, QueuesOK', UNCHANGED <<last, sdl_ring, Unpushed>>,
         \A d \in Devices : Left(d) <= Left(d)'
  PROVE  Handled'
<1>1. QueuesOK /\ Handled /\ Unpushed \in Seq(Events) /\ sdl_ring \in Seq(Events)
  BY UnpushedType, OnTheWayParts DEF RawInv, TypeOK, QueuesOK
<1>2. \A d \in Devices : Left(d) \in Int /\ Left(d)' \in Int /\ last[d] \in Nat
  <2> TAKE d \in Devices
  <2>1. Left(d) \in Int /\ last[d] \in Nat
    BY <1>1, LeftType
  <2>2. sent'[d] \in Nat /\ Len(devq'[d]) \in Nat
    BY RawAssumption DEF QueuesOK
  <2> QED BY <2>1, <2>2 DEF Left
<1>3. \A d \in Devices : last'[d] <= Left(d)'
  BY <1>1, <1>2 DEF Handled
<1>4. ASSUME NEW s \in Seq(Events), Between(s), NEW i \in DOMAIN s
      PROVE  last'[s[i].dev] < s[i].n /\ s[i].n <= Left(s[i].dev)'
  <2>1. s[i] \in Events
    BY <1>4
  <2>2. s[i].dev \in Devices /\ s[i].n \in Nat
    BY <2>1, EventType
  <2>3. last[s[i].dev] < s[i].n /\ s[i].n <= Left(s[i].dev)
    BY <1>4 DEF Between
  <2> QED BY <1>2, <2>2, <2>3
<1>5. Between(sdl_ring)' /\ Between(Unpushed)'
  BY <1>1, <1>4 DEF Handled, Between
<1>6. (Sorted(sdl_ring) /\ Sorted(Unpushed) /\ Precedes(sdl_ring, Unpushed))'
  BY <1>1 DEF Handled, Sorted, Precedes
<1> QED BY <1>3, <1>5, <1>6 DEF Handled

LEMMA OrderStep == ASSUME RawInv, QueuesOK', [Next]_vars PROVE OnTheWay'
<1>1. /\ QueuesOK /\ BatchAtHand /\ Held /\ Handled
      /\ Unpushed \in Seq(Events) /\ sdl_ring \in Seq(Events) /\ batch \in Seq(Events)
  BY UnpushedType, OnTheWayParts DEF RawInv, TypeOK, QueuesOK
<1>2. \A d \in Devices : /\ sent[d] \in Nat /\ last[d] \in Nat /\ Left(d) \in Int
                         /\ devq[d] \in Seq(Events) /\ Len(devq[d]) \in Nat
  BY <1>1, LeftType
<1>3. ASSUME UNCHANGED <<sent, devq, last, sdl_ring, Unpushed>>
      PROVE  OnTheWay'
  <2>1. \A d \in Devices : Left(d)' = Left(d)
    BY <1>3 DEF Left
  <2>2. Held'
    BY <1>1, <1>3, <2>1 DEF Held
  <2>3. Handled'
    BY <1>2, <1>3, <2>1, HandledKept
  <2> QED BY <2>2, <2>3, OnTheWayParts DEF Handled, Held, OnTheWay
<1>4. ASSUME NEW d \in Devices, Input(d) PROVE OnTheWay'
  <2>1. /\ sent' = [sent EXCEPT ![d] = @ + 1]
        /\ devq' = [devq EXCEPT ![d] = Append(@, [dev |-> d, n |-> sent[d] + 1])]
        /\ UNCHANGED <<last, sdl_ring, batch, worker>>
    BY <1>4 DEF Input, workerVars, mainVars, ringVars
  <2>2. UNCHANGED Unpushed
    BY <2>1 DEF Unpushed
  <2> DEFINE e == [dev |-> d, n |-> sent[d] + 1]
  <2>3. e \in Events
    BY <1>1, <1>2, <1>4 DEF Events, Input, QueuesOK
  <2> HIDE DEF e
  <2>4. /\ Len(Append(devq[d], e)) = Len(devq[d]) + 1
        /\ \A i \in 1..Len(devq[d]) : Append(devq[d], e)[i] = devq[d][i]
        /\ Append(devq[d], e)[Len(devq[d]) + 1] = e
        /\ DOMAIN Append(devq[d], e) = 1..Len(devq[d]) + 1
    BY <1>2, <2>3, AppendProperties
  <2>5. devq' = [devq EXCEPT ![d] = Append(@, e)] /\ devq'[d] = Append(devq[d], e)
    BY <1>1, <2>1 DEF e, QueuesOK
  <2>6. \A c \in Devices : c # d => devq'[c] = devq[c] /\ sent'[c] = sent[c]
    BY <1>1, <2>1 DEF QueuesOK
  <2>7. sent'[d] = sent[d] + 1
    BY <1>1, <2>1 DEF QueuesOK
  <2>8. \A c \in Devices : Left(c)' = Left(c)
    <3>1. Left(d)' = Left(d)
      BY <1>2, <2>4, <2>5, <2>7 DEF Left
    <3> QED BY <2>6, <3>1 DEF Left
  <2>9. Handled'
    BY <1>2, <2>1, <2>2, <2>8, HandledKept
  <2>10. Held'
    <3>1. ASSUME NEW c \in Devices, c # d, NEW i \in DOMAIN devq'[c]
          PROVE  devq'[c][i] = [dev |-> c, n |-> Left(c)' + i]
      BY <1>1, <2>6, <2>8, <3>1 DEF Held
    <3>2. ASSUME NEW i \in DOMAIN devq'[d]
          PROVE  devq'[d][i] = [dev |-> d, n |-> Left(d)' + i]
      <4>1. CASE i \in 1..Len(devq[d])
        <5>1. devq'[d][i] = devq[d][i]
          BY <2>4, <2>5, <4>1
        <5>2. i \in DOMAIN devq[d]
          BY <1>2, <4>1
        <5> QED BY <1>1, <5>1, <5>2, <2>8 DEF Held
      <4>2. CASE i = Len(devq[d]) + 1
        <5>1. Left(d)' + i = sent[d] + 1
          BY <1>2, <2>8, <4>2 DEF Left
        <5> QED BY <2>4, <2>5, <4>2, <5>1 DEF e
      <4> QED BY <1>2, <2>4, <2>5, <3>2, <4>1, <4>2
    <3> QED BY <3>1, <3>2 DEF Held
  <2> QED BY <2>9, <2>10, OnTheWayParts DEF Handled, Held, OnTheWay
<1>5. ASSUME NEW d \in Devices, Unplug(d) PROVE OnTheWay'
  <2>1. /\ UNCHANGED <<sent, last, sdl_ring, batch, worker>>
        /\ devq' = [devq EXCEPT ![d] = <<>>]
    BY <1>5 DEF Unplug, workerVars, mainVars, ringVars
  <2>2. UNCHANGED Unpushed
    BY <2>1 DEF Unpushed
  <2>3. devq'[d] = <<>> /\ \A c \in Devices : c # d => devq'[c] = devq[c]
    BY <1>1, <2>1 DEF QueuesOK
  <2>4. \A c \in Devices : c # d => Left(c)' = Left(c)
    BY <2>1, <2>3 DEF Left
  <2>5. Left(d)' = sent[d] - 0
    BY <2>1, <2>3 DEF Left
  <2>6. \A c \in Devices : Left(c) <= Left(c)'
    <3>1. sent[d] \in Nat /\ Len(devq[d]) \in Nat /\ Left(d) = sent[d] - Len(devq[d])
      BY <1>2 DEF Left
    <3>2. Left(d) <= Left(d)'
      BY <2>5, <3>1
    <3> QED BY <1>2, <2>4, <3>2
  <2>7. Handled'
    BY <2>1, <2>2, <2>6, HandledKept
  <2>8. Held'
    BY <1>1, <2>3, <2>4 DEF Held
  <2> QED BY <2>7, <2>8, OnTheWayParts DEF Handled, Held, OnTheWay
<1>6. ASSUME ReadSource PROVE OnTheWay'
  <2>1. /\ UNCHANGED <<sent, last, sdl_ring>>
        /\ worker = "read" /\ worker' \in {"signal", "read", "push"}
    BY <1>6, Zenon DEF ReadSource, WorkerGoes, mainVars, ringVars
  <2>2. Unpushed = batch /\ Unpushed' = batch' /\ batch = <<>>
    BY <1>1, <2>1 DEF Unpushed, BatchAtHand
  <2>3. CASE ready = <<>> \/ Head(ready) = Control
    <3>1. UNCHANGED <<devq, batch>>
      BY <1>6, <2>3 DEF ReadSource
    <3> QED BY <1>3, <2>1, <2>2, <3>1
  <2>4. CASE ready # <<>> /\ Head(ready) # Control
    <3>1. PICK d \in Devices : d = Head(ready)
      BY <1>1, <2>4, HeadTailProperties DEF QueuesOK
    <3> DEFINE got == IF Len(devq[d]) < ReadSize THEN Len(devq[d]) ELSE ReadSize
               taken == SubSeq(devq[d], 1, got)
               rest == SubSeq(devq[d], got + 1, Len(devq[d]))
    <3>2. batch' = taken /\ devq' = [devq EXCEPT ![d] = SubSeq(@, got + 1, Len(@))]
      BY <1>6, <2>4, <3>1 DEF ReadSource
    <3>3. devq[d] \in Seq(Events) /\ Left(d) \in Int /\ sent[d] \in Nat /\ Len(devq[d]) \in Nat
          /\ last[d] \in Nat
      BY <1>2, <3>1
    <3>4. /\ got \in 0..Len(devq[d])
          /\ taken \in Seq(Events) /\ Len(taken) = got
          /\ \A i \in 1..got : taken[i] = devq[d][i]
          /\ rest \in Seq(Events) /\ Len(rest) = Len(devq[d]) - got
          /\ \A i \in 1..Len(devq[d]) - got : rest[i] = devq[d][got + i]
      BY <3>3, ReadParts
    <3>5. devq'[d] = rest /\ \A c \in Devices : c # d => devq'[c] = devq[c]
      BY <1>1, <3>1, <3>2 DEF QueuesOK
    <3> HIDE DEF got, taken, rest
    <3>6. DOMAIN taken = 1..got /\ DOMAIN rest = 1..Len(devq[d]) - got
          /\ DOMAIN devq[d] = 1..Len(devq[d])
      BY <3>3, <3>4, LenProperties
    <3>7. Left(d)' = Left(d) + got /\ \A c \in Devices : c # d => Left(c)' = Left(c)
      <4>1. Left(d)' = Left(d) + got
        <5>1. Left(d)' = sent[d] - Len(rest) /\ Left(d) = sent[d] - Len(devq[d])
          BY <2>1, <3>5 DEF Left
        <5>2. Len(rest) = Len(devq[d]) - got /\ got \in Nat
          BY <3>4
        <5> QED BY <3>3, <5>1, <5>2
      <4> QED BY <2>1, <3>5, <4>1 DEF Left
    <3>8. \A c \in Devices : Left(c) \in Int /\ Left(c)' \in Int /\ Left(c) <= Left(c)'
      <4>1. got \in Nat
        BY <3>4
      <4>2. ASSUME NEW c \in Devices, c = d PROVE Left(c)' = Left(c) + got
        BY <3>7, <4>2
      <4>3. \A c \in Devices : Left(c)' = Left(c) \/ Left(c)' = Left(c) + got
        BY <3>7, <4>2
      <4>4. \A c \in Devices : Left(c) \in Int
        BY <1>2
      <4> QED BY <4>1, <4>3, <4>4
    <3>9. Held'
      <4>1. ASSUME NEW c \in Devices, c # d, NEW i \in DOMAIN devq'[c]
            PROVE  devq'[c][i] = [dev |-> c, n |-> Left(c)' + i]
        BY <1>1, <3>5, <3>7, <4>1 DEF Held
      <4>2. ASSUME NEW i \in DOMAIN devq'[d]
            PROVE  devq'[d][i] = [dev |-> d, n |-> Left(d)' + i]
        <5>1. i \in 1..Len(devq[d]) - got /\ devq'[d][i] = devq[d][got + i]
          BY <3>4, <3>5, <3>6, <4>2
        <5>2. got + i \in DOMAIN devq[d]
          BY <3>3, <3>4, <3>6, <5>1
        <5>3. devq[d][got + i] = [dev |-> d, n |-> Left(d) + (got + i)]
          BY <1>1, <3>1, <5>2 DEF Held
        <5>4. Left(d) + (got + i) = Left(d)' + i
          BY <3>3, <3>4, <3>7, <5>1
        <5> QED BY <5>1, <5>3, <5>4
      <4>3. ASSUME NEW c \in Devices, NEW i \in DOMAIN devq'[c]
            PROVE  devq'[c][i] = [dev |-> c, n |-> Left(c)' + i]
        <5>1. CASE c = d
          <6>1. i \in DOMAIN devq'[d]
            BY <5>1
          <6>2. devq'[d][i] = [dev |-> d, n |-> Left(d)' + i]
            BY <4>2, <6>1
          <6> QED BY <5>1, <6>2
        <5>2. CASE c # d
          BY <4>1, <5>2
        <5> QED BY <5>1, <5>2
      <4> QED BY <4>3 DEF Held
    <3>10. \A i \in 1..got : taken[i] = [dev |-> d, n |-> Left(d) + i]
      <4> TAKE i \in 1..got
      <4>1. i \in DOMAIN devq[d]
        BY <3>3, <3>4, <3>6
      <4>2. devq[d][i] = [dev |-> d, n |-> Left(d) + i]
        BY <1>1, <3>1, <4>1 DEF Held
      <4> QED BY <3>4, <4>2
    <3>11. \A i \in 1..got : taken[i].dev = d /\ taken[i].n = Left(d) + i
      <4> TAKE i \in 1..got
      <4>1. taken[i] = [dev |-> d, n |-> Left(d) + i]
        BY <3>10
      <4> QED BY <4>1
    <3>12. last[d] <= Left(d)
      BY <1>1, <3>1 DEF Handled
    <3>13. Sorted(taken)
      <4> SUFFICES ASSUME NEW i \in 1..got, NEW j \in 1..got, i < j
                   PROVE  taken[i].n < taken[j].n
        BY <3>6 DEF Sorted
      <4> QED BY <3>3, <3>4, <3>11
    <3>14. \A i \in 1..got : last[d] < taken[i].n /\ taken[i].n <= Left(d)'
      BY <3>3, <3>4, <3>7, <3>11, <3>12
    <3>15. Sorted(Unpushed') /\ Between(Unpushed)'
      <4>1. Sorted(Unpushed')
        BY <2>2, <3>2, <3>13
      <4>2. Between(Unpushed)'
        <5>1. /\ Unpushed' = taken /\ DOMAIN taken = 1..got /\ last' = last
              /\ \A i \in 1..got : taken[i].dev = d
          BY <2>1, <2>2, <3>2, <3>6, <3>11
        <5> QED BY <3>14, <5>1 DEF Between
      <4> QED BY <4>1, <4>2
    <3>16. \A i \in DOMAIN sdl_ring : /\ sdl_ring[i].dev \in Devices /\ sdl_ring[i].n \in Nat
                                     /\ last[sdl_ring[i].dev] < sdl_ring[i].n
                                     /\ sdl_ring[i].n <= Left(sdl_ring[i].dev)
      <4> TAKE i \in DOMAIN sdl_ring
      <4>1. sdl_ring[i] \in Events
        BY <1>1
      <4> QED BY <1>1, <4>1, EventType DEF Handled, Between
    <3>17. Precedes(sdl_ring', Unpushed')
      <4> SUFFICES ASSUME NEW i \in DOMAIN sdl_ring, NEW j \in 1..got, sdl_ring[i].dev = taken[j].dev
                   PROVE  sdl_ring[i].n < taken[j].n
        BY <2>1, <2>2, <3>2, <3>6 DEF Precedes
      <4>1. sdl_ring[i].n <= Left(d) /\ sdl_ring[i].n \in Nat /\ taken[j].n = Left(d) + j
        BY <3>11, <3>16
      <4> QED BY <3>3, <3>4, <4>1
    <3>18. Sorted(sdl_ring') /\ Between(sdl_ring)'
      <4>1. Sorted(sdl_ring')
        BY <1>1, <2>1 DEF Handled
      <4>2. \A i \in DOMAIN sdl_ring : sdl_ring[i].n <= Left(sdl_ring[i].dev)'
        <5> TAKE i \in DOMAIN sdl_ring
        <5>1. PICK c \in Devices : /\ c = sdl_ring[i].dev /\ sdl_ring[i].n \in Nat
                                  /\ sdl_ring[i].n <= Left(c)
          BY <3>16
        <5>2. Left(c) \in Int /\ Left(c)' \in Int /\ Left(c) <= Left(c)'
          BY <3>8
        <5>3. sdl_ring[i].n <= Left(c)'
          BY <5>1, <5>2
        <5> QED BY <5>1, <5>3, <2>1
      <4> QED BY <2>1, <3>16, <4>1, <4>2 DEF Between
    <3>19. \A c \in Devices : last'[c] <= Left(c)'
      <4> TAKE c \in Devices
      <4>1. last[c] <= Left(c) /\ last[c] \in Nat /\ Left(c) \in Int /\ Left(c)' \in Int
        BY <1>1, <1>2, <3>8 DEF Handled
      <4> QED BY <2>1, <3>8, <4>1
    <3> QED BY <3>9, <3>15, <3>17, <3>18, <3>19, OnTheWayParts DEF Handled, Held, OnTheWay
  <2> QED BY <2>3, <2>4
<1>7. ASSUME PushSdl PROVE OnTheWay'
  <2>1. /\ UNCHANGED <<sent, devq, last, batch>>
        /\ worker = "push" /\ worker' = "pushpoll"
        /\ sdl_ring' \in {sdl_ring, Append(sdl_ring, Head(batch))}
    BY <1>7, Zenon DEF PushSdl, WorkerGoes, kernelVars, mainVars
  <2>2. Unpushed = batch /\ Unpushed' = Tail(batch) /\ batch # <<>>
    BY <1>1, <2>1 DEF Unpushed, BatchAtHand
  <2>3. /\ Tail(batch) \in Seq(Events) /\ Head(batch) = batch[1] /\ Head(batch) \in Events
        /\ Len(batch) \in Nat /\ Len(batch) >= 1
        /\ DOMAIN batch = 1..Len(batch) /\ DOMAIN Tail(batch) = 1..Len(batch) - 1
        /\ \A i \in 1..Len(batch) - 1 : Tail(batch)[i] = batch[i+1]
    BY <1>1, <2>2, HeadTailProperties, LenProperties
  <2>4. /\ DOMAIN sdl_ring = 1..Len(sdl_ring) /\ Len(sdl_ring) \in Nat
        /\ DOMAIN Append(sdl_ring, Head(batch)) = 1..Len(sdl_ring) + 1
        /\ \A i \in 1..Len(sdl_ring) : Append(sdl_ring, Head(batch))[i] = sdl_ring[i]
        /\ Append(sdl_ring, Head(batch))[Len(sdl_ring) + 1] = Head(batch)
    BY <1>1, <2>3, AppendProperties, LenProperties
  <2>5. \A d : Left(d)' = Left(d)
    BY <2>1 DEF Left
  <2>6. Held'
    BY <1>1, <2>1, <2>5 DEF Held
  <2>7. /\ Sorted(sdl_ring) /\ Between(sdl_ring) /\ Sorted(batch) /\ Between(batch)
        /\ Precedes(sdl_ring, batch)
    BY <1>1, <2>2 DEF Handled
  <2>8. Sorted(Unpushed')
    <3> SUFFICES ASSUME NEW i \in 1..Len(batch) - 1, NEW j \in 1..Len(batch) - 1, i < j,
                        batch[i+1].dev = batch[j+1].dev
                 PROVE  batch[i+1].n < batch[j+1].n
      BY <2>2, <2>3 DEF Sorted
    <3>1. i+1 \in DOMAIN batch /\ j+1 \in DOMAIN batch /\ i+1 < j+1
      BY <2>3
    <3> QED BY <2>7, <3>1 DEF Sorted
  <2>9. Between(Unpushed)'
    <3> SUFFICES ASSUME NEW i \in 1..Len(batch) - 1
                 PROVE  last[batch[i+1].dev] < batch[i+1].n /\ batch[i+1].n <= Left(batch[i+1].dev)
      BY <2>1, <2>2, <2>3, <2>5 DEF Between
    <3>1. i+1 \in DOMAIN batch
      BY <2>3
    <3> QED BY <2>7, <3>1 DEF Between
  <2>10. Precedes(sdl_ring, Tail(batch))
    <3> SUFFICES ASSUME NEW i \in DOMAIN sdl_ring, NEW j \in 1..Len(batch) - 1,
                        sdl_ring[i].dev = batch[j+1].dev
                 PROVE  sdl_ring[i].n < batch[j+1].n
      BY <2>3 DEF Precedes
    <3>1. j+1 \in DOMAIN batch
      BY <2>3
    <3> QED BY <2>7, <3>1 DEF Precedes
  <2>11. Sorted(sdl_ring') /\ Between(sdl_ring)' /\ Precedes(sdl_ring', Unpushed')
    <3>1. CASE sdl_ring' = sdl_ring
      BY <2>1, <2>2, <2>5, <2>7, <2>10, <3>1 DEF Between
    <3>2. CASE sdl_ring' = Append(sdl_ring, Head(batch))
      <4> DEFINE n == Len(sdl_ring)
      <4>0. 1 \in DOMAIN batch
        BY <2>3
      <4>1. /\ n \in Nat /\ DOMAIN sdl_ring' = 1..n+1 /\ DOMAIN sdl_ring = 1..n
            /\ \A i \in 1..n : sdl_ring'[i] = sdl_ring[i]
            /\ sdl_ring'[n+1] = batch[1]
        BY <2>3, <2>4, <3>2
      <4> HIDE DEF n
      <4>2. Sorted(sdl_ring')
        <5> SUFFICES ASSUME NEW i \in 1..n+1, NEW j \in 1..n+1, i < j,
                            sdl_ring'[i].dev = sdl_ring'[j].dev
                     PROVE  sdl_ring'[i].n < sdl_ring'[j].n
          BY <4>1 DEF Sorted
        <5>1. i \in 1..n
          BY <4>1
        <5>2. CASE j \in 1..n
          BY <2>7, <4>1, <5>1, <5>2 DEF Sorted
        <5>3. CASE j = n+1
          BY <2>7, <4>0, <4>1, <5>1, <5>3 DEF Precedes
        <5> QED BY <4>1, <5>2, <5>3
      <4>3. Between(sdl_ring)'
        <5> SUFFICES ASSUME NEW i \in 1..n+1
                     PROVE  /\ last[sdl_ring'[i].dev] < sdl_ring'[i].n
                            /\ sdl_ring'[i].n <= Left(sdl_ring'[i].dev)
          BY <2>1, <2>5, <4>1 DEF Between
        <5>1. CASE i \in 1..n
          BY <2>7, <4>1, <5>1 DEF Between
        <5>2. CASE i = n+1
          BY <2>7, <4>0, <4>1, <5>2 DEF Between
        <5> QED BY <4>1, <5>1, <5>2
      <4>4. Precedes(sdl_ring', Unpushed')
        <5> SUFFICES ASSUME NEW i \in 1..n+1, NEW j \in 1..Len(batch) - 1,
                            sdl_ring'[i].dev = batch[j+1].dev
                     PROVE  sdl_ring'[i].n < batch[j+1].n
          BY <2>2, <2>3, <4>1 DEF Precedes
        <5>0. j+1 \in DOMAIN batch /\ 1 < j+1
          BY <2>3
        <5>1. CASE i \in 1..n
          BY <2>7, <4>1, <5>0, <5>1 DEF Precedes
        <5>2. CASE i = n+1
          BY <2>7, <4>0, <4>1, <5>0, <5>2 DEF Sorted
        <5> QED BY <4>1, <5>1, <5>2
      <4> QED BY <4>2, <4>3, <4>4
    <3> QED BY <2>1, <3>1, <3>2
  <2>12. \A d \in Devices : last'[d] <= Left(d)'
    BY <1>1, <2>1, <2>5 DEF Handled
  <2> QED BY <2>6, <2>8, <2>9, <2>11, <2>12, OnTheWayParts DEF Handled, Held, OnTheWay
<1>8. ASSUME Pump PROVE OnTheWay'
  <2>1. UNCHANGED <<sent, devq, batch, worker>>
    BY <1>8, Zenon DEF Pump, kernelVars, workerVars
  <2>2. UNCHANGED Unpushed
    BY <2>1 DEF Unpushed
  <2>3. CASE sdl_ring = <<>> \/ drained = SdlRingSize
    BY <1>3, <1>8, <2>1, <2>2, <2>3 DEF Pump
  <2>4. CASE ~(sdl_ring = <<>> \/ drained = SdlRingSize)
    <3> DEFINE e == sdl_ring[1]
               n == Len(sdl_ring)
    <3>1. /\ e = Head(sdl_ring) /\ e \in Events
          /\ n \in Nat /\ n >= 1 /\ DOMAIN sdl_ring = 1..n
          /\ Tail(sdl_ring) \in Seq(Events) /\ DOMAIN Tail(sdl_ring) = 1..n-1
          /\ \A i \in 1..n-1 : Tail(sdl_ring)[i] = sdl_ring[i+1]
      BY <1>1, <2>4, HeadTailProperties, LenProperties
    <3>2. sdl_ring' = Tail(sdl_ring) /\ last' = [last EXCEPT ![e.dev] = e.n]
      BY <1>8, <2>4, <3>1 DEF Pump
    <3> HIDE DEF n, e
    <3>3. e.dev \in Devices /\ e.n \in Nat
      BY <3>1, EventType
    <3>4. /\ last'[e.dev] = e.n
          /\ \A d \in Devices : d # e.dev => last'[d] = last[d]
      BY <1>1, <3>2, <3>3 DEF QueuesOK
    <3>5. \A d : Left(d)' = Left(d)
      BY <2>1 DEF Left
    <3>6. /\ Sorted(sdl_ring) /\ Between(sdl_ring) /\ Sorted(Unpushed) /\ Between(Unpushed)
          /\ Precedes(sdl_ring, Unpushed)
      BY <1>1 DEF Handled
    <3>7. 1 \in DOMAIN sdl_ring
      BY <3>1
    <3>8. \A d \in Devices : last'[d] <= Left(d)'
      <4> TAKE d \in Devices
      <4>1. e.n <= Left(e.dev)
        BY <3>6, <3>7 DEF Between, e
      <4> QED BY <1>1, <3>4, <3>5, <4>1 DEF Handled
    <3>9. Sorted(sdl_ring')
      <4> SUFFICES ASSUME NEW i \in 1..n-1, NEW j \in 1..n-1, i < j,
                          sdl_ring[i+1].dev = sdl_ring[j+1].dev
                   PROVE  sdl_ring[i+1].n < sdl_ring[j+1].n
        <5>1. /\ DOMAIN sdl_ring' = 1..n-1
              /\ \A i \in 1..n-1 : sdl_ring'[i] = sdl_ring[i+1]
          BY <3>1, <3>2
        <5> QED BY <5>1 DEF Sorted
      <4>1. i+1 \in DOMAIN sdl_ring /\ j+1 \in DOMAIN sdl_ring /\ i+1 < j+1
        BY <3>1
      <4> QED BY <3>6, <4>1 DEF Sorted
    <3>10. Between(sdl_ring)'
      <4> SUFFICES ASSUME NEW i \in 1..n-1
                   PROVE  /\ last'[sdl_ring[i+1].dev] < sdl_ring[i+1].n
                          /\ sdl_ring[i+1].n <= Left(sdl_ring[i+1].dev)
        BY <3>1, <3>2, <3>5 DEF Between
      <4>1. i+1 \in DOMAIN sdl_ring /\ 1 < i+1
        BY <3>1
      <4>2. sdl_ring[i+1] \in Events
        BY <1>1, <4>1
      <4>3. sdl_ring[i+1].dev \in Devices
        BY <4>2, EventType
      <4>4. sdl_ring[i+1].dev = e.dev => e.n < sdl_ring[i+1].n
        BY <3>6, <3>7, <4>1 DEF Sorted, e
      <4> QED BY <3>4, <3>6, <4>1, <4>3, <4>4 DEF Between
    <3>11. Between(Unpushed)'
      <4> SUFFICES ASSUME NEW i \in DOMAIN Unpushed
                   PROVE  /\ last'[Unpushed[i].dev] < Unpushed[i].n
                          /\ Unpushed[i].n <= Left(Unpushed[i].dev)
        BY <2>2, <3>5 DEF Between
      <4>1. Unpushed[i] \in Events
        BY <1>1
      <4>2. Unpushed[i].dev \in Devices
        BY <4>1, EventType
      <4>3. Unpushed[i].dev = e.dev => e.n < Unpushed[i].n
        BY <3>6, <3>7 DEF Precedes, e
      <4> QED BY <3>4, <3>6, <4>2, <4>3 DEF Between
    <3>12. Precedes(sdl_ring', Unpushed')
      <4> SUFFICES ASSUME NEW i \in 1..n-1, NEW j \in DOMAIN Unpushed,
                          sdl_ring[i+1].dev = Unpushed[j].dev
                   PROVE  sdl_ring[i+1].n < Unpushed[j].n
        BY <2>2, <3>1, <3>2 DEF Precedes
      <4>1. i+1 \in DOMAIN sdl_ring
        BY <3>1
      <4> QED BY <3>6, <4>1 DEF Precedes
    <3>13. Sorted(Unpushed')
      BY <2>2, <3>6
    <3>14. Held'
      BY <1>1, <2>1, <3>5 DEF Held
    <3> QED
      BY <3>8, <3>9, <3>10, <3>11, <3>12, <3>13, <3>14, OnTheWayParts DEF Handled, Held, OnTheWay
  <2> QED BY <2>3, <2>4
<1>9. CASE PushPoll \/ Count
  <2>1. UNCHANGED <<sent, devq, last, sdl_ring>>
    BY <1>9, Zenon DEF PushPoll, Count, kernelVars, mainVars
  <2>2. UNCHANGED Unpushed
    BY <1>9 DEF PushPoll, Count, Unpushed, WorkerGoes
  <2> QED BY <1>3, <2>1, <2>2
<1>10. CASE WorkerTop \/ EpollWait \/ Sample \/ Signal \/ Again
  <2>1. UNCHANGED <<sent, devq, last, sdl_ring, batch>>
    BY <1>10, Zenon DEF WorkerTop, EpollWait, Sample, Signal, Again, kernelVars, mainVars, ringVars
  <2>2. worker \notin {"pushpoll", "count"} /\ worker' \notin {"pushpoll", "count"}
    BY <1>10, Zenon DEF WorkerTop, EpollWait, Sample, Signal, Again, WorkerGoes
  <2>3. UNCHANGED Unpushed
    BY <2>1, <2>2 DEF Unpushed
  <2> QED BY <1>3, <2>1, <2>3
<1>11. ASSUME \/ PollOrBlock \/ Unblock \/ QuitWake \/ QuitClose \/ QuitStop \/ PollRawEvents
              \/ \E w \in {"event", "timeout", "pump"} : Call(w)
              \/ UNCHANGED vars
       PROVE  OnTheWay'
  <2>1. UNCHANGED <<sent, devq, last, sdl_ring, batch, worker>>
    BY <1>11, Zenon DEF PollOrBlock, Unblock, QuitWake, QuitClose, QuitStop, Call, PollRawEvents,
                        vars, kernelVars, workerVars, mainVars, ringVars
  <2>2. UNCHANGED Unpushed
    BY <2>1 DEF Unpushed
  <2> QED BY <1>3, <2>1, <2>2
<1> QED
  BY <1>4, <1>5, <1>6, <1>7, <1>8, <1>9, <1>10, <1>11, Zenon DEF Next, Worker, MainStep, App

-----------------------------------------------------------------------------
LEMMA ConcatSorted ==
  ASSUME NEW s \in Seq(Events), NEW t \in Seq(Events), Sorted(s), Sorted(t), Precedes(s, t)
  PROVE  s \o t \in Seq(Events) /\ Sorted(s \o t)
<1> DEFINE m == Len(s)
           n == Len(t)
           u == s \o t
<1>1. /\ m \in Nat /\ n \in Nat /\ DOMAIN s = 1..m /\ DOMAIN t = 1..n /\ DOMAIN u = 1..m+n
      /\ u \in Seq(Events)
      /\ \A i \in 1..m+n : u[i] = IF i <= m THEN s[i] ELSE t[i-m]
  BY ConcatProperties, LenProperties
<1> HIDE DEF m, n, u
<1>2. ASSUME NEW i \in 1..m+n, NEW j \in 1..m+n, i < j, u[i].dev = u[j].dev
      PROVE  u[i].n < u[j].n
  <2>1. CASE j <= m
    <3>1. i \in DOMAIN s /\ j \in DOMAIN s /\ u[i] = s[i] /\ u[j] = s[j]
      BY <1>1, <1>2, <2>1
    <3> QED BY <1>2, <3>1 DEF Sorted
  <2>2. CASE i > m
    <3>1. j > m /\ m \in Nat /\ n \in Nat
      BY <1>1, <1>2, <2>2
    <3>2. i-m \in DOMAIN t /\ j-m \in DOMAIN t /\ i-m < j-m
      BY <1>1, <1>2, <2>2, <3>1
    <3>3. u[i] = t[i-m] /\ u[j] = t[j-m]
      BY <1>1, <2>2, <3>1
    <3> QED BY <1>2, <3>2, <3>3 DEF Sorted
  <2>3. CASE i <= m /\ j > m
    <3>1. i \in DOMAIN s /\ j-m \in DOMAIN t /\ u[i] = s[i] /\ u[j] = t[j-m]
      BY <1>1, <1>2, <2>3
    <3> QED BY <1>2, <3>1 DEF Precedes
  <2> QED BY <1>1, <2>1, <2>2, <2>3
<1>3. Sorted(u)
  BY <1>1, <1>2 DEF Sorted
<1> QED BY <1>1, <1>3 DEF u

LEMMA ConcatPrecedes ==
  ASSUME NEW s \in Seq(Events), NEW t \in Seq(Events), NEW q \in Seq(Events),
         Precedes(s, q), Precedes(t, q)
  PROVE  Precedes(s \o t, q)
<1> DEFINE m == Len(s)
           n == Len(t)
           u == s \o t
<1>1. /\ m \in Nat /\ n \in Nat /\ DOMAIN s = 1..m /\ DOMAIN t = 1..n /\ DOMAIN u = 1..m+n
      /\ \A i \in 1..m+n : u[i] = IF i <= m THEN s[i] ELSE t[i-m]
  BY ConcatProperties, LenProperties
<1> HIDE DEF m, n, u
<1>2. ASSUME NEW i \in 1..m+n, NEW j \in DOMAIN q, u[i].dev = q[j].dev
      PROVE  u[i].n < q[j].n
  <2>1. CASE i <= m
    <3>1. i \in DOMAIN s /\ u[i] = s[i]
      BY <1>1, <2>1
    <3> QED BY <1>2, <3>1 DEF Precedes
  <2>2. CASE i > m
    <3>1. i-m \in DOMAIN t /\ u[i] = t[i-m]
      BY <1>1, <2>2
    <3> QED BY <1>2, <3>1 DEF Precedes
  <2> QED BY <1>1, <2>1, <2>2
<1>3. Precedes(u, q)
  BY <1>1, <1>2 DEF Precedes
<1> QED BY <1>3 DEF u

LEMMA InvInOrder == ASSUME RawInv PROVE InOrder
<1>1. /\ QueuesOK /\ Held /\ Handled
      /\ Unpushed \in Seq(Events) /\ sdl_ring \in Seq(Events)
  BY UnpushedType, OnTheWayParts DEF RawInv, TypeOK, QueuesOK
<1> SUFFICES ASSUME NEW d \in Devices
             PROVE  /\ \A i \in DOMAIN Way(d) : Way(d)[i].dev = d => last[d] < Way(d)[i].n
                    /\ \A i, j \in DOMAIN Way(d) :
                         i < j /\ Way(d)[i].dev = d /\ Way(d)[j].dev = d => Way(d)[i].n < Way(d)[j].n
  BY DEF InOrder
<1> DEFINE q == devq[d]
           front == sdl_ring \o Unpushed
<1>2. /\ q \in Seq(Events) /\ DOMAIN q = 1..Len(q) /\ Len(q) \in Nat
      /\ sent[d] \in Nat /\ last[d] \in Nat /\ Left(d) \in Int /\ last[d] <= Left(d)
  BY <1>1, LeftType, LenProperties DEF Handled
<1> HIDE DEF q
<1>3. \A i \in DOMAIN q : q[i].dev = d /\ q[i].n = Left(d) + i
  <2> TAKE i \in DOMAIN q
  <2>1. q[i] = [dev |-> d, n |-> Left(d) + i]
    BY <1>1 DEF Held, q
  <2> QED BY <2>1
<1>4. Sorted(q)
  BY <1>2, <1>3 DEF Sorted
<1>5. ASSUME NEW s \in Seq(Events), Between(s)
      PROVE  Precedes(s, q)
  <2> SUFFICES ASSUME NEW i \in DOMAIN s, NEW j \in DOMAIN q, s[i].dev = q[j].dev
               PROVE  s[i].n < q[j].n
    BY DEF Precedes
  <2>1. s[i] \in Events
    BY <1>5
  <2>2. s[i].n \in Nat /\ s[i].n <= Left(d) /\ q[j].n = Left(d) + j
    BY <1>3, <1>5, <2>1, EventType DEF Between
  <2> QED BY <1>2, <2>2
<1>6. Precedes(sdl_ring, q) /\ Precedes(Unpushed, q)
  BY <1>1, <1>5 DEF Handled
<1>7. front \in Seq(Events) /\ Sorted(front)
  BY <1>1, ConcatSorted DEF Handled
<1>8. Precedes(front, q)
  BY <1>1, <1>2, <1>6, ConcatPrecedes
<1>9. Way(d) = front \o q
  BY DEF Way, q
<1>10. Sorted(Way(d))
  BY <1>2, <1>4, <1>7, <1>8, <1>9, ConcatSorted
<1>11. ASSUME NEW s \in Seq(Events), Between(s), NEW i \in DOMAIN s, s[i].dev = d
       PROVE  last[d] < s[i].n
  BY <1>11 DEF Between
<1>12. /\ \A i \in DOMAIN sdl_ring : sdl_ring[i].dev = d => last[d] < sdl_ring[i].n
       /\ \A i \in DOMAIN Unpushed : Unpushed[i].dev = d => last[d] < Unpushed[i].n
       /\ \A i \in DOMAIN q : last[d] < q[i].n
  BY <1>1, <1>2, <1>3, <1>11 DEF Handled
<1>13. ASSUME NEW s \in Seq(Events), NEW t \in Seq(Events),
              \A i \in DOMAIN s : s[i].dev = d => last[d] < s[i].n,
              \A i \in DOMAIN t : t[i].dev = d => last[d] < t[i].n
       PROVE  \A i \in DOMAIN (s \o t) : (s \o t)[i].dev = d => last[d] < (s \o t)[i].n
  <2> DEFINE m == Len(s)
             n == Len(t)
             u == s \o t
  <2>1. /\ m \in Nat /\ n \in Nat /\ DOMAIN s = 1..m /\ DOMAIN t = 1..n /\ DOMAIN u = 1..m+n
        /\ \A i \in 1..m+n : u[i] = IF i <= m THEN s[i] ELSE t[i-m]
    BY ConcatProperties, LenProperties
  <2> HIDE DEF m, n, u
  <2>2. ASSUME NEW i \in 1..m+n, u[i].dev = d PROVE last[d] < u[i].n
    <3>1. CASE i <= m
      BY <1>13, <2>1, <2>2, <3>1
    <3>2. CASE i > m
      <4>1. i-m \in DOMAIN t /\ u[i] = t[i-m]
        BY <2>1, <3>2
      <4> QED BY <1>13, <2>2, <4>1
    <3> QED BY <2>1, <3>1, <3>2
  <2>3. \A i \in DOMAIN u : u[i].dev = d => last[d] < u[i].n
    BY <2>1, <2>2
  <2> QED BY <2>3 DEF u
<1>14. \A i \in DOMAIN front : front[i].dev = d => last[d] < front[i].n
  BY <1>1, <1>12, <1>13
<1>15. \A i \in DOMAIN Way(d) : Way(d)[i].dev = d => last[d] < Way(d)[i].n
  BY <1>2, <1>7, <1>9, <1>12, <1>13, <1>14
<1> QED BY <1>10, <1>15 DEF Sorted

LEMMA RawInitOK == Init => RawInv
<1> SUFFICES ASSUME Init PROVE RawInv
  OBVIOUS
<1> USE RawAssumption
<1>1. QueuesOK
  BY EmptySeq DEF Init, QueuesOK
<1>2. CountsOK
  BY DEF Init, CountsOK
<1>3. PlacesOK
  BY DEF Init, PlacesOK
<1>4. FlagsOK
  <2>1. {control_fd, wake_fd, running, fds_open, was_empty, quit_requested} = {FALSE, TRUE}
    BY Zenon DEF Init
  <2> QED BY <2>1, Zenon DEF FlagsOK
<1>5. Accounting
  BY EmptySeq DEF Init, Accounting
<1>6. BatchAtHand
  BY DEF Init, BatchAtHand
<1>7. Closed
  BY Zenon DEF Init, Closed
<1>8. OnTheWay
  <2>1. sdl_ring = <<>> /\ Unpushed = <<>> /\ DOMAIN <<>> = {}
    BY DEF Init, Unpushed
  <2>2. \A d \in Devices : devq[d] = <<>> /\ sent[d] = 0 /\ last[d] = 0
    BY DEF Init
  <2>3. \A d \in Devices : Left(d) = 0
    BY <2>2, EmptySeq DEF Left
  <2> QED BY <2>1, <2>2, <2>3 DEF OnTheWay, Sorted, Between, Precedes
<1> QED BY <1>1, <1>2, <1>3, <1>4, <1>5, <1>6, <1>7, <1>8 DEF RawInv, TypeOK

LEMMA RawNextOK == RawInv /\ [Next]_vars => RawInv'
<1> SUFFICES ASSUME RawInv, [Next]_vars PROVE RawInv'
  OBVIOUS
<1>1. PlacesOK /\ FlagsOK /\ Closed
  BY DEF RawInv, TypeOK
<1>2. TypeOK'
  BY <1>1, QueuesStep, CountsStep, PlacesStep, FlagsStep DEF TypeOK
<1>3. QueuesOK'
  BY <1>2 DEF TypeOK
<1> QED
  BY <1>1, <1>2, <1>3, AccountingStep, BatchStep, ClosedStep, OrderStep DEF RawInv

THEOREM RawInvariant == Spec => []RawInv
BY RawInitOK, RawNextOK, PTL DEF Spec

(* src/internal/sdlop_evdev.c:201-243, for any devices, sizes of the rings,  *)
(* the reads and the batches: the main thread gets the events of a device in *)
(* the order the device sent them, and none twice.                           *)
THEOREM EventsStayInOrder == Spec => []InOrder
BY RawInvariant, InvInOrder, PTL

(* Every event the worker handled is in a ring, was popped or is counted as  *)
(* dropped, ring by ring, whatever fills up first.                           *)
THEOREM LossesAlwaysCounted == Spec => []LossesCounted
<1>1. RawInv => LossesCounted
  BY DEF RawInv, LossesCounted
<1> QED BY <1>1, RawInvariant, PTL

(* SDLOP_RawInputQuit closes no descriptor of a worker that still runs.      *)
THEOREM NeverUsedAfterClose == Spec => []NoUseAfterClose
<1>1. RawInv => NoUseAfterClose
  BY DEF RawInv, Closed, NoUseAfterClose
<1> QED BY <1>1, RawInvariant, PTL
=============================================================================
