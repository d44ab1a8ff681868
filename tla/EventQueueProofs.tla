--------------------------- MODULE EventQueueProofs ---------------------------
(***************************************************************************)
(* Proofs about the SDL event queue of EventQueue, for every queue size,   *)
(* every width of the counters that is a multiple of it, and any strings.  *)
(*                                                                         *)
(* The bytes of a string travel with the event they were pushed with: that *)
(* is the inductive fact (BytesIntact) behind OwnTextIntact.  It rests on  *)
(* the arithmetic of two counters that wrap: the difference of the         *)
(* counters is the number of queued events, and no two of them share a     *)
(* slot.  The last part shows the ring to implement the FIFO queue of      *)
(* EventFifo.                                                              *)
(***************************************************************************)
EXTENDS EventQueue, FiniteSetTheorems, SequenceTheorems, TLAPS

-----------------------------------------------------------------------------
(* Arithmetic of the counters. *)

Counters == 0..Width-1

LEMMA WidthFacts == Width \in Nat /\ Width >= 2 * Size /\ Size >= 1
<1>1. PICK laps \in 2..Width : Width = Size * laps
  BY QueueAssumption
<1>2. Width \in Int
  BY <1>1, QueueAssumption
<1>3. Size * laps >= Size * 2
  BY <1>1, <1>2, QueueAssumption
<1> QED BY <1>1, <1>2, <1>3, QueueAssumption

\* The remainder of a number within one turn of the counters.
LEMMA Wrapped ==
  ASSUME NEW n \in Int, -Width <= n, n < 2 * Width
  PROVE  n % Width = IF n < 0 THEN n + Width ELSE IF n < Width THEN n ELSE n - Width
BY WidthFacts

LEMMA CountIs ==
  ASSUME queue_head \in Counters, queue_tail \in Counters
  PROVE  queue_count = IF queue_tail <= queue_head THEN queue_head - queue_tail
                       ELSE queue_head - queue_tail + Width
BY Wrapped, WidthFacts DEF queue_count, Counters

LEMMA Ahead ==
  ASSUME NEW t \in Counters, NEW k \in 0..Width-1
  PROVE  (t + k) % Width = IF t + k < Width THEN t + k ELSE t + k - Width
BY Wrapped, WidthFacts DEF Counters

LEMMA AtIs ==
  ASSUME queue_tail \in Counters, NEW k \in 0..Width-1
  PROVE  /\ At(k) \in Counters
         /\ At(k) = IF queue_tail + k < Width THEN queue_tail + k
                    ELSE queue_tail + k - Width
BY Wrapped, WidthFacts DEF At, Counters

LEMMA SlotType ==
  ASSUME NEW i \in Counters
  PROVE  Slot(i) \in Slots
BY QueueAssumption, WidthFacts DEF Slot, Slots, Counters

\* Division with remainder, the fact about % that the next lemma needs.
LEMMA SlotQuotient ==
  ASSUME NEW i \in Counters
  PROVE  i \div Size \in Int /\ i = Size * (i \div Size) + Slot(i)
BY QueueAssumption, WidthFacts DEF Slot, Counters

(* The events of the queue, and the next one pushed, have different slots.   *)
LEMMA SlotsDiffer ==
  ASSUME queue_tail \in Counters, NEW j \in 0..Size-1, NEW k \in 0..Size-1, j < k
  PROVE  Slot(At(j)) # Slot(At(k))
<1> SUFFICES ASSUME Slot(At(j)) = Slot(At(k)) PROVE FALSE
  OBVIOUS
<1>1. PICK laps \in 2..Width : Width = Size * laps
  BY QueueAssumption
<1>2. /\ At(j) \in Counters /\ At(k) \in Counters
      /\ At(k) - At(j) = k - j \/ At(k) - At(j) = k - j - Width
  BY AtIs, WidthFacts, QueueAssumption DEF Counters
<1> DEFINE a == At(j) \div Size
           b == At(k) \div Size
<1>3. a \in Int /\ b \in Int /\ At(j) = Size * a + Slot(At(j)) /\ At(k) = Size * b + Slot(At(k))
  BY <1>2, SlotQuotient
<1> HIDE DEF a, b
<1>4. At(k) - At(j) = Size * (b - a)
  BY <1>2, <1>3, SlotType, QueueAssumption DEF Slots
<1>5. PICK c \in Int : k - j = Size * c
  <2>1. CASE At(k) - At(j) = k - j
    BY <1>3, <1>4, <2>1
  <2>2. CASE At(k) - At(j) = k - j - Width
    <3>1. k - j = Size * (b - a + laps)
      BY <1>1, <1>2, <1>3, <1>4, <2>2, QueueAssumption, WidthFacts DEF Counters
    <3>2. b - a + laps \in Int
      BY <1>1, <1>3, WidthFacts
    <3> QED BY <3>1, <3>2
  <2> QED BY <1>2, <2>1, <2>2
<1>6. c >= 1 => Size * c >= Size
  BY <1>5, QueueAssumption
<1>7. c <= 0 => Size * c <= 0
  BY <1>5, QueueAssumption
<1> QED BY <1>5, <1>6, <1>7, QueueAssumption

-----------------------------------------------------------------------------
(* The inductive invariant. *)

Queued == {Slot(At(k)) : k \in 0..queue_count-1}

BytesIntact ==
  \A s \in Queued : slot[s].said # Null => textbuf[s] = Cut(slot[s].said)

\* An event that points at a slot has a string.
Pointed(e) == e.text # Null => e.said # Null

QueueIInv ==
  /\ QueueInv
  /\ BytesIntact
  /\ \A s \in Slots : Pointed(slot[s])

LEMMA CutFits ==
  ASSUME NEW len \in Nat
  PROVE  Cut(len) \in 0..TextSize-1
BY QueueAssumption DEF Cut

LEMMA CountType ==
  ASSUME QueueInv
  PROVE  /\ queue_head \in Counters /\ queue_tail \in Counters
         /\ queue_count \in 0..Size
         /\ queue_head = At(queue_count)
<1>1. queue_head \in Counters /\ queue_tail \in Counters
  BY DEF QueueInv, TypeOK, Counters
<1>2. queue_count \in Int /\ queue_count >= 0
  BY <1>1, CountIs, WidthFacts DEF Counters
<1>3. queue_count \in 0..Size
  BY <1>2, QueueAssumption DEF QueueInv
<1>4. queue_head = At(queue_count)
  BY <1>1, <1>3, CountIs, AtIs, WidthFacts DEF Counters
<1> QED BY <1>1, <1>3, <1>4

LEMMA QueuedSlots ==
  ASSUME QueueInv, NEW k \in 0..queue_count-1
  PROVE  At(k) \in Counters /\ Slot(At(k)) \in Slots
<1>1. queue_tail \in Counters /\ k \in 0..Width-1
  BY CountType, WidthFacts, QueueAssumption
<1>2. At(k) \in Counters
  BY <1>1, AtIs
<1> QED BY <1>2, SlotType

LEMMA QueueInit == Init => QueueIInv
<1> SUFFICES ASSUME Init PROVE QueueIInv
  OBVIOUS
<1> USE QueueAssumption, WidthFacts DEF Init
<1>1. Blank \in Event /\ Pointed(Blank)
  BY DEF Blank, Event, Types, Pointed
<1>2. queue_count = 0
  BY CountIs DEF Counters
<1>3. QueueInv
  BY <1>1, <1>2 DEF QueueInv, TypeOK
<1>4. Queued = {}
  BY <1>2 DEF Queued
<1>5. \A s \in Slots : slot[s] = Blank
  OBVIOUS
<1> QED BY <1>1, <1>3, <1>4, <1>5 DEF QueueIInv, BytesIntact

-----------------------------------------------------------------------------
(* A push. *)

\* The counters after a push: one event more, the others where they were.
LEMMA PushCounters ==
  ASSUME QueueInv, HasRoom, queue_head' = (queue_head + 1) % Width, UNCHANGED queue_tail
  PROVE  /\ queue_head' \in Counters /\ queue_tail' \in Counters
         /\ queue_count' = queue_count + 1 /\ queue_count' <= Size
         /\ Queued' = Queued \cup {Slot(queue_head)}
<1> DEFINE n == queue_count
<1>1. /\ queue_head \in Counters /\ queue_tail \in Counters
      /\ n \in 0..Size-1 /\ queue_head = At(n)
  BY CountType, QueueAssumption DEF HasRoom
<1>2. queue_head' = IF queue_head + 1 < Width THEN queue_head + 1 ELSE 0
  BY <1>1, Wrapped, WidthFacts DEF Counters
<1>3. queue_head' \in Counters /\ queue_tail' \in Counters
  BY <1>1, <1>2, WidthFacts DEF Counters
<1>4. queue_count' = IF queue_tail' <= queue_head' THEN queue_head' - queue_tail'
                     ELSE queue_head' - queue_tail' + Width
  BY <1>3, Wrapped, WidthFacts DEF queue_count, Counters
<1>5. queue_count' = n + 1 /\ queue_count' <= Size
  <2>1. n = IF queue_tail <= queue_head THEN queue_head - queue_tail
            ELSE queue_head - queue_tail + Width
    BY <1>1, CountIs
  <2> HIDE DEF n
  <2>2. queue_tail' = queue_tail /\ n \in 0..Size-1
    BY <1>1
  <2>3. /\ Size \in Nat /\ Width \in Nat /\ Width > Size
        /\ queue_head \in 0..Width-1 /\ queue_tail \in 0..Width-1
    BY <1>1, WidthFacts, QueueAssumption DEF Counters
  <2>4. CASE queue_head + 1 < Width
    BY <1>2, <1>4, <2>1, <2>2, <2>3, <2>4
  <2>5. CASE queue_head + 1 = Width
    <3>1. queue_head' = 0 /\ queue_tail # 0
      BY <1>2, <2>1, <2>2, <2>3, <2>5
    <3> QED BY <1>4, <2>1, <2>2, <2>3, <2>5, <3>1
  <2> QED BY <2>2, <2>3, <2>4, <2>5
<1>6. Queued' = {Slot(At(k)) : k \in 0..n}
  <2>1. 0..queue_count'-1 = 0..n
    BY <1>1, <1>5
  <2> QED BY <2>1 DEF Queued, At, Slot
<1>7. 0..n = (0..n-1) \cup {n}
  BY <1>1
<1> HIDE DEF n
<1>8. Queued' = {Slot(At(k)) : k \in 0..n-1} \cup {Slot(At(n))}
  BY <1>6, <1>7
<1>9. Queued' = Queued \cup {Slot(queue_head)}
  BY <1>1, <1>8 DEF Queued, n
<1> QED BY <1>3, <1>5, <1>9 DEF n

LEMMA PushKeeps ==
  ASSUME QueueIInv, NEW type \in Types, NEW str \in Lengths \cup {Null},
         PushInternal(type, str), got' \in Event \cup {Nothing}
  PROVE  QueueIInv'
<1> DEFINE h == Slot(queue_head)
           text == type = TextInput /\ str # Null
           e == [type |-> type, text |-> IF text THEN h ELSE Null,
                 said |-> IF text THEN str ELSE Null]
<1>1. QueueInv /\ HasRoom /\ queue_head' = (queue_head + 1) % Width /\ UNCHANGED queue_tail
  BY DEF QueueIInv, PushInternal
<1>2. /\ queue_head' \in Counters /\ queue_tail' \in Counters
      /\ queue_count' = queue_count + 1 /\ queue_count' <= Size
      /\ Queued' = Queued \cup {h}
  BY <1>1, PushCounters
<1>3. h \in Slots /\ slot \in [Slots -> Event] /\ textbuf \in [Slots -> 0..TextSize-1]
  BY <1>1, CountType, SlotType DEF QueueInv, TypeOK
<1>4. str # Null => str \in Nat
  BY QueueAssumption DEF Lengths
<1>5. e \in Event /\ Pointed(e)
  BY <1>3, <1>4 DEF Event, Pointed
<1>6. slot' = [slot EXCEPT ![h] = e]
  BY DEF PushInternal
<1>7. textbuf' = IF text THEN [textbuf EXCEPT ![h] = Cut(str)] ELSE textbuf
  BY DEF PushInternal, CopyText
<1>8. e.said # Null => text /\ e.said = str
  OBVIOUS
<1> HIDE DEF e, text, h
<1>9. /\ slot' \in [Slots -> Event] /\ slot'[h] = e
      /\ \A s \in Slots \ {h} : slot'[s] = slot[s]
  BY <1>3, <1>5, <1>6
<1>10. /\ textbuf' \in [Slots -> 0..TextSize-1]
       /\ \A s \in Slots \ {h} : textbuf'[s] = textbuf[s]
       /\ text => textbuf'[h] = Cut(str)
  <2>1. text => Cut(str) \in 0..TextSize-1
    BY <1>4, CutFits DEF text
  <2> QED BY <1>3, <1>7, <2>1
<1>11. QueueInv'
  BY <1>2, <1>9, <1>10 DEF QueueInv, TypeOK, Counters, Event, Types, Lengths
<1>12. \A s \in Queued : s \in Slots /\ s # h
  <2> SUFFICES ASSUME NEW k \in 0..queue_count-1
               PROVE  Slot(At(k)) \in Slots /\ Slot(At(k)) # h
    BY DEF Queued
  <2>1. queue_tail \in Counters /\ queue_count \in 0..Size-1 /\ queue_head = At(queue_count)
    BY <1>1, CountType, QueueAssumption DEF HasRoom
  <2>2. k \in 0..Size-1 /\ k < queue_count
    BY <2>1, QueueAssumption
  <2>3. Slot(At(k)) # Slot(At(queue_count))
    BY <2>1, <2>2, SlotsDiffer
  <2> QED BY <1>1, <2>1, <2>3, QueuedSlots DEF h
<1>13. BytesIntact'
  <2> SUFFICES ASSUME NEW s \in Queued', slot'[s].said # Null
               PROVE  textbuf'[s] = Cut(slot'[s].said)
    BY DEF BytesIntact, Cut
  <2>1. CASE s = h
    BY <1>8, <1>9, <1>10, <2>1
  <2>2. CASE s # h
    BY <1>2, <1>9, <1>10, <1>12, <2>2 DEF QueueIInv, BytesIntact
  <2> QED BY <2>1, <2>2
<1>14. \A s \in Slots : Pointed(slot'[s])
  BY <1>5, <1>9 DEF QueueIInv
<1> QED BY <1>11, <1>13, <1>14 DEF QueueIInv, Pointed, Slots

-----------------------------------------------------------------------------
(* A poll. *)

\* The counters after a poll: one event less, the others a place earlier.
LEMMA PollCounters ==
  ASSUME QueueInv, queue_tail # queue_head, queue_tail' = (queue_tail + 1) % Width,
         UNCHANGED queue_head
  PROVE  /\ queue_tail \in Counters /\ queue_tail' \in Counters
         /\ queue_count \in 1..Size /\ queue_count' = queue_count - 1
         /\ \A k \in 0..queue_count-2 : At(k)' = At(k + 1)
<1> DEFINE n == queue_count
<1>2. /\ queue_head \in 0..Width-1 /\ queue_tail \in 0..Width-1
      /\ n = IF queue_tail <= queue_head THEN queue_head - queue_tail
             ELSE queue_head - queue_tail + Width
      /\ n \in 0..Size
  BY CountType, CountIs DEF Counters
<1>3. /\ n \in 1..Size /\ Size \in Nat /\ Width \in Nat /\ Width > Size
  BY <1>2, WidthFacts, QueueAssumption
<1>4. queue_tail' = IF queue_tail + 1 < Width THEN queue_tail + 1 ELSE 0
  BY <1>2, Wrapped, WidthFacts
<1>5. queue_tail' \in 0..Width-1
  BY <1>2, <1>3, <1>4
<1>6. queue_count' = IF queue_tail' <= queue_head THEN queue_head - queue_tail'
                     ELSE queue_head - queue_tail' + Width
  <2>1. queue_count' = (queue_head - queue_tail') % Width
    BY DEF queue_count
  <2> DEFINE d == queue_head - queue_tail'
  <2>2. d \in Int /\ -Width <= d /\ d < 2 * Width /\ (d < 0 <=> ~(queue_tail' <= queue_head))
        /\ d < Width
    BY <1>2, <1>3, <1>5
  <2>3. d % Width = IF d < 0 THEN d + Width ELSE d
    <3> HIDE DEF d
    <3> QED BY <2>2, Wrapped
  <2> QED BY <2>1, <2>2, <2>3
<1>7. queue_count' = n - 1
  <2> HIDE DEF n
  <2>1. CASE queue_tail + 1 < Width
    BY <1>2, <1>3, <1>4, <1>6, <2>1
  <2>2. CASE queue_tail + 1 = Width
    BY <1>2, <1>3, <1>4, <1>6, <2>2
  <2> QED BY <1>2, <1>3, <2>1, <2>2
<1>8. \A k \in 0..n-2 : At(k)' = At(k + 1)
  <2> SUFFICES ASSUME NEW k \in 0..n-2 PROVE At(k)' = At(k + 1)
    OBVIOUS
  <2>1. k + 1 \in 0..Width-1 /\ k \in 0..Width-1
    BY <1>3
  <2>2. At(k + 1) = IF queue_tail + (k + 1) < Width THEN queue_tail + (k + 1)
                    ELSE queue_tail + (k + 1) - Width
    BY <1>2, <2>1, AtIs DEF Counters
  <2>3. At(k)' = IF queue_tail' + k < Width THEN queue_tail' + k
                 ELSE queue_tail' + k - Width
    BY <1>5, <2>1, Ahead DEF At, Counters
  <2> QED BY <1>2, <1>3, <1>4, <2>1, <2>2, <2>3
<1> QED BY <1>2, <1>3, <1>5, <1>7, <1>8 DEF Counters

LEMMA PollKeeps ==
  ASSUME QueueIInv, NEW wanted \in BOOLEAN, PollEvent(wanted)
  PROVE  QueueIInv'
<1> DEFINE n == queue_count
<1>1. /\ QueueInv /\ queue_tail # queue_head
      /\ queue_tail' = (queue_tail + 1) % Width /\ UNCHANGED <<queue_head, slot, textbuf>>
  BY DEF QueueIInv, PollEvent
<1>2. /\ queue_tail \in Counters /\ queue_tail' \in Counters
      /\ n \in 1..Size /\ queue_count' = n - 1 /\ \A k \in 0..n-2 : At(k)' = At(k + 1)
  BY <1>1, PollCounters
<1>3. Size \in Nat /\ queue_head \in Counters
  BY <1>1, CountType, QueueAssumption
<1>9. Queued' \subseteq Queued
  <2> SUFFICES ASSUME NEW k \in 0..queue_count'-1 PROVE Slot(At(k)') \in Queued
    BY DEF Queued, Slot
  <2>1. k \in 0..n-2 /\ k + 1 \in 0..n-1
    BY <1>2, <1>3
  <2> QED BY <1>2, <2>1 DEF Queued
<1>10. got' \in Event \cup {Nothing}
  <2>1. Slot(queue_tail) \in Slots
    BY <1>2, SlotType
  <2> QED BY <1>1, <2>1 DEF PollEvent, QueueInv, TypeOK
<1>11. QueueInv'
  <2>1. queue_count' <= Size
    BY <1>2, <1>3
  <2> QED BY <1>1, <1>2, <1>10, <2>1 DEF QueueInv, TypeOK, Counters, Event, Types, Slots, Lengths
<1>12. BytesIntact'
  BY <1>1, <1>9 DEF QueueIInv, BytesIntact, Cut
<1> QED BY <1>1, <1>11, <1>12 DEF QueueIInv, Pointed, Slots

-----------------------------------------------------------------------------
(* A flush.  Every slot ends with its own content or with that of a queued   *)
(* event, bytes included, and no slot beyond the queue is added to it.       *)

\* The counters after a flush that keeps c events.
LEMMA FlushCounters ==
  ASSUME QueueInv, NEW c \in 0..queue_count, queue_head' = At(c), UNCHANGED queue_tail
  PROVE  /\ queue_head' \in Counters /\ queue_tail \in Counters /\ queue_count' = c
<1> DEFINE n == queue_count
<1>1. /\ queue_tail \in 0..Width-1 /\ n \in 0..Size
      /\ Size \in Nat /\ Width \in Nat /\ Width > Size
  BY CountType, WidthFacts, QueueAssumption DEF Counters
<1>n. c \in 0..n
  OBVIOUS
<1> HIDE DEF n
<1>2. /\ queue_head' \in 0..Width-1
      /\ queue_head' = IF queue_tail + c < Width THEN queue_tail + c
                       ELSE queue_tail + c - Width
  <2>1. c \in 0..Width-1
    BY <1>1, <1>n
  <2> QED BY <1>1, <2>1, AtIs DEF Counters
<1>3. queue_count' = IF queue_tail <= queue_head' THEN queue_head' - queue_tail
                     ELSE queue_head' - queue_tail + Width
  BY <1>1, <1>2, Wrapped, WidthFacts DEF queue_count
<1>4. queue_count' = c
  BY <1>1, <1>2, <1>3, <1>n
<1> QED BY <1>1, <1>2, <1>4 DEF Counters

LEMMA KeptFinite ==
  ASSUME QueueInv, NEW lo, NEW hi
  PROVE  /\ Kept(lo, hi) \in SUBSET (0..queue_count-1)
         /\ IsFiniteSet(Kept(lo, hi)) /\ Cardinality(Kept(lo, hi)) \in 0..queue_count
<1> DEFINE n == queue_count
           kept == Kept(lo, hi)
<1>1. n \in 0..Size /\ Size \in Nat
  BY CountType, QueueAssumption
<1>2. kept \in SUBSET (0..n-1)
  BY DEF Kept
<1> HIDE DEF kept, n
<1>3. IsFiniteSet(0..n-1) /\ Cardinality(0..n-1) = n
  BY <1>1, FS_Interval
<1>4. IsFiniteSet(kept) /\ Cardinality(kept) <= n
  BY <1>2, <1>3, FS_Subset
<1>5. Cardinality(kept) \in Nat
  BY <1>4, FS_CardinalityType
<1>6. Cardinality(kept) \in 0..n
  BY <1>1, <1>4, <1>5
<1> QED BY <1>2, <1>4, <1>6 DEF kept, n

LEMMA FlushKeeps ==
  ASSUME QueueIInv, NEW lo, NEW hi, FlushEvents(lo, hi)
  PROVE  QueueIInv'
<1> DEFINE n == queue_count
           kept == Kept(lo, hi)
           c == Cardinality(kept)
           Rank(k) == Cardinality({j \in kept : j < k})
           Source(s) == {k \in kept : Slot(At(Rank(k))) = s}
           Moved(f) == [s \in Slots |-> IF Source(s) = {} THEN f[s]
                                        ELSE f[Slot(At(CHOOSE k \in Source(s) : TRUE))]]
<1>1. /\ slot' = Moved(slot) /\ textbuf' = Moved(textbuf) /\ queue_head' = At(c)
      /\ UNCHANGED <<queue_tail, got>>
  BY DEF FlushEvents
<1>2. QueueInv /\ Size \in Nat /\ n \in 0..Size
  BY CountType, QueueAssumption DEF QueueIInv
<1>3. kept \in SUBSET (0..n-1) /\ c \in 0..n
  BY <1>2, KeptFinite
<1>4. queue_head' \in Counters /\ queue_tail \in Counters /\ queue_count' = c
  BY <1>1, <1>2, <1>3, FlushCounters
<1>5. \A s \in Slots : \E r \in Slots :
        /\ slot'[s] = slot[r] /\ textbuf'[s] = textbuf[r]
        /\ r = s \/ r \in Queued
  <2> SUFFICES ASSUME NEW s \in Slots
               PROVE  \E r \in Slots : /\ slot'[s] = slot[r] /\ textbuf'[s] = textbuf[r]
                                       /\ r = s \/ r \in Queued
    OBVIOUS
  <2>1. CASE Source(s) = {}
    BY <1>1, <2>1
  <2>2. CASE Source(s) # {}
    <3> DEFINE k == CHOOSE k \in Source(s) : TRUE
    <3>1. k \in 0..n-1
      <4>1. k \in Source(s)
        BY <2>2
      <4> QED BY <1>3, <4>1
    <3>2. Slot(At(k)) \in Slots /\ Slot(At(k)) \in Queued
      BY <1>2, <3>1, QueuedSlots DEF Queued
    <3>3. slot'[s] = slot[Slot(At(k))] /\ textbuf'[s] = textbuf[Slot(At(k))]
      BY <1>1, <2>2
    <3> QED BY <3>2, <3>3
  <2> QED BY <2>1, <2>2
<1>6. /\ slot \in [Slots -> Event] /\ textbuf \in [Slots -> 0..TextSize-1]
  BY <1>2 DEF QueueInv, TypeOK
<1>7. /\ slot' \in [Slots -> Event] /\ textbuf' \in [Slots -> 0..TextSize-1]
  <2>1. /\ slot' = [s \in Slots |-> slot'[s]] /\ textbuf' = [s \in Slots |-> textbuf'[s]]
    BY <1>1
  <2>2. \A s \in Slots : slot'[s] \in Event /\ textbuf'[s] \in 0..TextSize-1
    BY <1>5, <1>6
  <2> QED BY <2>1, <2>2
<1> HIDE DEF c, kept, Rank, Source, Moved
<1>10. Queued' \subseteq Queued
  <2> SUFFICES ASSUME NEW k \in 0..c-1 PROVE Slot(At(k)) \in Queued
    BY <1>1, <1>4 DEF Queued, Slot, At
  <2>1. k \in 0..n-1
    BY <1>2, <1>3
  <2> QED BY <2>1 DEF Queued
<1>11. QueueInv'
  <2>1. queue_count' <= Size
    BY <1>2, <1>3, <1>4
  <2> QED BY <1>1, <1>2, <1>4, <1>7, <2>1 DEF QueueInv, TypeOK, Counters, Event, Types, Slots, Lengths
<1>12. Queued \subseteq Slots
  BY <1>2, QueuedSlots DEF Queued
<1>13. BytesIntact'
  BY <1>5, <1>10, <1>12 DEF QueueIInv, BytesIntact, Cut
<1>14. \A s \in Slots : Pointed(slot'[s])
  BY <1>5 DEF QueueIInv
<1> QED BY <1>11, <1>13, <1>14 DEF QueueIInv, Pointed, Slots

-----------------------------------------------------------------------------
LEMMA QueueNext == QueueIInv /\ [Next]_vars => QueueIInv'
<1> SUFFICES ASSUME QueueIInv, [Next]_vars PROVE QueueIInv'
  OBVIOUS
<1>1. got \in Event \cup {Nothing} /\ textbuf \in [Slots -> 0..TextSize-1]
  BY DEF QueueIInv, QueueInv, TypeOK
<1>2. ASSUME NEW type \in Types, NEW str \in Strings \cup {Null}, PushEvent(type, str)
      PROVE  QueueIInv'
  BY <1>1, <1>2, PushKeeps DEF PushEvent, Lengths
<1>3. CASE PushBack
  <2> DEFINE str == IF got.text = Null THEN Null ELSE textbuf[got.text]
  <2>1. got.type \in Types /\ got.text \in Slots \cup {Null}
    BY <1>1, <1>3 DEF PushBack, Event
  <2>2. str \in Lengths \cup {Null}
    BY <1>1, <2>1 DEF Lengths
  <2>3. PushInternal(got.type, str) /\ got' = got
    BY <1>3 DEF PushBack
  <2> HIDE DEF str
  <2> QED BY <1>1, <2>1, <2>2, <2>3, PushKeeps
<1>4. ASSUME NEW wanted \in BOOLEAN, PollEvent(wanted)
      PROVE  QueueIInv'
  BY <1>4, PollKeeps
<1>5. ASSUME NEW lo \in Types, NEW hi \in Types, FlushEvents(lo, hi)
      PROVE  QueueIInv'
  BY <1>5, FlushKeeps
<1>6. CASE UNCHANGED vars
  BY <1>6 DEF vars, QueueIInv, QueueInv, TypeOK, BytesIntact, Queued, queue_count, At, Slot,
              Pointed, Cut, Event, Types, Slots, Lengths
<1> QED BY <1>2, <1>3, <1>4, <1>5, <1>6 DEF Next

LEMMA QueueInvariant == Spec => []QueueIInv
BY QueueInit, QueueNext, PTL DEF Spec

(* The counters never drift apart by more than the queue's size, for any     *)
(* number of turns of the 32-bit counters.                                  *)
THEOREM QueueInvHolds == Spec => []QueueInv
<1>1. QueueIInv => QueueInv
  BY DEF QueueIInv
<1> QED BY <1>1, QueueInvariant, PTL

(* A queued text event that points at its own slot reads its own string,     *)
(* over wraps, flushes, and pushes of events polled before.                 *)
THEOREM OwnTextIntactHolds == Spec => []OwnTextIntact
<1>1. QueueIInv => OwnTextIntact
  <2> SUFFICES ASSUME QueueIInv, NEW k \in 0..queue_count-1,
                      slot[Slot(At(k))].text = Slot(At(k))
               PROVE  textbuf[Slot(At(k))] = Cut(slot[Slot(At(k))].said)
    BY DEF OwnTextIntact
  <2>1. Slot(At(k)) \in Slots /\ Slot(At(k)) \in Queued
    BY QueuedSlots DEF QueueIInv, Queued
  <2>2. Slot(At(k)) # Null
    BY <2>1, QueueAssumption DEF Slots
  <2> QED BY <2>1, <2>2 DEF QueueIInv, BytesIntact, Pointed
<1> QED BY <1>1, QueueInvariant, PTL

-----------------------------------------------------------------------------
(* The refinement of the bounded FIFO.  What it holds is read off the slots: *)
(* a push appends a slot, a poll drops the first, and a flush moves every    *)
(* kept event to the place of its rank among the kept ones.                 *)

(* Counting the smaller elements numbers a finite set of integers from 0 on, *)
(* in its order.                                                             *)
LEMMA RankNumbers ==
  ASSUME NEW K \in SUBSET Int, IsFiniteSet(K), NEW R,
         R = [k \in K |-> Cardinality({j \in K : j < k})]
  PROVE  /\ Cardinality(K) \in Nat
         /\ \A k \in K : R[k] \in 0..Cardinality(K)-1
         /\ \A j, k \in K : j < k => R[j] < R[k]
         /\ \A i \in 0..Cardinality(K)-1 : \E k \in K : R[k] = i
<1> DEFINE Below(k) == {j \in K : j < k}
           c == Cardinality(K)
<1>1. c \in Nat
  BY FS_CardinalityType
<1>2. ASSUME NEW k \in K
      PROVE  IsFiniteSet(Below(k)) /\ Cardinality(Below(k)) \in Nat /\ R[k] = Cardinality(Below(k))
  <2>1. Below(k) \in SUBSET K
    OBVIOUS
  <2> QED BY <2>1, FS_Subset, FS_CardinalityType
<1>3. ASSUME NEW k \in K PROVE R[k] \in 0..c-1
  <2>1. Below(k) \in SUBSET K /\ Below(k) # K
    OBVIOUS
  <2>2. Cardinality(Below(k)) <= c /\ Cardinality(Below(k)) # c
    BY <2>1, FS_Subset
  <2> HIDE DEF Below, c
  <2> QED BY <1>1, <1>2, <2>2
<1>4. ASSUME NEW j \in K, NEW k \in K, j < k PROVE R[j] < R[k]
  <2>1. Below(j) \cup {j} \in SUBSET Below(k) /\ j \notin Below(j)
    <3>1. j \in Int /\ k \in Int /\ \A x \in K : x \in Int
      OBVIOUS
    <3>2. \A x \in K : x < j => x < k
      BY <1>4, <3>1
    <3>3. ~(j < j)
      BY <3>1
    <3> QED BY <1>4, <3>2, <3>3
  <2>2. Cardinality(Below(j) \cup {j}) = Cardinality(Below(j)) + 1
    BY <1>2, <2>1, FS_AddElement
  <2>3. Cardinality(Below(j) \cup {j}) <= Cardinality(Below(k))
    BY <1>2, <2>1, FS_Subset
  <2> HIDE DEF Below
  <2> QED BY <1>2, <2>2, <2>3
<1>5. ASSUME NEW i \in 0..c-1 PROVE \E k \in K : R[k] = i
  <2>1. \A j, k \in K : R[j] = R[k] => j = k
    <3> SUFFICES ASSUME NEW j \in K, NEW k \in K, R[j] = R[k], j # k PROVE FALSE
      OBVIOUS
    <3>1. j < k \/ k < j
      OBVIOUS
    <3>2. R[j] \in Int /\ R[k] \in Int
      BY <1>1, <1>3
    <3>3. R[j] < R[k] \/ R[k] < R[j]
      BY <1>4, <3>1
    <3> QED BY <3>2, <3>3
  <2> HIDE DEF c
  <2>2. R \in Injection(K, 0..c-1)
    <3>1. R \in [K -> 0..c-1]
      BY <1>3
    <3> QED BY <2>1, <3>1 DEF Injection, IsInjective
  <2>3. IsFiniteSet(0..c-1) /\ Cardinality(0..c-1) = c
    BY <1>1, FS_Interval
  <2>4. Cardinality(K) = Cardinality(0..c-1)
    BY <2>3 DEF c
  <2>5. R \in Surjection(K, 0..c-1)
    BY <2>2, <2>3, <2>4, FS_Injection
  <2> QED BY <2>5 DEF Surjection
<1> QED BY <1>1, <1>3, <1>4, <1>5

\* What a slot shows of the queue
SeenAt(k) == Seen(slot[Slot(At(k))])

LEMMA SeenType ==
  ASSUME NEW e \in Event PROVE Seen(e) = [type |-> e.type, said |-> e.said] /\ Seen(e) \in SeenEvent
BY NothingAssumption DEF Seen, SeenEvent, Event

LEMMA PendingSeq ==
  ASSUME QueueInv
  PROVE  /\ Pending \in Seq(SeenEvent) /\ Len(Pending) = queue_count
         /\ queue_count \in 0..Size
         /\ \A k \in 0..queue_count-1 : /\ slot[Slot(At(k))] \in Event
                                        /\ Pending[k+1] = SeenAt(k)
<1>1. queue_count \in 0..Size /\ Size \in Nat
  BY CountType, QueueAssumption
<1>2. \A k \in 0..queue_count-1 : slot[Slot(At(k))] \in Event
  BY QueuedSlots DEF QueueInv, TypeOK
<1>3. \A k \in 1..queue_count : Seen(slot[Slot(At(k-1))]) \in SeenEvent
  <2> TAKE k \in 1..queue_count
  <2>1. k-1 \in 0..queue_count-1
    BY <1>1
  <2> QED BY <1>2, <2>1, SeenType
<1> DEFINE n == queue_count
<1>4. Pending \in [1..n -> SeenEvent]
  BY <1>3 DEF Pending
<1>5. \A k \in 0..n-1 : Pending[k+1] = SeenAt(k)
  <2> TAKE k \in 0..n-1
  <2>1. k+1 \in 1..n /\ (k+1)-1 = k
    BY <1>1
  <2> QED BY <2>1 DEF Pending, SeenAt
<1> HIDE DEF n
<1>6. n \in Nat
  BY <1>1 DEF n
<1>7. Pending \in Seq(SeenEvent) /\ Len(Pending) = n
  BY <1>4, <1>6
<1> QED BY <1>1, <1>2, <1>5, <1>7 DEF n

LEMMA FifoInit == Init => Fifo!Init
<1> SUFFICES ASSUME Init PROVE Fifo!Init
  OBVIOUS
<1>1. QueueInv
  BY QueueInit DEF QueueIInv
<1>2. queue_count = 0
  <2>1. queue_head \in Counters /\ queue_tail \in Counters /\ queue_head = 0 /\ queue_tail = 0
    BY WidthFacts, QueueAssumption DEF Init, Counters
  <2> QED BY <2>1, CountIs
<1>3. Pending = <<>>
  BY <1>1, <1>2, PendingSeq, EmptySeq
<1> QED BY <1>3 DEF Init, Fifo!Init, Seen

(* A push appends what was pushed.                                           *)
LEMMA PushRefines ==
  ASSUME QueueIInv, NEW type \in Types, NEW str \in Lengths \cup {Null},
         PushInternal(type, str), got' = got
  PROVE  Fifo!Next
<1> DEFINE h == Slot(queue_head)
           n == queue_count
           text == type = TextInput /\ str # Null
           e == [type |-> type, text |-> IF text THEN h ELSE Null,
                 said |-> IF text THEN str ELSE Null]
<1>1. /\ QueueInv /\ queue_head' = (queue_head + 1) % Width /\ queue_tail' = queue_tail
      /\ HasRoom /\ slot' = [slot EXCEPT ![h] = e]
  BY DEF QueueIInv, PushInternal
<1>2. queue_count' = n + 1 /\ n \in 0..Size-1 /\ queue_head = At(n) /\ queue_tail \in Counters
  BY <1>1, PushCounters, CountType, QueueAssumption DEF HasRoom
<1>3. h \in Slots /\ slot \in [Slots -> Event] /\ h = Slot(At(n))
  BY <1>1, <1>2, CountType, SlotType DEF QueueInv, TypeOK
<1>4. e \in Event
  BY <1>3 DEF Event
<1>5. \A k \in 0..n : At(k)' = At(k)
  BY <1>1 DEF At
<1> HIDE DEF e, n, h
<1>6. \A k \in 0..n-1 : slot'[Slot(At(k))] = slot[Slot(At(k))]
  <2> TAKE k \in 0..n-1
  <2>1. k \in 0..Size-1 /\ k < n
    BY <1>2, QueueAssumption
  <2>2. Slot(At(k)) # h
    BY <1>2, <1>3, <2>1, SlotsDiffer
  <2>3. Slot(At(k)) \in Slots
    BY <1>1, QueuedSlots DEF n
  <2> QED BY <1>1, <1>3, <2>2, <2>3
<1>7. slot'[Slot(At(n))] = e
  BY <1>1, <1>3
<1>8. Pending \in Seq(SeenEvent) /\ Len(Pending) = n /\ Seen(e) \in SeenEvent
  BY <1>1, <1>4, PendingSeq, SeenType DEF n
<1>9. Pending' = [k \in 1..n+1 |-> Seen(slot'[Slot(At(k-1))])]
  BY <1>1, <1>2 DEF Pending, At, Slot, Seen, n
<1>10. Pending' = Append(Pending, Seen(e))
  <2> DEFINE t == Append(Pending, Seen(e))
  <2>1. t \in Seq(SeenEvent) /\ Len(t) = n+1
    BY <1>8, AppendProperties
  <2>2. \A k \in 1..n+1 : t[k] = IF k = n+1 THEN Seen(e) ELSE Pending[k]
    BY <1>2, <1>8, AppendProperties
  <2> HIDE DEF t
  <2>3. t = [k \in 1..n+1 |-> t[k]]
    BY <2>1, LenProperties
  <2>4. ASSUME NEW k \in 1..n+1 PROVE t[k] = Seen(slot'[Slot(At(k-1))])
    <3>1. CASE k = n+1
      <4>1. k-1 = n
        BY <1>2, <3>1
      <4> QED BY <1>7, <2>2, <3>1, <4>1
    <3>2. CASE k # n+1
      <4>1. k \in 1..n /\ k-1 \in 0..n-1
        BY <1>2, <3>2
      <4>2. t[k] = Seen(slot[Slot(At(k-1))])
        BY <2>2, <3>2, <4>1 DEF Pending, n
      <4> QED BY <1>6, <4>1, <4>2
    <3> QED BY <3>1, <3>2
  <2>5. t = Pending'
    BY <1>9, <2>3, <2>4
  <2> QED BY <2>5 DEF t
<1>11. Fifo!Push(Seen(e))
  <2>1. Len(Pending) < Size
    BY <1>1, <1>8 DEF HasRoom, n
  <2>2. Seen(got)' = Seen(got)
    BY DEF Seen
  <2> QED BY <1>10, <2>1, <2>2 DEF Fifo!Push
<1> QED BY <1>8, <1>11 DEF Fifo!Next

(* A poll takes the head, and the application sees it, or drops it.          *)
LEMMA PollRefines ==
  ASSUME QueueIInv, NEW wanted \in BOOLEAN, PollEvent(wanted)
  PROVE  Fifo!Next
<1> DEFINE n == queue_count
<1>1. /\ QueueInv /\ queue_tail # queue_head /\ slot' = slot
      /\ queue_tail' = (queue_tail + 1) % Width /\ UNCHANGED queue_head
  BY DEF QueueIInv, PollEvent
<1>2. /\ n \in 1..Size /\ queue_count' = n-1 /\ queue_tail \in Counters
      /\ \A k \in 0..n-2 : At(k)' = At(k+1)
  BY <1>1, PollCounters
<1>3. /\ Pending \in Seq(SeenEvent) /\ Len(Pending) = n
      /\ \A k \in 0..n-1 : slot[Slot(At(k))] \in Event /\ Pending[k+1] = SeenAt(k)
  BY <1>1, PendingSeq
<1>4. Size \in Nat
  BY QueueAssumption
<1>5. queue_tail = At(0)
  BY <1>2, AtIs, WidthFacts DEF Counters
<1>6. Pending' = [k \in 1..n-1 |-> Seen(slot[Slot(At(k-1)')])]
  BY <1>1, <1>2 DEF Pending, At, Slot, Seen
<1> HIDE DEF n
<1>7. Pending # <<>> /\ Head(Pending) = SeenAt(0)
  <2>1. Pending # <<>> /\ 0 \in 0..n-1
    BY <1>2, <1>3, <1>4, EmptySeq
  <2>2. Head(Pending) = Pending[0+1]
    BY <1>3, <2>1, HeadTailProperties
  <2> QED BY <1>3, <2>1, <2>2
<1>8. Pending' = Tail(Pending)
  <2> DEFINE t == Tail(Pending)
  <2>1. t \in Seq(SeenEvent) /\ Len(t) = n-1
    BY <1>3, <1>7, HeadTailProperties
  <2>2. \A k \in 1..n-1 : t[k] = Pending[k+1]
    BY <1>3, <1>7, <2>1, HeadTailProperties
  <2> HIDE DEF t
  <2>3. t = [k \in 1..n-1 |-> t[k]]
    BY <2>1, LenProperties
  <2>4. ASSUME NEW k \in 1..n-1 PROVE t[k] = Seen(slot[Slot(At(k-1)')])
    <3>1. k \in 0..n-1 /\ k-1 \in 0..n-2 /\ (k-1)+1 = k
      BY <1>2, <1>4
    <3>2. t[k] = SeenAt(k)
      BY <1>3, <2>2, <3>1
    <3>3. At(k-1)' = At(k)
      BY <1>2, <3>1
    <3> QED BY <3>2, <3>3 DEF SeenAt
  <2>5. t = Pending'
    BY <1>6, <2>3, <2>4
  <2> QED BY <2>5 DEF t
<1>9. CASE wanted
  <2>1. got' = slot[Slot(At(0))]
    BY <1>5, <1>9 DEF PollEvent
  <2>2. Seen(got)' = SeenAt(0)
    BY <2>1 DEF Seen, SeenAt
  <2>3. Fifo!Poll
    BY <1>7, <1>8, <2>2 DEF Fifo!Poll
  <2> QED BY <2>3 DEF Fifo!Next
<1>10. CASE ~wanted
  <2>1. Seen(got)' = Seen(got)
    BY <1>10 DEF PollEvent, Seen
  <2>2. Fifo!Discard
    BY <1>7, <1>8, <2>1 DEF Fifo!Discard
  <2> QED BY <2>2 DEF Fifo!Next
<1> QED BY <1>9, <1>10

(* A flush keeps the events of the other types, in their order.              *)
LEMMA FlushRefines ==
  ASSUME QueueIInv, NEW lo \in Types, NEW hi \in Types, FlushEvents(lo, hi)
  PROVE  Fifo!Next
<1> DEFINE n == queue_count
           kept == Kept(lo, hi)
           c == Cardinality(kept)
           Rank(k) == Cardinality({j \in kept : j < k})
           R == [k \in kept |-> Cardinality({j \in kept : j < k})]
           Source(s) == {k \in kept : Slot(At(Rank(k))) = s}
           Moved == [s \in Slots |-> IF Source(s) = {} THEN slot[s]
                                     ELSE slot[Slot(At(CHOOSE k \in Source(s) : TRUE))]]
           shown == {k \in DOMAIN Pending :
                       ~(lo <= Pending[k].type /\ Pending[k].type <= hi)}
<1>1. QueueInv /\ slot' = Moved /\ queue_head' = At(c) /\ queue_tail' = queue_tail /\ got' = got
  BY DEF QueueIInv, FlushEvents
<1>2. /\ Pending \in Seq(SeenEvent) /\ Len(Pending) = n /\ n \in 0..Size /\ Size \in Nat
      /\ \A k \in 0..n-1 : slot[Slot(At(k))] \in Event /\ Pending[k+1] = SeenAt(k)
  BY <1>1, PendingSeq, QueueAssumption
<1>3. kept \in SUBSET (0..n-1) /\ IsFiniteSet(kept) /\ c \in 0..n
  BY <1>1, KeptFinite
<1>4. kept = {k \in 0..n-1 : ~(lo <= slot[Slot(At(k))].type /\ slot[Slot(At(k))].type <= hi)}
  BY DEF Kept
<1>5. \A k \in 0..n-1 : Pending[k+1].type = slot[Slot(At(k))].type
  BY <1>2, SeenType DEF SeenAt
<1>6. /\ \A k \in kept : R[k] \in 0..c-1
      /\ \A j, k \in kept : j < k => R[j] < R[k]
      /\ \A i \in 0..c-1 : \E k \in kept : R[k] = i
  <2>1. kept \in SUBSET Int
    BY <1>3
  <2> HIDE DEF kept
  <2> QED BY <1>3, <2>1, RankNumbers
<1>7. queue_count' = c /\ queue_tail \in Counters
  BY <1>1, <1>3, FlushCounters
<1>r. \A k \in kept : Rank(k) = R[k]
  OBVIOUS
<1> HIDE DEF kept, c, n, R, Rank
<1>8. \A j, k \in kept : R[j] = R[k] => j = k
  <2> SUFFICES ASSUME NEW j \in kept, NEW k \in kept, R[j] = R[k], j # k PROVE FALSE
    OBVIOUS
  <2>1. j \in Int /\ k \in Int /\ R[j] \in Int
    BY <1>3, <1>6
  <2>2. j < k \/ k < j
    BY <2>1
  <2>3. R[j] < R[k] \/ R[k] < R[j]
    BY <1>6, <2>2
  <2> QED BY <2>1, <2>3
\* Every kept event moves to the place of its rank.
<1>9. ASSUME NEW k \in kept PROVE slot'[Slot(At(R[k]))] = slot[Slot(At(k))]
  <2> DEFINE s == Slot(At(R[k]))
  <2>1. R[k] \in 0..n-1
    BY <1>2, <1>3, <1>6
  <2>2. s \in Slots
    BY <1>1, <2>1, QueuedSlots DEF n
  <2>3. ASSUME NEW j \in kept, Slot(At(R[j])) = s PROVE j = k
    <3>1. R[j] \in 0..Size-1 /\ R[k] \in 0..Size-1
      BY <1>2, <1>3, <1>6
    <3>2. R[j] < R[k] => Slot(At(R[j])) # Slot(At(R[k]))
      BY <1>7, <3>1, SlotsDiffer
    <3>3. R[k] < R[j] => Slot(At(R[j])) # Slot(At(R[k]))
      BY <1>7, <3>1, SlotsDiffer
    <3>4. R[j] = R[k]
      BY <2>3, <3>1, <3>2, <3>3
    <3> QED BY <1>8, <3>4
  <2>4. Source(s) = {k}
    BY <1>r, <2>3
  <2>5. (CHOOSE j \in Source(s) : TRUE) = k
    BY <2>4
  <2> QED BY <1>1, <2>2, <2>4, <2>5
\* The same events are kept by the FIFO.
<1>10. shown = {k + 1 : k \in kept}
  <2>1. DOMAIN Pending = 1..n
    BY <1>2, LenProperties
  <2>2. ASSUME NEW k \in 1..n PROVE k \in shown <=> k-1 \in kept
    <3>1. k-1 \in 0..n-1 /\ (k-1)+1 = k
      BY <1>2
    <3>2. Pending[k].type = slot[Slot(At(k-1))].type
      BY <1>5, <3>1
    <3> QED BY <1>4, <2>1, <3>1, <3>2
  <2>3. \A k \in kept : k+1 \in 1..n /\ (k+1)-1 = k
    BY <1>2, <1>3
  <2>4. \A k \in 1..n : k = (k-1)+1
    OBVIOUS
  <2>5. shown \in SUBSET (1..n)
    BY <2>1
  <2> HIDE DEF shown
  <2>6. shown \in SUBSET {k + 1 : k \in kept}
    BY <2>2, <2>4, <2>5
  <2>7. \A k \in kept : k+1 \in shown
    <3> TAKE k \in kept
    <3>1. k+1 \in 1..n /\ (k+1)-1 \in kept
      BY <2>3
    <3> QED BY <2>2, <3>1
  <2> QED BY <2>6, <2>7
<1> DEFINE from(i) == CHOOSE k \in kept : R[k] = i-1
           was == [i \in 1..c |-> from(i) + 1]
<1>12. \A i \in 1..c : from(i) \in kept /\ R[from(i)] = i-1
  <2> TAKE i \in 1..c
  <2>1. i-1 \in 0..c-1
    BY <1>2, <1>3
  <2> QED BY <1>6, <2>1
<1> HIDE DEF from, shown, Source, Moved
<1>13. was \in [1..c -> shown]
  BY <1>10, <1>12
<1>14. ASSUME NEW i \in 1..c, NEW j \in 1..c, i < j PROVE was[i] < was[j]
  <2>0. /\ from(i) \in kept /\ from(j) \in kept
        /\ R[from(i)] = i-1 /\ R[from(j)] = j-1
    BY <1>12
  <2>1. /\ from(i) \in Int /\ from(j) \in Int /\ from(i) \in kept /\ from(j) \in kept
        /\ R[from(i)] = i-1 /\ R[from(j)] = j-1
    <3>1. \A k \in kept : k \in Int
      BY <1>3
    <3> QED BY <2>0, <3>1
  <2>2. ~(from(j) < from(i)) /\ from(i) # from(j)
    <3>1. i - 1 < j - 1 /\ ~(j - 1 < i - 1) /\ i - 1 # j - 1
      BY <1>14
    <3> QED BY <1>6, <2>1, <3>1
  <2>3. from(i) + 1 < from(j) + 1
    BY <2>1, <2>2
  <2> QED BY <2>3
<1>15. Pending' = [i \in 1..c |-> Pending[was[i]]]
  <2>1. Pending' = [i \in 1..c |-> Seen(slot'[Slot(At(i-1))])]
    BY <1>1, <1>7 DEF Pending, At, Slot, Seen
  <2>2. ASSUME NEW i \in 1..c PROVE Seen(slot'[Slot(At(i-1))]) = Pending[was[i]]
    <3>1. from(i) \in kept /\ R[from(i)] = i-1 /\ from(i) \in 0..n-1
      BY <1>3, <1>12
    <3>2. slot'[Slot(At(i-1))] = slot[Slot(At(from(i)))]
      BY <1>9, <3>1
    <3>3. Pending[was[i]] = SeenAt(from(i))
      BY <1>2, <3>1
    <3> QED BY <3>2, <3>3 DEF SeenAt
  <2> HIDE DEF was
  <2> QED BY <2>1, <2>2
<1>16. ASSUME NEW k \in shown PROVE \E i \in 1..c : was[i] = k
  <2>1. PICK j \in kept : k = j + 1
    BY <1>10
  <2>2. R[j] + 1 \in 1..c /\ (R[j] + 1) - 1 = R[j]
    BY <1>2, <1>3, <1>6
  <2>3. from(R[j] + 1) = j
    BY <1>8, <1>12, <2>2
  <2> QED BY <2>1, <2>2, <2>3
<1>17. Fifo!Flush(lo, hi)
  <2>1. c \in 0..Len(Pending) /\ Seen(got)' = Seen(got)
    BY <1>1, <1>2, <1>3 DEF Seen
  <2> HIDE DEF was
  <2> QED BY <1>13, <1>14, <1>15, <1>16, <2>1 DEF Fifo!Flush, shown
<1>18. Types \in SUBSET {e.type : e \in SeenEvent}
  <2> SUFFICES ASSUME NEW t \in Types PROVE \E e \in SeenEvent : t = e.type
    OBVIOUS
  <2>1. [type |-> t, said |-> Null] \in SeenEvent
    BY DEF SeenEvent
  <2> QED BY <2>1
<1>19. lo \in {e.type : e \in SeenEvent} /\ hi \in {e.type : e \in SeenEvent}
  BY <1>18
<1> QED BY <1>17, <1>19 DEF Fifo!Next

LEMMA FifoNext == QueueIInv /\ [Next]_vars => [Fifo!Next]_<<Pending, Seen(got)>>
<1> SUFFICES ASSUME QueueIInv, [Next]_vars PROVE [Fifo!Next]_<<Pending, Seen(got)>>
  OBVIOUS
<1>1. got \in Event \cup {Nothing} /\ textbuf \in [Slots -> 0..TextSize-1]
  BY DEF QueueIInv, QueueInv, TypeOK
<1>2. ASSUME NEW type \in Types, NEW str \in Strings \cup {Null}, PushEvent(type, str)
      PROVE  Fifo!Next
  BY <1>2, PushRefines DEF PushEvent, Lengths
<1>3. ASSUME PushBack PROVE Fifo!Next
  <2> DEFINE str == IF got.text = Null THEN Null ELSE textbuf[got.text]
  <2>1. got.type \in Types /\ got.text \in Slots \cup {Null}
    BY <1>1, <1>3 DEF PushBack, Event
  <2>2. str \in Lengths \cup {Null}
    BY <1>1, <2>1 DEF Lengths
  <2>3. PushInternal(got.type, str) /\ got' = got
    BY <1>3 DEF PushBack
  <2> HIDE DEF str
  <2> QED BY <2>1, <2>2, <2>3, PushRefines
<1>4. CASE UNCHANGED vars
  BY <1>4 DEF vars, Pending, Seen, queue_count, At, Slot
<1> QED BY <1>2, <1>3, <1>4, PollRefines, FlushRefines DEF Next

(* The ring of slots and wrapping counters is a bounded queue that keeps     *)
(* order: a push appends, a poll takes the oldest, and a flush removes the   *)
(* events of its range and no other, whatever slots they lie in.            *)
THEOREM QueueImplementsFifo == Spec => ImplementsEventFifo
BY FifoInit, FifoNext, QueueInvariant, PTL DEF Spec, ImplementsEventFifo, Fifo!Spec
=============================================================================
