------------------------------ MODULE MouseProofs ------------------------------
(***************************************************************************)
(* Proofs about Mouse, for any number of windows of any width and any      *)
(* rings.  That the position stays inside the window with the pointer is   *)
(* not inductive: the far edge gives way to the position last reported, so *)
(* that must be inside as well; and putting the position right takes what  *)
(* the compositor sent, so what is under way must be about the window the  *)
(* pointer will be on when it is handled (Chained).                        *)
(*                                                                         *)
(* What is told once is counted: a sum over the messages under way is a    *)
(* difference of cardinalities, so that a message more or less changes it  *)
(* by its own amount.  That movement is told once rests on Quiet, and      *)
(* where the position ends on WireMoves: the frames on their way lead from *)
(* the position to where the pointer is.  The wheel is not proved about:   *)
(* of most kernels and compositors it is not told once.                    *)
(***************************************************************************)
EXTENDS Mouse, SequenceTheorems, FiniteSetTheorems, TLAPS

-----------------------------------------------------------------------------
(* What is under way. *)

Crossing == {"enter", "leave"}

\* Every frame is about the window the frame before it was about.
Chained(s, focus) ==
  \A i \in 1..Len(s) :
    s[i].kind \notin Crossing => s[i].win = IF i = 1 THEN focus ELSE s[i-1].win

EndsOn(s, focus) == IF s = <<>> THEN focus ELSE s[Len(s)].win

LEMMA AppendChained ==
  ASSUME NEW s \in Seq(Frames), NEW focus, NEW e \in Frames, Chained(s, focus),
         e.kind \notin Crossing => e.win = EndsOn(s, focus)
  PROVE  /\ Append(s, e) \in Seq(Frames) /\ Len(Append(s, e)) = Len(s) + 1
         /\ Chained(Append(s, e), focus)
         /\ EndsOn(Append(s, e), focus) = e.win
<1> DEFINE t == Append(s, e)
<1>1. /\ t \in Seq(Frames) /\ Len(t) = Len(s) + 1 /\ Len(s) \in Nat
      /\ \A i \in 1..Len(s) : t[i] = s[i]
      /\ t[Len(s) + 1] = e /\ t # <<>>
  BY AppendProperties, LenProperties
<1>2. s = <<>> <=> Len(s) = 0
  BY EmptySeq
<1> HIDE DEF t
<1>3. ASSUME NEW i \in 1..Len(t), t[i].kind \notin Crossing
      PROVE  t[i].win = IF i = 1 THEN focus ELSE t[i-1].win
  <2>1. CASE i \in 1..Len(s)
    BY <1>1, <1>3, <2>1 DEF Chained
  <2>2. CASE i = Len(s) + 1
    BY <1>1, <1>2, <1>3, <2>2 DEF EndsOn
  <2> QED BY <1>1, <2>1, <2>2
<1>4. Chained(t, focus)
  BY <1>3 DEF Chained
<1>5. EndsOn(t, focus) = e.win
  BY <1>1 DEF EndsOn
<1> QED BY <1>1, <1>4, <1>5 DEF t

LEMMA TailChained ==
  ASSUME NEW s \in Seq(Frames), s # <<>>, NEW focus, Chained(s, focus)
  PROVE  /\ Head(s) \in Frames
         /\ Tail(s) \in Seq(Frames) /\ Len(Tail(s)) <= Len(s)
         /\ Chained(Tail(s), Head(s).win)
         /\ EndsOn(Tail(s), Head(s).win) = EndsOn(s, focus)
         /\ Head(s).kind \notin Crossing => Head(s).win = focus
<1> DEFINE t == Tail(s)
<1>1. /\ t \in Seq(Frames) /\ Len(t) = Len(s) - 1 /\ Len(s) \in Nat
      /\ \A i \in 1..Len(t) : t[i] = s[i+1]
      /\ Head(s) = s[1] /\ Head(s) \in Frames
  BY HeadTailProperties, LenProperties
<1>2. (s = <<>> <=> Len(s) = 0) /\ (t = <<>> <=> Len(t) = 0)
  BY <1>1, EmptySeq
<1> HIDE DEF t
<1>3. ASSUME NEW i \in 1..Len(t), t[i].kind \notin Crossing
      PROVE  t[i].win = IF i = 1 THEN Head(s).win ELSE t[i-1].win
  <2>1. i + 1 \in 1..Len(s) /\ t[i] = s[i+1] /\ (i # 1 => t[i-1] = s[i])
    BY <1>1
  <2> QED BY <1>1, <1>3, <2>1 DEF Chained
<1>4. Chained(t, Head(s).win)
  BY <1>3 DEF Chained
<1>5. EndsOn(t, Head(s).win) = EndsOn(s, focus)
  BY <1>1, <1>2 DEF EndsOn
<1>6. Head(s).kind \notin Crossing => Head(s).win = focus
  BY <1>1, <1>2 DEF Chained
<1> QED BY <1>1, <1>4, <1>5, <1>6 DEF t

LEMMA FramesSplit ==
  ASSUME NEW f \in Frames
  PROVE  /\ f.win \in Windows \cup {None}
         /\ f.kind \in {"frame", "enter", "leave", "button", "axis"}
         /\ f.kind = "frame" =>
              /\ f.win \in Windows /\ f.x \in Int /\ f.abs \in BOOLEAN /\ f.rel \in BOOLEAN
              /\ f.d \in {0} \cup Directions /\ (f.abs => f.x \in 0..Width[f.win]-1)
         /\ f.kind = "enter" =>
              f.win \in Windows /\ f.unlocked \in BOOLEAN /\ f.x \in 0..Width[f.win]-1
         /\ f.kind = "leave" => f.win = None
         /\ f.kind = "button" => f.down \in BOOLEAN
         /\ f.kind = "axis" => f.d \in Directions
BY DEF Frames

\* What releasing the relative pointer leaves of the messages under way.
LEMMA ReleasedIs ==
  ASSUME NEW s \in Seq(Frames)
  PROVE  /\ Released(s) \in Seq(Frames) /\ Len(Released(s)) = Len(s)
         /\ DOMAIN Released(s) = DOMAIN s
         /\ \A i \in DOMAIN s :
              /\ Released(s)[i].kind = s[i].kind /\ Released(s)[i].win = s[i].win
              /\ s[i].kind # "frame" => Released(s)[i] = s[i]
              /\ s[i].kind = "frame" =>
                   /\ Released(s)[i].x = s[i].x /\ (Released(s)[i].abs <=> s[i].abs)
                   /\ ~Released(s)[i].rel
                   /\ Released(s)[i].d = IF s[i].abs THEN s[i].d ELSE 0
<1> DEFINE t == Released(s)
<1>1. /\ DOMAIN s = 1..Len(s) /\ DOMAIN t = DOMAIN s /\ Len(s) \in Nat
      /\ \A i \in DOMAIN s : s[i] \in Frames
  BY LenProperties, ElementOfSeq DEF Released
<1>2. ASSUME NEW i \in DOMAIN s, s[i].kind = "frame"
      PROVE  /\ t[i] \in Frames /\ t[i].kind = "frame" /\ t[i].win = s[i].win
             /\ t[i].x = s[i].x /\ (t[i].abs <=> s[i].abs) /\ ~t[i].rel
             /\ t[i].d = IF s[i].abs THEN s[i].d ELSE 0
  <2> DEFINE f == s[i]
             Moves == {g \in [kind : {"frame"}, win : Windows, x : Int, abs : BOOLEAN,
                              rel : BOOLEAN, d : {0} \cup Directions] :
                         g.abs => g.x \in 0..Width[g.win]-1}
  <2>1. f \in Moves
    BY <1>1, <1>2 DEF Frames
  <2>2. t[i] = [f EXCEPT !.rel = FALSE, !.d = IF f.abs THEN @ ELSE 0]
    BY <1>2 DEF Released
  <2>3. t[i] = [kind |-> "frame", win |-> f.win, x |-> f.x, abs |-> f.abs, rel |-> FALSE,
                d |-> IF f.abs THEN f.d ELSE 0]
    BY <2>1, <2>2
  <2> HIDE DEF t, f
  <2>4. t[i] \in Moves
    BY <2>1, <2>3
  <2> QED BY <2>1, <2>3, <2>4 DEF f, Frames
<1>3. \A i \in DOMAIN s : s[i].kind # "frame" => t[i] = s[i]
  BY DEF Released
<1>4. t = [i \in 1..Len(s) |-> t[i]]
  BY <1>1 DEF Released
<1> HIDE DEF t
<1>5. t \in Seq(Frames) /\ Len(t) = Len(s)
  BY <1>1, <1>2, <1>3, <1>4, IsASeq, LenProperties
<1> QED BY <1>1, <1>2, <1>3, <1>5 DEF t

LEMMA ReleasedChained ==
  ASSUME NEW s \in Seq(Frames), NEW focus, Chained(s, focus)
  PROVE  /\ Released(s) \in Seq(Frames) /\ Len(Released(s)) = Len(s)
         /\ Chained(Released(s), focus)
         /\ EndsOn(Released(s), focus) = EndsOn(s, focus)
<1> DEFINE t == Released(s)
<1>1. /\ Len(s) \in Nat /\ t \in Seq(Frames) /\ Len(t) = Len(s)
      /\ \A i \in 1..Len(s) : t[i].kind = s[i].kind /\ t[i].win = s[i].win
  BY ReleasedIs, LenProperties
<1> HIDE DEF t
<1>2. Chained(t, focus)
  BY <1>1 DEF Chained
<1>3. (s = <<>> <=> Len(s) = 0) /\ (t = <<>> <=> Len(t) = 0)
  BY <1>1, EmptySeq
<1>4. EndsOn(t, focus) = EndsOn(s, focus)
  BY <1>1, <1>3 DEF EndsOn
<1> QED BY <1>1, <1>2, <1>4 DEF t

-----------------------------------------------------------------------------
(* Sums over what is under way, as counts of either direction.               *)

Matching(s, kind, d) == {i \in DOMAIN s : s[i].kind = kind /\ s[i].d = d}

LEMMA MatchingFinite ==
  ASSUME NEW E, NEW s \in Seq(E), NEW kind, NEW d
  PROVE  /\ Matching(s, kind, d) \subseteq 1..Len(s) /\ IsFiniteSet(Matching(s, kind, d))
         /\ CountOf(s, kind, d) = Cardinality(Matching(s, kind, d))
         /\ CountOf(s, kind, d) \in Nat
<1>1. DOMAIN s = 1..Len(s) /\ Len(s) \in Nat
  BY LenProperties
<1>2. Matching(s, kind, d) \subseteq 1..Len(s)
  BY <1>1 DEF Matching
<1>3. IsFiniteSet(1..Len(s))
  BY <1>1, FS_Interval
<1>4. IsFiniteSet(Matching(s, kind, d))
  BY <1>2, <1>3, FS_Subset
<1>5. CountOf(s, kind, d) = Cardinality(Matching(s, kind, d))
  BY DEF CountOf, Matching
<1> QED BY <1>2, <1>4, <1>5, FS_CardinalityType

LEMMA CountAppend ==
  ASSUME NEW E, NEW s \in Seq(E), NEW e \in E, NEW kind, NEW d
  PROVE  CountOf(Append(s, e), kind, d) =
           CountOf(s, kind, d) + (IF e.kind = kind /\ e.d = d THEN 1 ELSE 0)
<1> DEFINE t == Append(s, e)
           n == Len(s) + 1
<1>1. /\ t \in Seq(E) /\ DOMAIN t = 1..n /\ DOMAIN s = 1..Len(s) /\ Len(s) \in Nat
      /\ \A i \in 1..Len(s) : t[i] = s[i]
      /\ t[n] = e
  BY AppendProperties, LenProperties
<1> HIDE DEF t
<1>2. /\ n \notin Matching(s, kind, d)
      /\ Matching(t, kind, d) = IF e.kind = kind /\ e.d = d THEN Matching(s, kind, d) \cup {n}
                                ELSE Matching(s, kind, d)
  BY <1>1 DEF Matching
<1>3. IsFiniteSet(Matching(s, kind, d)) /\ CountOf(s, kind, d) = Cardinality(Matching(s, kind, d))
      /\ CountOf(s, kind, d) \in Nat
  BY MatchingFinite
<1>4. CountOf(t, kind, d) = Cardinality(Matching(t, kind, d))
  BY <1>1, MatchingFinite
<1> HIDE DEF n
<1>5. Cardinality(Matching(s, kind, d) \cup {n}) = Cardinality(Matching(s, kind, d)) + 1
  BY <1>2, <1>3, FS_AddElement
<1> QED BY <1>2, <1>3, <1>4, <1>5 DEF t

LEMMA CountTail ==
  ASSUME NEW E, NEW s \in Seq(E), s # <<>>, NEW kind, NEW d
  PROVE  CountOf(s, kind, d) =
           CountOf(Tail(s), kind, d) + (IF Head(s).kind = kind /\ Head(s).d = d THEN 1 ELSE 0)
<1> DEFINE t == Tail(s)
           M == Matching(s, kind, d)
           N == Matching(t, kind, d)
           f == [i \in N |-> i + 1]
<1>1. /\ t \in Seq(E) /\ Len(t) = Len(s) - 1 /\ DOMAIN t = 1..Len(t) /\ DOMAIN s = 1..Len(s)
      /\ \A i \in 1..Len(t) : t[i] = s[i+1]
      /\ Head(s) = s[1] /\ Len(s) \in Nat \ {0}
  <2>1. t \in Seq(E) /\ Len(t) = Len(s) - 1 /\ Head(s) = s[1] /\ \A i \in 1..Len(t) : t[i] = s[i+1]
    BY HeadTailProperties
  <2>2. DOMAIN t = 1..Len(t) /\ DOMAIN s = 1..Len(s) /\ Len(s) \in Nat /\ Len(t) \in Nat
    BY <2>1, LenProperties
  <2> QED BY <2>1, <2>2
<1> HIDE DEF t
<1>2. f \in Bijection(N, M \ {1})
  <2>1. N \subseteq 1..Len(t) /\ M \subseteq 1..Len(s)
    BY <1>1 DEF Matching
  <2>2. \A i \in N : i + 1 \in M \ {1}
    BY <1>1 DEF Matching
  <2>3. \A j \in M \ {1} : j - 1 \in N /\ f[j - 1] = j
    BY <1>1 DEF Matching
  <2>4. \A i, j \in N : f[i] = f[j] => i = j
    BY <2>1
  <2>5. f \in [N -> M \ {1}]
    BY <2>2
  <2> HIDE DEF f, M, N
  <2> QED BY <2>3, <2>4, <2>5 DEF Bijection, Injection, Surjection, IsInjective
<1>3. 1 \in M <=> Head(s).kind = kind /\ Head(s).d = d
  BY <1>1 DEF Matching
<1>4. /\ IsFiniteSet(M) /\ CountOf(s, kind, d) = Cardinality(M)
      /\ IsFiniteSet(N) /\ CountOf(t, kind, d) = Cardinality(N)
      /\ CountOf(s, kind, d) \in Nat /\ CountOf(t, kind, d) \in Nat
  BY <1>1, MatchingFinite
<1> HIDE DEF f, M, N
<1>5. Cardinality(M \ {1}) = Cardinality(N)
  BY <1>2, <1>4, FS_Bijection DEF ExistsBijection
<1>6. Cardinality(M \ {1}) = IF 1 \in M THEN Cardinality(M) - 1 ELSE Cardinality(M)
  BY <1>4, FS_RemoveElement
<1> QED BY <1>3, <1>4, <1>5, <1>6 DEF t

(* What one message adds to a sum.                                           *)
Adds(e, kind) == IF e.kind = kind THEN e.d ELSE 0

\* Messages of that kind are of one step, or none.
Stepwise(E, kind) == \A e \in E : e.kind = kind => e.d \in {0} \cup Directions

LEMMA SumType ==
  ASSUME NEW E, NEW s \in Seq(E), NEW kind
  PROVE  SumOf(s, kind) \in Int
<1>1. CountOf(s, kind, 1) \in Nat /\ CountOf(s, kind, -1) \in Nat
  BY MatchingFinite
<1> QED BY <1>1 DEF SumOf

LEMMA SumEmpty == ASSUME NEW kind PROVE SumOf(<<>>, kind) = 0
<1>1. <<>> \in Seq({}) /\ DOMAIN <<>> = {}
  BY EmptySeq, LenProperties
<1>2. \A d : Matching(<<>>, kind, d) = {}
  BY <1>1 DEF Matching
<1>3. \A d : CountOf(<<>>, kind, d) = Cardinality(Matching(<<>>, kind, d))
  BY DEF CountOf, Matching
<1>4. CountOf(<<>>, kind, 1) = 0 /\ CountOf(<<>>, kind, -1) = 0
  BY <1>2, <1>3, FS_EmptySet
<1> QED BY <1>4 DEF SumOf

LEMMA SumAppend ==
  ASSUME NEW E, NEW s \in Seq(E), NEW e \in E, NEW kind, Stepwise(E, kind)
  PROVE  SumOf(Append(s, e), kind) = SumOf(s, kind) + Adds(e, kind)
<1>1. /\ CountOf(s, kind, 1) \in Nat /\ CountOf(s, kind, -1) \in Nat
      /\ CountOf(Append(s, e), kind, 1) =
           CountOf(s, kind, 1) + (IF e.kind = kind /\ e.d = 1 THEN 1 ELSE 0)
      /\ CountOf(Append(s, e), kind, -1) =
           CountOf(s, kind, -1) + (IF e.kind = kind /\ e.d = -1 THEN 1 ELSE 0)
  BY MatchingFinite, CountAppend
<1>2. e.kind = kind => e.d \in {-1, 0, 1}
  BY DEF Stepwise, Directions
<1> QED BY <1>1, <1>2 DEF SumOf, Adds

LEMMA SumTail ==
  ASSUME NEW E, NEW s \in Seq(E), s # <<>>, NEW kind, Stepwise(E, kind)
  PROVE  SumOf(s, kind) = SumOf(Tail(s), kind) + Adds(Head(s), kind)
<1>1. Tail(s) \in Seq(E) /\ Head(s) \in E
  BY HeadTailProperties
<1>2. /\ CountOf(Tail(s), kind, 1) \in Nat /\ CountOf(Tail(s), kind, -1) \in Nat
      /\ CountOf(s, kind, 1) =
           CountOf(Tail(s), kind, 1) + (IF Head(s).kind = kind /\ Head(s).d = 1 THEN 1 ELSE 0)
      /\ CountOf(s, kind, -1) =
           CountOf(Tail(s), kind, -1) + (IF Head(s).kind = kind /\ Head(s).d = -1 THEN 1 ELSE 0)
  BY <1>1, MatchingFinite, CountTail
<1>3. Head(s).kind = kind => Head(s).d \in {-1, 0, 1}
  BY <1>1 DEF Stepwise, Directions
<1> QED BY <1>2, <1>3 DEF SumOf, Adds

LEMMA SumSame ==
  ASSUME NEW s, NEW t, NEW kind, DOMAIN s = DOMAIN t,
         \A i \in DOMAIN s : s[i].kind = t[i].kind /\ (s[i].kind = kind => s[i].d = t[i].d)
  PROVE  SumOf(s, kind) = SumOf(t, kind)
<1>1. ASSUME NEW d PROVE Matching(s, kind, d) = Matching(t, kind, d)
  BY <1>1 DEF Matching
<1> QED BY <1>1 DEF SumOf, CountOf, Matching

LEMMA UnderWayStepwise ==
  Stepwise(RawEvents, "rel") /\ Stepwise(RawEvents, "wheel")
    /\ Stepwise(Frames, "frame") /\ Stepwise(Frames, "axis")
<1>1. \A e \in RawEvents : e.kind \in {"rel", "wheel"} => e.d \in {0} \cup Directions
  BY DEF RawEvents
<1>2. \A f \in Frames : f.kind \in {"frame", "axis"} => f.d \in {0} \cup Directions
  BY FramesSplit
<1> QED BY <1>1, <1>2 DEF Stepwise

-----------------------------------------------------------------------------
(* The mouse state. *)

Inside(m, focus) ==
  focus # None => m.x \in 0..Width[focus]-1 /\ m.last_x \in 0..Width[focus]-1

LEMMA AtInside ==
  ASSUME NEW m \in MouseStates, NEW focus \in Windows \cup {None}, NEW x \in Int,
         focus # None => x \in 0..Width[focus]-1
  PROVE  At(m, x) \in MouseStates /\ Inside(At(m, x), focus)
<1>1. At(m, x) \in MouseStates
  BY DEF At, MouseStates
<1>2. At(m, x).x = x /\ At(m, x).last_x = x
  BY DEF At, MouseStates
<1> QED BY <1>1, <1>2 DEF Inside

LEMMA TellInside ==
  ASSUME NEW m \in MouseStates, NEW focus, Inside(m, focus), NEW xrel \in Int
  PROVE  Tell(m, xrel) \in MouseStates /\ Inside(Tell(m, xrel), focus)
<1>1. Tell(m, xrel) \in MouseStates
  BY DEF Tell, MouseStates
<1>2. Tell(m, xrel).x = m.x /\ Tell(m, xrel).last_x = m.last_x
  BY DEF Tell, MouseStates
<1> QED BY <1>1, <1>2 DEF Inside

LEMMA ConstrainInside ==
  ASSUME NEW m \in MouseStates, NEW focus \in Windows \cup {None}, Inside(m, focus), NEW x \in Int
  PROVE  /\ Constrain(m, focus, x) \in Int
         /\ focus # None => Constrain(m, focus, x) \in 0..Width[focus]-1
BY MouseAssumption DEF Constrain, Inside, MouseStates

LEMMA ConstrainKeeps ==
  ASSUME NEW m, NEW focus \in Windows, NEW x \in 0..Width[focus]-1
  PROVE  Constrain(m, focus, x) = x /\ x \in Int
BY MouseAssumption DEF Constrain

\* What SDLOP_SendMouseMotion makes of a position, once it is constrained.
LEMMA PlacedInside ==
  ASSUME NEW m \in MouseStates, NEW focus \in Windows \cup {None}, NEW x \in Int,
         NEW xrel \in Int, Constrain(m, focus, x) \in Int,
         focus # None => Constrain(m, focus, x) \in 0..Width[focus]-1
  PROVE  SendBoth(m, focus, x, xrel) \in MouseStates /\ Inside(SendBoth(m, focus, x, xrel), focus)
<1> DEFINE p == At(m, Constrain(m, focus, x))
           q == [p EXCEPT !.has_position = TRUE]
<1>1. p \in MouseStates /\ Inside(p, focus)
  BY AtInside
<1> HIDE DEF p
<1>2. q \in MouseStates /\ q.x = p.x /\ q.last_x = p.last_x
  BY <1>1 DEF MouseStates
<1> HIDE DEF q
<1>3. q \in MouseStates /\ Inside(q, focus)
  BY <1>1, <1>2 DEF Inside
<1>4. Tell(q, xrel) \in MouseStates /\ Inside(Tell(q, xrel), focus)
  BY <1>3, TellInside
<1> QED BY <1>4 DEF SendBoth, p, q

LEMMA SendBothInside ==
  ASSUME NEW m \in MouseStates, NEW focus \in Windows \cup {None}, Inside(m, focus),
         NEW x \in Int, NEW xrel \in Int
  PROVE  SendBoth(m, focus, x, xrel) \in MouseStates /\ Inside(SendBoth(m, focus, x, xrel), focus)
BY ConstrainInside, PlacedInside

LEMMA SendRelativeInside ==
  ASSUME NEW m \in MouseStates, NEW focus \in Windows \cup {None}, Inside(m, focus),
         NEW xrel \in Int
  PROVE  SendRelative(m, focus, xrel) \in MouseStates /\ Inside(SendRelative(m, focus, xrel), focus)
<1> DEFINE c == Constrain(m, focus, m.x + xrel)
           p == IF m.has_position THEN At(m, c) ELSE m
<1>1. m.x + xrel \in Int
  BY DEF MouseStates
<1>2. c \in Int /\ (focus # None => c \in 0..Width[focus]-1)
  BY <1>1, ConstrainInside
<1> HIDE DEF c
<1>3. p \in MouseStates /\ Inside(p, focus)
  BY <1>2, AtInside
<1> HIDE DEF p
<1>4. Tell(p, xrel) \in MouseStates /\ Inside(Tell(p, xrel), focus)
  BY <1>3, TellInside
<1> QED BY <1>4 DEF SendRelative, p, c

LEMMA SendAbsoluteInside ==
  ASSUME NEW m \in MouseStates, NEW focus \in Windows \cup {None}, Inside(m, focus), NEW x \in Int
  PROVE  SendAbsolute(m, focus, x) \in MouseStates /\ Inside(SendAbsolute(m, focus, x), focus)
<1>1. Constrain(m, focus, x) \in Int /\ m.last_x \in Int
  BY ConstrainInside DEF MouseStates
<1>2. 0 \in Int /\ Constrain(m, focus, x) - m.last_x \in Int
  BY <1>1
<1> QED BY <1>2, SendBothInside DEF SendAbsolute

\* An enter forgets where the mouse was, be it outside of the window.
LEMMA EnterInside ==
  ASSUME NEW m \in MouseStates, ~m.has_position, NEW focus \in Windows,
         NEW x \in 0..Width[focus]-1
  PROVE  SendAbsolute(m, focus, x) \in MouseStates /\ Inside(SendAbsolute(m, focus, x), focus)
<1>1. Constrain(m, focus, x) = x /\ x \in Int
  BY ConstrainKeeps
<1>2. SendAbsolute(m, focus, x) = SendBoth(m, focus, x, 0)
  BY DEF SendAbsolute
<1> QED BY <1>1, <1>2, PlacedInside

LEMMA PointerMotionInside ==
  ASSUME NEW m \in MouseStates, mouse_focus \in Windows \cup {None}, Inside(m, mouse_focus),
         NEW x \in Int, mouse_focus # None => x \in 0..Width[mouse_focus]-1
  PROVE  PointerMotion(m, x) \in MouseStates /\ Inside(PointerMotion(m, x), mouse_focus)
<1>1. SendAbsolute(m, mouse_focus, x) \in MouseStates
      /\ Inside(SendAbsolute(m, mouse_focus, x), mouse_focus)
  BY SendAbsoluteInside
<1>2. mouse_focus # None =>
        [m EXCEPT !.x = x] \in MouseStates /\ Inside([m EXCEPT !.x = x], mouse_focus)
  BY DEF MouseStates, Inside
<1> QED BY <1>1, <1>2 DEF PointerMotion

LEMMA RawMotionInside ==
  ASSUME NEW m \in MouseStates, mouse_focus \in Windows \cup {None},
         NEW kf \in Windows \cup {None}, Inside(m, mouse_focus), NEW d \in Int
  PROVE  RawMotion(m, d, kf) \in MouseStates /\ Inside(RawMotion(m, d, kf), mouse_focus)
<1> DEFINE w == IF mouse_focus # None THEN mouse_focus ELSE kf
           x == Clamp(m.x + d, Width[w] - 1)
<1>1. m.x + d \in Int
  BY DEF MouseStates
<1>2. w # None => x \in Int
  BY <1>1, MouseAssumption DEF Clamp
<1> HIDE DEF x
<1>3. w # None => /\ SendBoth(m, mouse_focus, x, d) \in MouseStates
                  /\ Inside(SendBoth(m, mouse_focus, x, d), mouse_focus)
  BY <1>2, SendBothInside
<1>4. /\ SendBoth(m, mouse_focus, m.x + d, d) \in MouseStates
      /\ Inside(SendBoth(m, mouse_focus, m.x + d, d), mouse_focus)
  BY <1>1, SendBothInside
<1>5. /\ SendRelative(m, mouse_focus, d) \in MouseStates
      /\ Inside(SendRelative(m, mouse_focus, d), mouse_focus)
  BY SendRelativeInside
<1> QED BY <1>3, <1>4, <1>5 DEF RawMotion, x

-----------------------------------------------------------------------------
(* What is inductive about types and places.                                 *)

RingOK ==
  /\ ring \in Seq(RawEvents) /\ Len(ring) <= RingSize
  /\ ~raw_active => ring = <<>>
UserOK ==
  /\ held \in BOOLEAN /\ on \in Windows \cup {None}
  /\ cursor \in Int /\ (on # None => cursor \in 0..Width[on]-1)
FocusOK == {mouse_focus, relative_mode_window} \subseteq Windows \cup {None}
FlagsOK ==
  /\ {raw_active, astray, inexact, button_lost} \subseteq BOOLEAN
  /\ link \in {"no", "relative", "locked", "unlocked"}
  /\ moved \in Int /\ turned \in Int
WireOK ==
  /\ wire \in Seq(Frames) /\ Len(wire) <= WireSize
  /\ Chained(wire, mouse_focus) /\ EndsOn(wire, mouse_focus) = on
MouseOK == mouse \in MouseStates /\ Inside(mouse, mouse_focus)

MouseInv == RingOK /\ UserOK /\ FocusOK /\ FlagsOK /\ WireOK /\ MouseOK

LEMMA InvImplies == ASSUME MouseInv PROVE TypeOK /\ PositionInside
BY DEF MouseInv, RingOK, UserOK, FocusOK, FlagsOK, WireOK, MouseOK, Inside, TypeOK, PositionInside

LEMMA ToRingOK ==
  ASSUME RingOK, NEW e \in RawEvents, ToRing(e), raw_active' = raw_active
  PROVE  RingOK'
<1>1. /\ Append(ring, e) \in Seq(RawEvents) /\ Len(Append(ring, e)) = Len(ring) + 1
      /\ Len(ring) \in Nat
  BY AppendProperties, LenProperties DEF RingOK
<1> QED BY <1>1, MouseAssumption DEF ToRing, Fits, RingOK

LEMMA ToWireOK ==
  ASSUME WireOK, Room, NEW e \in Frames, e.kind \notin Crossing => e.win = on, e.win = on',
         wire' = Append(wire, e), mouse_focus' = mouse_focus
  PROVE  WireOK'
<1>1. /\ Append(wire, e) \in Seq(Frames) /\ Len(Append(wire, e)) = Len(wire) + 1
      /\ Chained(Append(wire, e), mouse_focus)
      /\ EndsOn(Append(wire, e), mouse_focus) = e.win
  BY AppendChained DEF WireOK
<1>2. Len(wire) \in Nat
  BY LenProperties DEF WireOK
<1> QED BY <1>1, <1>2, MouseAssumption DEF WireOK, Room

LEMMA FromWireOK ==
  ASSUME WireOK, FocusOK, wire # <<>>, wire' = Tail(wire), mouse_focus' = Head(wire).win, on' = on
  PROVE  WireOK'
<1>1. /\ Tail(wire) \in Seq(Frames) /\ Len(Tail(wire)) <= Len(wire)
      /\ Chained(Tail(wire), Head(wire).win)
      /\ EndsOn(Tail(wire), Head(wire).win) = EndsOn(wire, mouse_focus)
  BY TailChained DEF WireOK
<1>2. Len(wire) \in Nat /\ Len(Tail(wire)) \in Nat
  BY <1>1, LenProperties DEF WireOK
<1> QED BY <1>1, <1>2, MouseAssumption DEF WireOK

\* What is sent by the user's actions, where the pointer is on a window.
LEMMA SentOK ==
  ASSUME WireOK, UserOK, Room, NEW e, on # None => e \in Frames /\ e.win = on, ToWire(e),
         UNCHANGED <<on, mouse_focus>>
  PROVE  WireOK'
<1>1. CASE on = None
  BY <1>1 DEF ToWire, WireOK
<1>2. CASE on # None
  BY <1>2, ToWireOK DEF ToWire
<1> QED BY <1>1, <1>2

\* A movement is sent as a frame about the window the pointer is on.
LEMMA MoveSends ==
  ASSUME MouseInv, NEW d \in Directions, Move(d)
  PROVE  LET locked == link = "locked"
             to == cursor + d
             f == Frame(IF locked THEN cursor ELSE to, ~locked, d)
         IN  on # None => f \in Frames /\ f.win = on
<1> DEFINE locked == link = "locked"
           to == cursor + d
           f == Frame(IF locked THEN cursor ELSE to, ~locked, d)
<1> SUFFICES ASSUME on # None PROVE f \in Frames /\ f.win = on
  OBVIOUS
<1>1. to \in Int /\ cursor \in Int /\ on \in Windows
  BY DEF MouseInv, UserOK, Directions
<1>2. ~locked => to \in 0..Width[on]-1
  BY DEF Move
<1> HIDE DEF to
<1> QED BY <1>1, <1>2 DEF Frame, Frames

LEMMA MoveOK == ASSUME MouseInv, NEW d \in Directions, Move(d) PROVE MouseInv'
<1> DEFINE locked == link = "locked"
           to == cursor + d
           f == Frame(IF locked THEN cursor ELSE to, ~locked, d)
<1>1. to \in Int /\ d \in Int
  BY DEF MouseInv, UserOK, Directions
<1>2. on # None => f \in Frames /\ f.win = on
  BY MoveSends
<1>3. RingOK'
  <2>1. [kind |-> "rel", d |-> d] \in RawEvents
    BY DEF RawEvents
  <2> QED BY <2>1, ToRingOK DEF MouseInv, Move
<1>4. WireOK'
  <2>1. Room /\ ToWire(f) /\ UNCHANGED <<on, mouse_focus>>
    BY DEF Move
  <2> HIDE DEF f
  <2> QED BY <1>2, <2>1, SentOK DEF MouseInv
<1>5. UserOK'
  BY <1>1 DEF MouseInv, UserOK, Move
<1>6. FlagsOK'
  BY <1>1 DEF MouseInv, FlagsOK, Move, modeVars
<1>7. FocusOK' /\ MouseOK'
  BY DEF MouseInv, FocusOK, MouseOK, Inside, Move, modeVars
<1> QED BY <1>3, <1>4, <1>5, <1>6, <1>7 DEF MouseInv

LEMMA CrossOK ==
  ASSUME MouseInv, NEW w \in Windows \cup {None}, NEW x \in Int,
         w # None => x \in 0..Width[w]-1, Cross(w, x)
  PROVE  MouseInv'
<1> DEFINE e == IF w = None THEN [kind |-> "leave", win |-> None]
                ELSE [kind |-> "enter", win |-> w, x |-> x, unlocked |-> link = "unlocked"]
<1>1. e \in Frames /\ e.win = w /\ e.kind \in Crossing
  BY DEF Frames, Crossing
<1>2. Room /\ wire' = Append(wire, e) /\ on' = w /\ mouse_focus' = mouse_focus
  BY DEF Cross
<1> HIDE DEF e
<1>3. WireOK'
  BY <1>1, <1>2, ToWireOK DEF MouseInv
<1>4. UserOK'
  BY DEF MouseInv, UserOK, Cross
<1>5. RingOK' /\ FocusOK' /\ FlagsOK' /\ MouseOK'
  BY DEF MouseInv, RingOK, FocusOK, FlagsOK, MouseOK, Inside, Cross, modeVars, historyVars
<1> QED BY <1>3, <1>4, <1>5 DEF MouseInv

LEMMA PressOK == ASSUME MouseInv, Press PROVE MouseInv'
<1>1. held \in BOOLEAN /\ (~held) \in BOOLEAN
  BY DEF MouseInv, UserOK
<1>2. RingOK'
  <2>1. [kind |-> "button", down |-> ~held] \in RawEvents
    BY <1>1 DEF RawEvents
  <2> QED BY <2>1, ToRingOK DEF MouseInv, Press
<1>3. WireOK'
  <2> DEFINE e == [kind |-> "button", win |-> on, down |-> ~held]
  <2>1. on # None => e \in Frames /\ e.win = on
    BY <1>1 DEF Frames, MouseInv, UserOK
  <2>2. Room /\ ToWire(e) /\ UNCHANGED <<on, mouse_focus>>
    BY DEF Press
  <2> HIDE DEF e
  <2> QED BY <2>1, <2>2, SentOK DEF MouseInv
<1>4. UserOK'
  BY <1>1 DEF MouseInv, UserOK, Press
<1>5. FlagsOK'
  BY DEF MouseInv, FlagsOK, Press, modeVars
<1>6. FocusOK' /\ MouseOK'
  BY DEF MouseInv, FocusOK, MouseOK, Inside, Press, modeVars
<1> QED BY <1>2, <1>3, <1>4, <1>5, <1>6 DEF MouseInv

LEMMA TurnOK == ASSUME MouseInv, NEW d \in Directions, Turn(d) PROVE MouseInv'
<1>1. d \in Int
  BY DEF Directions
<1>2. RingOK'
  <2>1. [kind |-> "wheel", d |-> d] \in RawEvents
    BY DEF RawEvents
  <2> QED BY <2>1, ToRingOK DEF MouseInv, Turn
<1>3. WireOK'
  <2> DEFINE e == [kind |-> "axis", win |-> on, d |-> d]
  <2>1. on # None => e \in Frames /\ e.win = on
    BY DEF Frames, MouseInv, UserOK
  <2>2. Room /\ ToWire(e) /\ UNCHANGED <<on, mouse_focus>>
    BY DEF Turn, userVars
  <2> HIDE DEF e
  <2> QED BY <2>1, <2>2, SentOK DEF MouseInv
<1>4. FlagsOK'
  BY <1>1 DEF MouseInv, FlagsOK, Turn, modeVars
<1>5. UserOK' /\ FocusOK' /\ MouseOK'
  BY DEF MouseInv, UserOK, FocusOK, MouseOK, Inside, Turn, modeVars, userVars
<1> QED BY <1>2, <1>3, <1>4, <1>5 DEF MouseInv

\* Every handler takes the first frame and leaves the user alone.
LEMMA HandledOK ==
  ASSUME MouseInv, NEW kind, kind \notin Crossing, Arrives(kind), wire' = Tail(wire),
         UNCHANGED <<raw_active, held, on, cursor, ring, mouse_focus>>
  PROVE  /\ Head(wire) \in Frames /\ Head(wire).win = mouse_focus
         /\ RingOK' /\ UserOK' /\ WireOK'
<1>1. wire # <<>> /\ Head(wire).kind = kind
  BY DEF Arrives
<1>2. Head(wire) \in Frames /\ (Head(wire).kind \notin Crossing => Head(wire).win = mouse_focus)
  BY <1>1, TailChained DEF MouseInv, WireOK
<1>3. Head(wire).win = mouse_focus
  BY <1>1, <1>2
<1>4. WireOK'
  BY <1>1, <1>3, FromWireOK DEF MouseInv
<1> QED BY <1>2, <1>3, <1>4 DEF MouseInv, RingOK, UserOK

LEMMA PointerFrameOK == ASSUME MouseInv, PointerFrame PROVE MouseInv'
<1> DEFINE f == Head(wire)
           m == IF f.abs THEN PointerMotion(mouse, f.x) ELSE mouse
<1>1. Head(wire) \in Frames /\ Head(wire).win = mouse_focus /\ RingOK' /\ UserOK' /\ WireOK'
  <2>1. "frame" \notin Crossing
    BY DEF Crossing
  <2> QED BY <2>1, HandledOK DEF PointerFrame, userVars
<1>2. /\ mouse_focus \in Windows /\ f.x \in Int /\ f.d \in Int
      /\ f.abs \in BOOLEAN /\ f.rel \in BOOLEAN
      /\ f.abs => f.x \in 0..Width[mouse_focus]-1
  BY <1>1, FramesSplit DEF PointerFrame, Arrives, Directions
<1>3. mouse' = IF f.rel THEN FlushRelative(m, f.d) ELSE m
  BY DEF PointerFrame
<1> HIDE DEF f
<1>4. m \in MouseStates /\ Inside(m, mouse_focus)
  BY <1>2, PointerMotionInside DEF MouseInv, MouseOK
<1> HIDE DEF m
<1>5. FlushRelative(m, f.d) \in MouseStates /\ Inside(FlushRelative(m, f.d), mouse_focus)
  BY <1>2, <1>4, SendRelativeInside DEF FlushRelative
<1>6. MouseOK'
  BY <1>3, <1>4, <1>5 DEF MouseOK, Inside, PointerFrame
<1>7. FlagsOK'
  <2>1. astray' \in BOOLEAN /\ inexact' \in BOOLEAN
    BY DEF PointerFrame
  <2> QED BY <2>1 DEF MouseInv, FlagsOK, PointerFrame, modeVars
<1>8. FocusOK'
  BY DEF MouseInv, FocusOK, PointerFrame, modeVars
<1> QED BY <1>1, <1>6, <1>7, <1>8 DEF MouseInv

LEMMA PointerButtonFrameOK == ASSUME MouseInv, PointerButtonFrame PROVE MouseInv'
<1>1. Head(wire) \in Frames /\ RingOK' /\ UserOK' /\ WireOK'
  <2>1. "button" \notin Crossing
    BY DEF Crossing
  <2> QED BY <2>1, HandledOK DEF PointerButtonFrame, userVars
<1>2. Head(wire).down \in BOOLEAN
  BY <1>1, FramesSplit DEF PointerButtonFrame, Arrives
<1>3. MouseOK'
  <2> DEFINE b == Head(wire).down
             m == SendButton(mouse, b)
  <2>1. m \in MouseStates /\ Inside(m, mouse_focus)
    BY <1>2 DEF SendButton, MouseInv, MouseOK, MouseStates, Inside
  <2>2. mouse' = (IF raw_active THEN mouse ELSE m) /\ mouse_focus' = mouse_focus
    BY DEF PointerButtonFrame, PointerButton
  <2> HIDE DEF m
  <2> QED BY <2>1, <2>2 DEF MouseInv, MouseOK, Inside
<1>4. FlagsOK' /\ FocusOK'
  BY DEF MouseInv, FlagsOK, FocusOK, PointerButtonFrame, modeVars, historyVars
<1> QED BY <1>1, <1>3, <1>4 DEF MouseInv

LEMMA PointerAxisFrameOK == ASSUME MouseInv, PointerAxisFrame PROVE MouseInv'
<1>1. Head(wire) \in Frames /\ RingOK' /\ UserOK' /\ WireOK'
  <2>1. "axis" \notin Crossing
    BY DEF Crossing
  <2> QED BY <2>1, HandledOK DEF PointerAxisFrame, userVars
<1>2. Head(wire).d \in Int
  BY <1>1, FramesSplit DEF PointerAxisFrame, Arrives, Directions
<1>3. AxisFrame(Head(wire).d) \in Int
  <2> DEFINE d == Head(wire).d
  <2>1. d \in Int
    BY <1>2
  <2> HIDE DEF d
  <2>2. 12 * AxisPerTurn \in Int
    BY MouseAssumption
  <2>3. (12 * AxisPerTurn) * d \in Int /\ -120 * d \in Int
    BY <2>1, <2>2
  <2>4. AxisFrame(d) \in Int
    BY <2>3 DEF AxisFrame
  <2> QED BY <2>4 DEF d
<1>4. FlagsOK'
  BY <1>3 DEF MouseInv, FlagsOK, PointerAxisFrame, modeVars
<1>5. FocusOK' /\ MouseOK'
  BY DEF MouseInv, FocusOK, MouseOK, Inside, PointerAxisFrame, modeVars
<1> QED BY <1>1, <1>3, <1>4, <1>5 DEF MouseInv

LEMMA PointerEnterOK == ASSUME MouseInv, PointerEnter PROVE MouseInv'
<1> DEFINE m == Head(wire)
           fresh == [mouse EXCEPT !.has_position = FALSE]
           rearm == m.win = relative_mode_window /\ m.unlocked /\ link = "unlocked"
<1>1. wire # <<>> /\ m.kind = "enter" /\ mouse_focus' = m.win /\ on' = on
  BY DEF PointerEnter, Arrives, userVars
<1>2. /\ m \in Frames /\ Tail(wire) \in Seq(Frames) /\ Len(Tail(wire)) <= Len(wire)
      /\ Chained(Tail(wire), m.win)
      /\ EndsOn(Tail(wire), m.win) = on
  BY <1>1, TailChained DEF MouseInv, WireOK
<1>3. m.win \in Windows /\ m.x \in 0..Width[m.win]-1
  BY <1>1, <1>2, FramesSplit
<1>4. mouse' = SendAbsolute(fresh, m.win, m.x)
  BY DEF PointerEnter
<1>5. wire' = IF rearm THEN Released(Tail(wire)) ELSE Tail(wire)
  BY DEF PointerEnter
<1> HIDE DEF m, rearm
<1>6. fresh \in MouseStates /\ ~fresh.has_position
  BY DEF MouseInv, MouseOK, MouseStates
<1> HIDE DEF fresh
<1>7. MouseOK'
  BY <1>1, <1>3, <1>4, <1>6, EnterInside DEF MouseOK, Inside
<1>8. WireOK'
  <2>1. /\ Released(Tail(wire)) \in Seq(Frames) /\ Len(Released(Tail(wire))) = Len(Tail(wire))
        /\ Chained(Released(Tail(wire)), m.win)
        /\ EndsOn(Released(Tail(wire)), m.win) = EndsOn(Tail(wire), m.win)
    BY <1>2, ReleasedChained
  <2>2. Len(wire) \in Nat /\ Len(Tail(wire)) \in Nat /\ Len(wire) <= WireSize
    BY <1>2, LenProperties DEF MouseInv, WireOK
  <2> QED BY <1>1, <1>2, <1>5, <2>1, <2>2, MouseAssumption DEF WireOK
<1>9. RingOK' /\ UserOK'
  BY DEF MouseInv, RingOK, UserOK, PointerEnter, userVars
<1>10. FocusOK'
  BY <1>1, <1>3 DEF MouseInv, FocusOK, PointerEnter
<1>11. FlagsOK'
  <2>1. inexact' \in BOOLEAN /\ link' \in {"no", "relative", "locked", "unlocked"}
    BY DEF PointerEnter, MouseInv, FlagsOK
  <2> QED BY <2>1 DEF MouseInv, FlagsOK, PointerEnter
<1> QED BY <1>7, <1>8, <1>9, <1>10, <1>11 DEF MouseInv

LEMMA PointerLeaveOK == ASSUME MouseInv, PointerLeave PROVE MouseInv'
<1>1. wire # <<>> /\ Head(wire).kind = "leave" /\ on' = on /\ wire' = Tail(wire)
  BY DEF PointerLeave, Arrives, userVars
<1>2. mouse_focus' = None /\ Head(wire).win = None
  <2>1. Head(wire) \in Frames
    BY <1>1, TailChained DEF MouseInv, WireOK
  <2> QED BY <1>1, <2>1, FramesSplit DEF PointerLeave
<1>3. WireOK'
  BY <1>1, <1>2, FromWireOK DEF MouseInv
<1>4. MouseOK'
  BY <1>2 DEF MouseInv, MouseOK, Inside, MouseStates, PointerLeave
<1>5. FocusOK'
  BY <1>2 DEF MouseInv, FocusOK, PointerLeave, modeVars
<1>6. RingOK' /\ UserOK' /\ FlagsOK'
  BY DEF MouseInv, RingOK, UserOK, FlagsOK, PointerLeave, userVars, modeVars, historyVars
<1> QED BY <1>3, <1>4, <1>5, <1>6 DEF MouseInv

LEMMA RawPumpOK == ASSUME MouseInv, RawPump PROVE MouseInv'
<1> DEFINE e == Head(ring)
<1>1. e \in RawEvents /\ RingOK'
  <2>1. /\ Tail(ring) \in Seq(RawEvents) /\ Len(Tail(ring)) = Len(ring) - 1
        /\ Head(ring) \in RawEvents /\ Len(ring) \in Nat
    BY HeadTailProperties, LenProperties DEF RawPump, MouseInv, RingOK
  <2> QED BY <2>1, MouseAssumption DEF RawPump, MouseInv, RingOK
<1>2. /\ e.kind \in {"rel", "wheel"} => e.d \in Int
      /\ e.kind = "button" => e.down \in BOOLEAN
  BY <1>1 DEF RawEvents, Directions
<1>3. PICK kf \in Windows \cup {None} :
        mouse' = CASE e.kind = "rel" -> RawMotion(mouse, e.d, kf)
                   [] e.kind = "button" -> SendButton(mouse, e.down)
                   [] OTHER -> mouse
  BY DEF RawPump
<1>4. /\ turned' = IF e.kind = "wheel" THEN turned - RawWheel(e.d) ELSE turned
      /\ mouse_focus' = mouse_focus
  BY DEF RawPump
<1> HIDE DEF e
<1>5. MouseOK'
  <2>1. CASE e.kind = "rel"
    <3>1. RawMotion(mouse, e.d, kf) \in MouseStates
         /\ Inside(RawMotion(mouse, e.d, kf), mouse_focus)
      BY <1>2, <2>1, RawMotionInside DEF MouseInv, MouseOK, FocusOK
    <3> QED BY <1>3, <1>4, <2>1, <3>1 DEF MouseOK, Inside
  <2>2. CASE e.kind = "button"
    <3> DEFINE b == e.down
               m == SendButton(mouse, b)
    <3>1. m \in MouseStates /\ Inside(m, mouse_focus)
      BY <1>2, <2>2 DEF SendButton, MouseInv, MouseOK, MouseStates, Inside
    <3>2. mouse' = m
      BY <1>3, <2>2
    <3> HIDE DEF m
    <3> QED BY <1>4, <3>1, <3>2 DEF MouseOK, Inside
  <2>3. CASE e.kind \notin {"rel", "button"}
    BY <1>3, <1>4, <2>3 DEF MouseInv, MouseOK, Inside
  <2> QED BY <2>1, <2>2, <2>3
<1>6. FlagsOK'
  <2>1. e.kind = "wheel" => RawWheel(e.d) \in Int
    <3> DEFINE n == e.d
    <3>1. ASSUME n \in Int PROVE RawWheel(n) \in Int
      <4> HIDE DEF n
      <4> QED BY <3>1 DEF RawWheel
    <3> QED BY <1>2, <3>1
  <2>2. turned' \in Int
    BY <1>4, <2>1 DEF MouseInv, FlagsOK
  <2> QED BY <2>2 DEF MouseInv, FlagsOK, RawPump, modeVars
<1>7. UserOK' /\ FocusOK'
  BY DEF MouseInv, UserOK, FocusOK, RawPump, userVars, modeVars
<1>8. WireOK'
  BY DEF MouseInv, WireOK, Chained, RawPump, userVars
<1> QED BY <1>1, <1>5, <1>6, <1>7, <1>8 DEF MouseInv

LEMMA GetRelativeMouseStateOK == ASSUME MouseInv, GetRelativeMouseState PROVE MouseInv'
<1>1. MouseOK'
  BY DEF MouseInv, MouseOK, MouseStates, Inside, GetRelativeMouseState
<1>2. FlagsOK'
  <2>1. Pending \in Int
    BY SumType DEF Pending, MouseInv, RingOK, WireOK
  <2> QED BY <2>1 DEF MouseInv, FlagsOK, GetRelativeMouseState, modeVars
<1>3. RingOK' /\ UserOK' /\ FocusOK' /\ WireOK'
  BY DEF MouseInv, RingOK, UserOK, FocusOK, WireOK, Chained, GetRelativeMouseState,
         userVars, streamVars, modeVars
<1> QED BY <1>1, <1>2, <1>3 DEF MouseInv

LEMMA SetRelativeMouseModeOK ==
  ASSUME MouseInv, NEW w \in Windows \cup {None}, SetRelativeMouseMode(w)
  PROVE  MouseInv'
<1>1. wire' = Released(wire) /\ UNCHANGED <<on, mouse_focus>>
  BY DEF SetRelativeMouseMode, userVars
<1>2. WireOK'
  <2>1. /\ Released(wire) \in Seq(Frames) /\ Len(Released(wire)) = Len(wire)
        /\ Chained(Released(wire), mouse_focus)
        /\ EndsOn(Released(wire), mouse_focus) = EndsOn(wire, mouse_focus)
    BY ReleasedChained DEF MouseInv, WireOK
  <2> QED BY <1>1, <2>1 DEF MouseInv, WireOK
<1>3. FlagsOK'
  <2>1. inexact' \in BOOLEAN /\ link' = "no"
    BY DEF SetRelativeMouseMode, MouseInv, FlagsOK
  <2> QED BY <2>1 DEF MouseInv, FlagsOK, SetRelativeMouseMode
<1>4. FocusOK'
  BY DEF MouseInv, FocusOK, SetRelativeMouseMode
<1>5. RingOK' /\ UserOK' /\ MouseOK'
  BY DEF MouseInv, RingOK, UserOK, MouseOK, Inside, SetRelativeMouseMode, userVars
<1> QED BY <1>2, <1>3, <1>4, <1>5 DEF MouseInv

\* What the compositor does on its own leaves streams and mouse alone.
LEMMA CompositorOK == ASSUME MouseInv, Compositor PROVE MouseInv'
<1>1. link' \in {"no", "relative", "locked", "unlocked"}
  BY DEF Compositor, SrvRelative, SrvLock, SrvUnlock, MouseInv, FlagsOK, modeVars
<1>2. UNCHANGED <<raw_active, held, on, cursor, ring, wire, relative_mode_window,
                   mouse_focus, mouse, moved, turned, astray, inexact, button_lost>>
  BY DEF Compositor, SrvRelative, SrvLock, SrvUnlock, userVars, streamVars,
         modeVars, historyVars
<1>3. RingOK' /\ UserOK' /\ MouseOK' /\ WireOK'
  BY <1>2 DEF MouseInv, RingOK, UserOK, MouseOK, Inside, WireOK, Chained
<1>4. FocusOK' /\ FlagsOK'
  BY <1>1, <1>2 DEF MouseInv, FocusOK, FlagsOK
<1> QED BY <1>3, <1>4 DEF MouseInv

-----------------------------------------------------------------------------
LEMMA MouseInit == ASSUME Init PROVE MouseInv
<1>1. UserOK /\ FocusOK
  <2>1. held = FALSE /\ on = None /\ cursor = 0
    BY DEF Init
  <2>2. mouse_focus = None /\ relative_mode_window = None
    BY DEF Init
  <2>3. held \in BOOLEAN /\ on \in Windows \cup {None}
    BY <2>1, Zenon
  <2>4. FocusOK
    BY <2>2 DEF FocusOK
  <2> QED BY <2>1, <2>3, <2>4 DEF UserOK
<1>2. FlagsOK
  <2>1. raw_active \in BOOLEAN /\ astray = FALSE /\ inexact = FALSE /\ button_lost = FALSE
    BY DEF Init
  <2>2. link = "no" /\ turned = 0 /\ moved = 0
    BY DEF Init
  <2>3. {raw_active, astray, inexact, button_lost} \subseteq BOOLEAN
    BY <2>1, Zenon
  <2> QED BY <2>2, <2>3 DEF FlagsOK
<1>3. RingOK
  BY EmptySeq, MouseAssumption DEF Init, RingOK
<1>4. WireOK
  BY EmptySeq, MouseAssumption DEF Init, WireOK, Chained, EndsOn
<1>5. MouseOK
  BY DEF Init, MouseOK, MouseStates, Inside
<1> QED BY <1>1, <1>2, <1>3, <1>4, <1>5 DEF MouseInv

LEMMA MouseNext == ASSUME MouseInv, [Next]_vars PROVE MouseInv'
<1>1. CASE User
  <2>1. ASSUME NEW w \in Windows, NEW x \in 0..Width[w]-1, Cross(w, x) PROVE MouseInv'
    <3>1. w # None /\ x \in Int
      BY MouseAssumption
    <3> QED BY <2>1, <3>1, CrossOK
  <2>2. ASSUME Cross(None, 0) PROVE MouseInv'
    BY <2>2, CrossOK
  <2> QED BY <1>1, <2>1, <2>2, MoveOK, TurnOK, PressOK DEF User
<1>2. CASE Compositor
  BY <1>2, CompositorOK
<1>3. CASE Dispatch
  BY <1>3, PointerEnterOK, PointerLeaveOK, PointerFrameOK, PointerButtonFrameOK,
     PointerAxisFrameOK DEF Dispatch
<1>4. CASE RawPump
  BY <1>4, RawPumpOK
<1>5. CASE App
  BY <1>5, GetRelativeMouseStateOK, SetRelativeMouseModeOK DEF App
<1>6. CASE UNCHANGED vars
  BY <1>6 DEF vars, userVars, streamVars, modeVars, historyVars, MouseInv, RingOK, UserOK,
              FocusOK, FlagsOK, WireOK, Chained, MouseOK, Inside
<1> QED BY <1>1, <1>2, <1>3, <1>4, <1>5, <1>6 DEF Next

-----------------------------------------------------------------------------
(* The streams, as sums.                                                     *)

LEMMA RingSum ==
  ASSUME MouseInv, NEW e \in RawEvents, ToRing(e), NEW kind \in {"rel", "wheel"}
  PROVE  /\ SumOf(ring, kind) \in Int
         /\ SumOf(ring', kind) = SumOf(ring, kind) + (IF Fits THEN Adds(e, kind) ELSE 0)
<1>1. ring \in Seq(RawEvents)
  BY DEF MouseInv, RingOK
<1>2. SumOf(ring, kind) \in Int
  BY <1>1, SumType
<1>3. SumOf(Append(ring, e), kind) = SumOf(ring, kind) + Adds(e, kind)
  BY <1>1, SumAppend, UnderWayStepwise
<1> QED BY <1>2, <1>3 DEF ToRing

LEMMA WireSum ==
  ASSUME MouseInv, NEW e, on # None => e \in Frames, ToWire(e), NEW kind \in {"frame", "axis"}
  PROVE  /\ SumOf(wire, kind) \in Int
         /\ SumOf(wire', kind) = SumOf(wire, kind) + (IF on # None THEN Adds(e, kind) ELSE 0)
<1>1. wire \in Seq(Frames)
  BY DEF MouseInv, WireOK
<1>2. SumOf(wire, kind) \in Int
  BY <1>1, SumType
<1>3. on # None => SumOf(Append(wire, e), kind) = SumOf(wire, kind) + Adds(e, kind)
  BY <1>1, SumAppend, UnderWayStepwise
<1> QED BY <1>2, <1>3 DEF ToWire

LEMMA PumpSum ==
  ASSUME MouseInv, ring # <<>>, NEW kind \in {"rel", "wheel"}
  PROVE  /\ Head(ring) \in RawEvents /\ SumOf(Tail(ring), kind) \in Int
         /\ SumOf(ring, kind) = SumOf(Tail(ring), kind) + Adds(Head(ring), kind)
<1>1. ring \in Seq(RawEvents)
  BY DEF MouseInv, RingOK
<1>2. Head(ring) \in RawEvents /\ Tail(ring) \in Seq(RawEvents)
  BY <1>1, HeadTailProperties
<1> QED BY <1>1, <1>2, SumType, SumTail, UnderWayStepwise

LEMMA DispatchSum ==
  ASSUME MouseInv, wire # <<>>, NEW kind \in {"frame", "axis"}
  PROVE  /\ Head(wire) \in Frames /\ SumOf(Tail(wire), kind) \in Int
         /\ SumOf(wire, kind) = SumOf(Tail(wire), kind) + Adds(Head(wire), kind)
<1>1. wire \in Seq(Frames)
  BY DEF MouseInv, WireOK
<1>2. Head(wire) \in Frames /\ Tail(wire) \in Seq(Frames)
  BY <1>1, HeadTailProperties
<1> QED BY <1>1, <1>2, SumType, SumTail, UnderWayStepwise

\* Released frames are turned as much, and moved as much unless called off.
LEMMA ReleasedSum ==
  ASSUME NEW s \in Seq(Frames),
         \A i \in DOMAIN s : s[i].kind = "frame" /\ ~s[i].abs => s[i].d = 0
  PROVE  SumOf(Released(s), "frame") = SumOf(s, "frame")
<1>1. /\ DOMAIN Released(s) = DOMAIN s
      /\ \A i \in DOMAIN s : Released(s)[i].kind = s[i].kind
      /\ \A i \in DOMAIN s : s[i].kind = "frame" =>
           Released(s)[i].d = IF s[i].abs THEN s[i].d ELSE 0
  BY ReleasedIs
<1> QED BY <1>1, SumSame

-----------------------------------------------------------------------------
(* The button.                                                               *)

LEMMA Appended ==
  ASSUME NEW E, NEW s \in Seq(E), NEW e \in E
  PROVE  /\ DOMAIN s = 1..Len(s) /\ DOMAIN Append(s, e) = 1..Len(s) + 1
         /\ Len(Append(s, e)) = Len(s) + 1 /\ Len(s) \in Nat
         /\ \A i \in 1..Len(s) : Append(s, e)[i] = s[i]
         /\ Append(s, e)[Len(s) + 1] = e
BY AppendProperties, LenProperties

LEMMA Tailed ==
  ASSUME NEW E, NEW s \in Seq(E), s # <<>>
  PROVE  /\ DOMAIN s = 1..Len(s) /\ DOMAIN Tail(s) = 1..Len(s) - 1
         /\ Len(Tail(s)) = Len(s) - 1 /\ Len(s) \in Nat \ {0}
         /\ \A i \in 1..Len(s) - 1 : Tail(s)[i] = s[i+1]
         /\ Head(s) = s[1]
<1>1. /\ Tail(s) \in Seq(E) /\ Len(Tail(s)) = Len(s) - 1 /\ Head(s) = s[1]
      /\ \A i \in 1..Len(Tail(s)) : Tail(s)[i] = s[i+1]
  BY HeadTailProperties
<1>2. DOMAIN s = 1..Len(s) /\ DOMAIN Tail(s) = 1..Len(Tail(s)) /\ Len(s) \in Nat
      /\ Len(Tail(s)) \in Nat
  BY <1>1, LenProperties
<1> QED BY <1>1, <1>2

LEMMA EndsAppend ==
  ASSUME NEW E, NEW s \in Seq(E), NEW e \in E, NEW told, NEW b, NEW c, Ends(s, told, b),
         e.kind = "button" => (e.down <=> c), e.kind # "button" => (b <=> c)
  PROVE  Ends(Append(s, e), told, c)
<1> DEFINE t == Append(s, e)
           n == Len(s)
           Changes(i) == t[i].kind = "button"
<1>1. /\ DOMAIN s = 1..n /\ DOMAIN t = 1..n + 1 /\ Len(t) = n + 1 /\ n \in Nat
      /\ \A i \in 1..n : t[i] = s[i]
      /\ t[n + 1] = e
  BY Appended
<1> HIDE DEF t, n
<1>2. ASSUME NEW i \in 1..n + 1, Changes(i), \A j \in i+1..n + 1 : ~Changes(j)
      PROVE  t[i].down <=> c
  <2>1. CASE i = n + 1
    BY <1>1, <1>2, <2>1
  <2>2. CASE i # n + 1
    <3>1. i \in 1..n /\ n + 1 \in i+1..n + 1
      BY <1>1, <2>2
    <3>2. e.kind # "button" /\ \A j \in i+1..n : s[j].kind # "button"
      BY <1>1, <1>2, <3>1
    <3>3. s[i].down <=> b
      BY <1>1, <1>2, <3>1, <3>2 DEF Ends, n
    <3> QED BY <1>1, <3>1, <3>2, <3>3
  <2> QED BY <2>1, <2>2
<1>3. ASSUME \A j \in 1..n + 1 : ~Changes(j) PROVE told <=> c
  <2>1. e.kind # "button" /\ \A j \in 1..n : s[j].kind # "button"
    BY <1>1, <1>3
  <2> QED BY <1>1, <2>1 DEF Ends
<1> QED BY <1>1, <1>2, <1>3 DEF Ends, t

\* A change settles what it ends on, whatever was under way.
LEMMA EndsSet ==
  ASSUME NEW E, NEW s \in Seq(E), NEW e \in E, NEW told, NEW c, e.kind = "button", e.down <=> c
  PROVE  Ends(Append(s, e), told, c)
<1> DEFINE t == Append(s, e)
           n == Len(s)
<1>1. DOMAIN t = 1..n + 1 /\ Len(t) = n + 1 /\ n \in Nat /\ t[n + 1] = e
  BY Appended
<1> HIDE DEF t, n
<1>2. \A i \in 1..n + 1 : i = n + 1 \/ n + 1 \in i+1..n + 1
  BY <1>1
<1>3. n + 1 \in 1..n + 1
  BY <1>1
<1> QED BY <1>1, <1>2, <1>3 DEF Ends, t

LEMMA EndsTail ==
  ASSUME NEW E, NEW s \in Seq(E), s # <<>>, NEW told, NEW next, NEW b, Ends(s, told, b),
         Head(s).kind = "button" => (next <=> Head(s).down),
         Head(s).kind # "button" => (next <=> told)
  PROVE  Ends(Tail(s), next, b)
<1> DEFINE t == Tail(s)
           n == Len(s) - 1
           Changes(i) == t[i].kind = "button"
<1>1. /\ DOMAIN s = 1..n + 1 /\ DOMAIN t = 1..n /\ Len(t) = n /\ n \in Nat /\ Len(s) = n + 1
      /\ \A i \in 1..n : t[i] = s[i+1]
      /\ Head(s) = s[1]
  BY Tailed
<1> HIDE DEF t, n
<1>2. ASSUME NEW i \in 1..n, Changes(i), \A j \in i+1..n : ~Changes(j)
      PROVE  t[i].down <=> b
  <2>1. i + 1 \in 1..n + 1 /\ s[i+1] = t[i]
    BY <1>1
  <2>2. ASSUME NEW j \in i+1+1..n + 1 PROVE s[j].kind # "button"
    <3>1. j - 1 \in 1..n /\ j - 1 \in i+1..n /\ j - 1 + 1 = j
      BY <1>1
    <3> QED BY <1>1, <1>2, <3>1
  <2> QED BY <1>1, <1>2, <2>1, <2>2 DEF Ends
<1>3. ASSUME \A j \in 1..n : ~Changes(j) PROVE next <=> b
  <2>1. ASSUME NEW j \in 2..n + 1 PROVE s[j].kind # "button"
    <3>1. j - 1 \in 1..n /\ j - 1 + 1 = j
      BY <1>1
    <3> QED BY <1>1, <1>3, <3>1
  <2>2. CASE Head(s).kind = "button"
    <3>1. 1 \in 1..n + 1 /\ 1 + 1..n + 1 = 2..n + 1
      BY <1>1
    <3>2. s[1].down <=> b
      BY <1>1, <2>1, <2>2, <3>1 DEF Ends
    <3> QED BY <1>1, <2>2, <3>2
  <2>3. CASE Head(s).kind # "button"
    <3>1. ASSUME NEW j \in 1..n + 1 PROVE s[j].kind # "button"
      <4>1. j = 1 \/ j \in 2..n + 1
        BY <1>1
      <4> QED BY <1>1, <2>1, <2>3, <4>1
    <3> QED BY <1>1, <2>3, <3>1 DEF Ends
  <2> QED BY <2>2, <2>3
<1> QED BY <1>1, <1>2, <1>3 DEF Ends, t

LEMMA EndsReleased ==
  ASSUME NEW s \in Seq(Frames), NEW told, NEW b, Ends(s, told, b)
  PROVE  Ends(Released(s), told, b)
<1>1. /\ Len(Released(s)) = Len(s) /\ DOMAIN Released(s) = 1..Len(s) /\ DOMAIN s = 1..Len(s)
      /\ \A i \in 1..Len(s) : /\ Released(s)[i].kind = s[i].kind
                              /\ s[i].kind # "frame" => Released(s)[i] = s[i]
  BY ReleasedIs, LenProperties
<1>2. \A i \in 1..Len(s) : s[i].kind = "button" => Released(s)[i] = s[i]
  BY <1>1
<1>3. Len(s) \in Nat
  BY LenProperties
<1>4. \A i \in 1..Len(s) : i+1..Len(s) \subseteq 1..Len(s)
  BY <1>3
<1> HIDE DEF Released
<1> QED BY <1>1, <1>2, <1>4 DEF Ends

-----------------------------------------------------------------------------
(* What the functions of SDL_mouse.c tell.                                   *)

LEMMA SendBothTells ==
  ASSUME NEW m \in MouseStates, NEW focus \in Windows \cup {None}, NEW x \in Int,
         NEW xrel \in Int, Constrain(m, focus, x) \in Int
  PROVE  /\ SendBoth(m, focus, x, xrel).x = Constrain(m, focus, x)
         /\ SendBoth(m, focus, x, xrel).last_x = Constrain(m, focus, x)
         /\ SendBoth(m, focus, x, xrel).has_position
         /\ SendBoth(m, focus, x, xrel).xrel_acc = m.xrel_acc + xrel
         /\ SendBoth(m, focus, x, xrel).buttons = m.buttons
<1> DEFINE c == Constrain(m, focus, x)
<1> HIDE DEF c
<1>1. m.xrel_acc + xrel \in Int
  BY DEF MouseStates
<1>2. SendBoth(m, focus, x, xrel) =
        [m EXCEPT !.x = c, !.last_x = c, !.has_position = TRUE, !.xrel_acc = m.xrel_acc + xrel]
  BY DEF SendBoth, Tell, At, MouseStates, c
<1> QED BY <1>1, <1>2 DEF MouseStates, c

LEMMA SendRelativeTells ==
  ASSUME NEW m \in MouseStates, NEW focus \in Windows \cup {None}, NEW xrel \in Int
  PROVE  /\ SendRelative(m, focus, xrel).xrel_acc = m.xrel_acc + xrel
         /\ SendRelative(m, focus, xrel).has_position = m.has_position
         /\ SendRelative(m, focus, xrel).buttons = m.buttons
         /\ m.x = m.last_x => SendRelative(m, focus, xrel).x = SendRelative(m, focus, xrel).last_x
<1> DEFINE c == Constrain(m, focus, m.x + xrel)
           p == IF m.has_position THEN At(m, c) ELSE m
<1> HIDE DEF c
<1>1. /\ p.xrel_acc = m.xrel_acc /\ p.has_position = m.has_position /\ p.buttons = m.buttons
      /\ m.x = m.last_x => p.x = p.last_x
      /\ p = [p EXCEPT !.xrel_acc = p.xrel_acc]
      /\ DOMAIN p = {"x", "last_x", "has_position", "xrel_acc", "buttons"}
  BY DEF At, MouseStates
<1>2. SendRelative(m, focus, xrel) = Tell(p, xrel)
  BY DEF SendRelative, c
<1> HIDE DEF p
<1>3. Tell(p, xrel) = [p EXCEPT !.xrel_acc = p.xrel_acc + xrel]
  BY DEF Tell
<1> QED BY <1>1, <1>2, <1>3

LEMMA SendAbsoluteTells ==
  ASSUME NEW m \in MouseStates, NEW focus \in Windows, NEW x \in 0..Width[focus]-1,
         m.has_position => m.x = m.last_x
  PROVE  /\ SendAbsolute(m, focus, x).x = x /\ SendAbsolute(m, focus, x).last_x = x
         /\ SendAbsolute(m, focus, x).has_position
         /\ SendAbsolute(m, focus, x).xrel_acc =
              m.xrel_acc + (IF m.has_position THEN x - m.last_x ELSE 0)
         /\ SendAbsolute(m, focus, x).buttons = m.buttons
<1>1. Constrain(m, focus, x) = x /\ x \in Int
  BY ConstrainKeeps
<1>2. m.last_x \in Int /\ m.xrel_acc \in Int /\ x - m.last_x \in Int
  BY <1>1 DEF MouseStates
<1>3. \A xrel \in Int :
        /\ SendBoth(m, focus, x, xrel).x = x /\ SendBoth(m, focus, x, xrel).last_x = x
        /\ SendBoth(m, focus, x, xrel).has_position
        /\ SendBoth(m, focus, x, xrel).xrel_acc = m.xrel_acc + xrel
        /\ SendBoth(m, focus, x, xrel).buttons = m.buttons
  BY <1>1, SendBothTells
<1>4. CASE ~m.has_position
  BY <1>2, <1>3, <1>4 DEF SendAbsolute
<1>5. CASE m.has_position /\ x = m.last_x
  BY <1>1, <1>2, <1>5 DEF SendAbsolute
<1>6. CASE m.has_position /\ x # m.last_x
  BY <1>1, <1>2, <1>3, <1>6 DEF SendAbsolute
<1> QED BY <1>4, <1>5, <1>6

LEMMA PutRightTells ==
  ASSUME NEW m \in MouseStates, NEW x
  PROVE  /\ [m EXCEPT !.x = x].xrel_acc = m.xrel_acc
         /\ [m EXCEPT !.x = x].buttons = m.buttons
BY DEF MouseStates

LEMMA RawMotionTells ==
  ASSUME MouseInv, NEW d \in Int, NEW kf \in Windows \cup {None}
  PROVE  /\ RawMotion(mouse, d, kf).xrel_acc = mouse.xrel_acc + d
         /\ RawMotion(mouse, d, kf).buttons = mouse.buttons
<1> DEFINE w == IF mouse_focus # None THEN mouse_focus ELSE kf
           x == IF relative_mode_window = None THEN Clamp(mouse.x + d, Width[w] - 1)
                ELSE mouse.x + d
<1>1. mouse \in MouseStates /\ mouse_focus \in Windows \cup {None} /\ Inside(mouse, mouse_focus)
      /\ mouse.x + d \in Int
  BY DEF MouseInv, MouseOK, FocusOK, MouseStates
<1>2. w # None => x \in Int
  BY <1>1, MouseAssumption DEF Clamp
<1>3. RawMotion(mouse, d, kf) = IF w = None THEN SendRelative(mouse, mouse_focus, d)
                                ELSE SendBoth(mouse, mouse_focus, x, d)
  BY DEF RawMotion
<1> HIDE DEF w, x
<1>4. w # None => Constrain(mouse, mouse_focus, x) \in Int
  BY <1>1, <1>2, ConstrainInside
<1> QED BY <1>1, <1>2, <1>3, <1>4, SendRelativeTells, SendBothTells

\* A frame about the window with the pointer: with raw input it may put the
\* position right, without it tells what it brings.
LEMMA FrameTells ==
  ASSUME MouseInv, WireMoves, PointerFrame
  PROVE  LET f == Head(wire) IN
         /\ f \in Frames /\ f.win = mouse_focus /\ mouse_focus \in Windows
         /\ mouse'.buttons = mouse.buttons
         /\ raw_active => mouse'.xrel_acc = mouse.xrel_acc
         /\ ~raw_active =>
              /\ mouse'.x = mouse'.last_x /\ mouse'.has_position
              /\ mouse'.xrel_acc = mouse.xrel_acc + (IF f.abs THEN f.x - mouse.last_x ELSE 0)
                                                  + (IF f.rel THEN f.d ELSE 0)
              /\ ~f.rel => mouse'.last_x = IF f.abs THEN f.x ELSE mouse.last_x
<1> DEFINE f == Head(wire)
           m == IF f.abs THEN PointerMotion(mouse, f.x) ELSE mouse
<1>1. f \in Frames /\ f.win = mouse_focus
  <2>1. "frame" \notin Crossing
    BY DEF Crossing
  <2> QED BY <2>1, HandledOK DEF PointerFrame, userVars
<1>2. /\ mouse_focus \in Windows /\ f.x \in Int /\ f.d \in Int
      /\ f.abs \in BOOLEAN /\ f.rel \in BOOLEAN
      /\ f.abs => f.x \in 0..Width[mouse_focus]-1
  BY <1>1, FramesSplit DEF PointerFrame, Arrives, Directions
<1>3. mouse' = IF f.rel THEN FlushRelative(m, f.d) ELSE m
  BY DEF PointerFrame
<1> HIDE DEF f
<1>4. mouse \in MouseStates /\ mouse_focus # None /\ mouse.xrel_acc \in Int /\ mouse.last_x \in Int
  BY <1>2, MouseAssumption DEF MouseInv, MouseOK, MouseStates
<1>5. m \in MouseStates
  BY <1>2, <1>4, PointerMotionInside DEF MouseInv, MouseOK
<1>6. CASE raw_active
  <2>1. m.xrel_acc = mouse.xrel_acc /\ m.buttons = mouse.buttons
    BY <1>4, <1>6, PutRightTells DEF PointerMotion
  <2>2. mouse' = m
    BY <1>3, <1>6 DEF FlushRelative
  <2> QED BY <1>1, <1>2, <1>6, <2>1, <2>2 DEF f
<1>7. CASE ~raw_active
  <2>1. mouse.has_position /\ mouse.x = mouse.last_x
    BY <1>4, <1>7 DEF WireMoves
  <2>2. /\ m.x = m.last_x /\ m.has_position /\ m.buttons = mouse.buttons
        /\ m.xrel_acc = mouse.xrel_acc + (IF f.abs THEN f.x - mouse.last_x ELSE 0)
        /\ m.last_x = IF f.abs THEN f.x ELSE mouse.last_x
    <3>1. CASE f.abs
      <4>1. m = SendAbsolute(mouse, mouse_focus, f.x)
        BY <1>4, <1>7, <3>1 DEF PointerMotion
      <4> QED BY <1>2, <1>4, <2>1, <3>1, <4>1, SendAbsoluteTells
    <3>2. CASE ~f.abs
      BY <1>4, <2>1, <3>2
    <3> QED BY <3>1, <3>2
  <2> HIDE DEF m
  <2>3. CASE f.rel
    <3>1. mouse' = SendRelative(m, mouse_focus, f.d)
      BY <1>3, <1>7, <2>3 DEF FlushRelative
    <3>2. /\ mouse'.x = mouse'.last_x /\ mouse'.has_position /\ mouse'.buttons = mouse.buttons
          /\ mouse'.xrel_acc = m.xrel_acc + f.d
      BY <1>2, <1>5, <2>2, <3>1, SendRelativeTells
    <3> QED BY <1>1, <1>2, <1>7, <2>2, <2>3, <3>2 DEF f
  <2>4. CASE ~f.rel
    <3>1. mouse' = m
      BY <1>3, <2>4
    <3>2. m.xrel_acc \in Int
      BY <1>5 DEF MouseStates
    <3> QED BY <1>1, <1>2, <1>4, <1>7, <2>2, <2>4, <3>1, <3>2 DEF f
  <2> QED BY <2>3, <2>4
<1> QED BY <1>6, <1>7

\* An enter says where the pointer is, and tells no movement.
LEMMA EnterTells ==
  ASSUME MouseInv, PointerEnter
  PROVE  /\ Head(wire) \in Frames /\ mouse_focus' \in Windows
         /\ mouse'.x = Head(wire).x /\ mouse'.last_x = Head(wire).x /\ mouse'.has_position
         /\ mouse'.xrel_acc = mouse.xrel_acc /\ mouse'.buttons = mouse.buttons
<1> DEFINE m == Head(wire)
           fresh == [mouse EXCEPT !.has_position = FALSE]
<1>1. wire # <<>> /\ m.kind = "enter" /\ mouse_focus' = m.win
      /\ mouse' = SendAbsolute(fresh, m.win, m.x)
  BY DEF PointerEnter, Arrives
<1>2. m \in Frames
  BY <1>1, HeadTailProperties DEF MouseInv, WireOK
<1>3. m.win \in Windows /\ m.x \in 0..Width[m.win]-1
  BY <1>1, <1>2, FramesSplit
<1>4. /\ fresh \in MouseStates /\ ~fresh.has_position
      /\ fresh.xrel_acc = mouse.xrel_acc /\ fresh.buttons = mouse.buttons
      /\ mouse.xrel_acc \in Int
  BY DEF MouseInv, MouseOK, MouseStates
<1> HIDE DEF fresh, m
<1>5. /\ mouse'.x = m.x /\ mouse'.last_x = m.x /\ mouse'.has_position
      /\ mouse'.xrel_acc = fresh.xrel_acc + 0 /\ mouse'.buttons = fresh.buttons
  BY <1>1, <1>3, <1>4, SendAbsoluteTells
<1> QED BY <1>1, <1>2, <1>3, <1>4, <1>5 DEF m

LEMMA ButtonSent ==
  ASSUME MouseInv, ButtonOnce, NEW e \in RawEvents, ToRing(e),
         NEW f, on # None => f \in Frames, ToWire(f), UNCHANGED <<raw_active, on, mouse>>,
         \/ e.kind # "button" /\ f.kind # "button" /\ UNCHANGED <<held, button_lost>>
         \/ /\ e.kind = "button" /\ f.kind = "button" /\ (e.down <=> held') /\ (f.down <=> held')
            /\ button_lost' = (raw_active /\ ~Fits)
  PROVE  ButtonOnce'
<1>1. ring \in Seq(RawEvents) /\ wire \in Seq(Frames)
  BY DEF MouseInv, RingOK, WireOK
<1>2. CASE raw_active
  <2>1. SUFFICES ASSUME ~button_lost' PROVE Ends(ring', mouse.buttons, held')
    BY <1>2 DEF ButtonOnce
  <2>2. CASE Fits
    <3>1. ring' = Append(ring, e)
      BY <2>2 DEF ToRing
    <3>2. CASE e.kind = "button"
      BY <1>1, <3>1, <3>2, EndsSet
    <3>3. CASE e.kind # "button"
      <4>1. Ends(ring, mouse.buttons, held) /\ held' = held
        BY <1>2, <2>1, <3>3 DEF ButtonOnce
      <4> QED BY <1>1, <3>1, <3>3, <4>1, EndsAppend
    <3> QED BY <3>2, <3>3
  <2>3. CASE ~Fits
    <3>0. ~(button_lost' = (raw_active /\ ~Fits))
      BY <1>2, <2>1, <2>3, Zenon
    <3>1. ~button_lost /\ held' = held /\ ring' = ring
      BY <2>1, <2>3, <3>0 DEF ToRing
    <3> QED BY <1>2, <3>1 DEF ButtonOnce
  <2> QED BY <2>2, <2>3
<1>3. CASE ~raw_active
  <2> DEFINE b == held /\ on # None
             c == held' /\ on # None
  <2>1. Ends(wire, mouse.buttons, b)
    BY <1>3 DEF ButtonOnce
  <2>2. SUFFICES Ends(wire', mouse.buttons, c)
    BY <1>3 DEF ButtonOnce
  <2>3. CASE on = None
    <3>1. wire' = wire /\ (b <=> FALSE) /\ (c <=> FALSE)
      BY <2>3 DEF ToWire
    <3> HIDE DEF b, c
    <3> QED BY <2>1, <3>1 DEF Ends
  <2>4. CASE on # None
    <3>1. wire' = Append(wire, f) /\ (b <=> held) /\ (c <=> held')
      BY <2>4 DEF ToWire
    <3>2. /\ f.kind = "button" => (f.down <=> c)
          /\ f.kind # "button" => (b <=> c)
      BY <3>1
    <3> HIDE DEF b, c
    <3> QED BY <1>1, <2>1, <2>4, <3>1, <3>2, EndsAppend
  <2> QED BY <2>3, <2>4
<1> QED BY <1>2, <1>3

LEMMA ButtonHandled ==
  ASSUME MouseInv, ButtonOnce, wire # <<>>, wire' \in {Tail(wire), Released(Tail(wire))},
         UNCHANGED <<raw_active, held, on, ring, button_lost>>,
         mouse'.buttons = IF Head(wire).kind = "button" /\ ~raw_active THEN Head(wire).down
                          ELSE mouse.buttons
  PROVE  ButtonOnce'
<1>1. CASE raw_active
  BY <1>1 DEF ButtonOnce
<1>2. CASE ~raw_active
  <2> DEFINE b == held /\ on # None
             next == mouse'.buttons
  <2>1. wire \in Seq(Frames) /\ Tail(wire) \in Seq(Frames)
    BY HeadTailProperties DEF MouseInv, WireOK
  <2>2. Ends(wire, mouse.buttons, b)
    BY <1>2 DEF ButtonOnce
  <2>3. /\ Head(wire).kind = "button" => (next <=> Head(wire).down)
        /\ Head(wire).kind # "button" => (next <=> mouse.buttons)
    BY <1>2
  <2> HIDE DEF next
  <2>4. Ends(Tail(wire), next, b)
    <3> HIDE DEF b
    <3> QED BY <2>1, <2>2, <2>3, EndsTail
  <2>5. Ends(wire', next, b)
    <3> HIDE DEF b
    <3> QED BY <2>1, <2>4, EndsReleased
  <2>6. ~raw_active' /\ (held' /\ on' # None <=> b)
    BY <1>2
  <2> QED BY <2>5, <2>6 DEF ButtonOnce, next
<1> QED BY <1>1, <1>2

LEMMA ButtonStep ==
  ASSUME MouseInv, WireMoves, ButtonOnce, [Next]_vars
  PROVE  ButtonOnce'
<1>1. ASSUME NEW d \in Directions, Move(d) PROVE ButtonOnce'
  <2> DEFINE f == Frame(IF link = "locked" THEN cursor ELSE cursor + d, ~(link = "locked"), d)
             e == [kind |-> "rel", d |-> d]
  <2>1. on # None => f \in Frames
    BY <1>1, MoveSends
  <2>2. e \in RawEvents /\ e.kind # "button" /\ f.kind # "button"
    BY DEF RawEvents, Frame
  <2>3. ToRing(e) /\ ToWire(f) /\ UNCHANGED <<raw_active, on, mouse, held, button_lost>>
    BY <1>1 DEF Move
  <2> HIDE DEF e, f
  <2> QED BY <2>1, <2>2, <2>3, ButtonSent
<1>2. ASSUME NEW d \in Directions, Turn(d) PROVE ButtonOnce'
  <2> DEFINE f == [kind |-> "axis", win |-> on, d |-> d]
             e == [kind |-> "wheel", d |-> d]
  <2>1. on # None => f \in Frames
    BY DEF Frames, MouseInv, UserOK
  <2>2. e \in RawEvents /\ e.kind # "button" /\ f.kind # "button"
    BY DEF RawEvents
  <2>3. ToRing(e) /\ ToWire(f) /\ UNCHANGED <<raw_active, on, mouse, held, button_lost>>
    BY <1>2 DEF Turn, userVars
  <2> HIDE DEF e, f
  <2> QED BY <2>1, <2>2, <2>3, ButtonSent
<1>3. ASSUME NEW w \in Windows \cup {None}, NEW x \in Int, w # None => x \in 0..Width[w]-1,
             Cross(w, x)
      PROVE  ButtonOnce'
  <2> DEFINE e == IF w = None THEN [kind |-> "leave", win |-> None]
                  ELSE [kind |-> "enter", win |-> w, x |-> x, unlocked |-> link = "unlocked"]
  <2>1. e \in Frames /\ e.kind # "button"
    BY <1>3 DEF Frames
  <2>2. /\ wire' = Append(wire, e) /\ UNCHANGED <<raw_active, ring, held, mouse, button_lost>>
        /\ ~held /\ wire \in Seq(Frames)
    BY <1>3 DEF Cross, historyVars, MouseInv, WireOK
  <2> HIDE DEF e
  <2>3. CASE raw_active
    BY <2>2, <2>3 DEF ButtonOnce
  <2>4. CASE ~raw_active
    <3> DEFINE b == held /\ on # None
               c == held' /\ on' # None
    <3>1. Ends(wire, mouse.buttons, b)
      BY <2>4 DEF ButtonOnce
    <3>2. b <=> c
      BY <2>2
    <3> HIDE DEF b, c
    <3>3. Ends(wire', mouse.buttons, c)
      BY <2>1, <2>2, <3>1, <3>2, EndsAppend
    <3> QED BY <2>2, <2>4, <3>3 DEF ButtonOnce, c
  <2> QED BY <2>3, <2>4
<1>4. CASE Press
  <2> DEFINE f == [kind |-> "button", win |-> on, down |-> ~held]
             e == [kind |-> "button", down |-> ~held]
  <2>1. held \in BOOLEAN /\ (~held) \in BOOLEAN
    BY DEF MouseInv, UserOK
  <2>2. e \in RawEvents /\ (on # None => f \in Frames)
    BY <2>1 DEF RawEvents, Frames, MouseInv, UserOK
  <2>3. e.kind = "button" /\ f.kind = "button" /\ e.down = ~held /\ f.down = ~held
    OBVIOUS
  <2>4. /\ ToRing(e) /\ ToWire(f) /\ UNCHANGED <<raw_active, on, mouse>>
        /\ held' = ~held /\ button_lost' = (raw_active /\ ~Fits)
    BY <1>4 DEF Press
  <2> HIDE DEF e, f
  <2>5. (e.down <=> held') /\ (f.down <=> held')
    BY <2>3, <2>4
  <2> QED BY <2>2, <2>3, <2>4, <2>5, ButtonSent
<1>5. CASE PointerLeave
  <2>1. mouse'.buttons = mouse.buttons
    BY <1>5 DEF PointerLeave, MouseInv, MouseOK, MouseStates
  <2>2. wire # <<>> /\ wire' = Tail(wire) /\ Head(wire).kind = "leave"
        /\ UNCHANGED <<raw_active, held, on, ring, button_lost>>
    BY <1>5 DEF PointerLeave, Arrives, userVars, historyVars
  <2> QED BY <2>1, <2>2, ButtonHandled
<1>6. CASE PointerFrame
  <2>1. mouse'.buttons = mouse.buttons
    BY <1>6, FrameTells
  <2>2. wire # <<>> /\ wire' = Tail(wire) /\ Head(wire).kind = "frame"
        /\ UNCHANGED <<raw_active, held, on, ring, button_lost>>
    BY <1>6 DEF PointerFrame, Arrives, userVars
  <2> QED BY <2>1, <2>2, ButtonHandled
<1>7. CASE PointerEnter
  <2>1. mouse'.buttons = mouse.buttons
    BY <1>7, EnterTells
  <2>2. wire # <<>> /\ wire' \in {Tail(wire), Released(Tail(wire))} /\ Head(wire).kind = "enter"
        /\ UNCHANGED <<raw_active, held, on, ring, button_lost>>
    BY <1>7 DEF PointerEnter, Arrives, userVars
  <2> QED BY <2>1, <2>2, ButtonHandled
<1>8. CASE PointerAxisFrame
  <2>1. wire # <<>> /\ wire' = Tail(wire) /\ Head(wire).kind = "axis"
        /\ UNCHANGED <<raw_active, held, on, ring, button_lost, mouse>>
    BY <1>8 DEF PointerAxisFrame, Arrives, userVars
  <2> QED BY <2>1, ButtonHandled
<1>9. CASE PointerButtonFrame
  <2>1. wire # <<>> /\ wire' = Tail(wire) /\ Head(wire).kind = "button"
        /\ UNCHANGED <<raw_active, held, on, ring, button_lost>>
    BY <1>9 DEF PointerButtonFrame, Arrives, userVars, historyVars
  <2>2. mouse' = IF raw_active THEN mouse ELSE [mouse EXCEPT !.buttons = Head(wire).down]
    BY <1>9 DEF PointerButtonFrame, PointerButton, SendButton
  <2>3. ~raw_active => mouse'.buttons = Head(wire).down
    BY <2>2 DEF MouseInv, MouseOK, MouseStates
  <2> QED BY <2>1, <2>2, <2>3, ButtonHandled
<1>10. CASE RawPump
  <2> DEFINE e == Head(ring)
             next == mouse'.buttons
  <2>1. ring # <<>> /\ ring' = Tail(ring) /\ UNCHANGED <<raw_active, held, button_lost>>
    BY <1>10 DEF RawPump, userVars
  <2>2. raw_active /\ ring \in Seq(RawEvents) /\ e \in RawEvents
    BY <2>1, PumpSum DEF MouseInv, RingOK
  <2>3. PICK kf \in Windows \cup {None} :
          mouse' = CASE e.kind = "rel" -> RawMotion(mouse, e.d, kf)
                     [] e.kind = "button" -> SendButton(mouse, e.down)
                     [] OTHER -> mouse
    BY <1>10 DEF RawPump
  <2>4. mouse'.buttons = IF e.kind = "button" THEN e.down ELSE mouse.buttons
    <3>1. CASE e.kind = "rel"
      <4>1. e.d \in Int
        BY <2>2, <3>1 DEF RawEvents, Directions
      <4> QED BY <2>3, <3>1, <4>1, RawMotionTells
    <3>2. CASE e.kind = "button"
      <4>1. mouse' = [mouse EXCEPT !.buttons = e.down]
        BY <2>3, <3>2 DEF SendButton
      <4> QED BY <3>2, <4>1 DEF MouseInv, MouseOK, MouseStates
    <3>3. CASE e.kind \notin {"rel", "button"}
      BY <2>3, <3>3
    <3> QED BY <3>1, <3>2, <3>3
  <2>5. SUFFICES ASSUME ~button_lost PROVE Ends(ring', next, held)
    BY <2>1, <2>2 DEF ButtonOnce
  <2>6. Ends(ring, mouse.buttons, held)
    BY <2>2, <2>5 DEF ButtonOnce
  <2>7. /\ Head(ring).kind = "button" => (next <=> Head(ring).down)
        /\ Head(ring).kind # "button" => (next <=> mouse.buttons)
    BY <2>4
  <2> HIDE DEF next
  <2> QED BY <2>1, <2>2, <2>6, <2>7, EndsTail
<1>11. CASE GetRelativeMouseState
  <2>1. mouse'.buttons = mouse.buttons
    BY <1>11 DEF GetRelativeMouseState, MouseInv, MouseOK, MouseStates
  <2>2. UNCHANGED <<raw_active, held, on, ring, wire, button_lost>>
    BY <1>11 DEF GetRelativeMouseState, userVars, streamVars
  <2> QED BY <2>1, <2>2 DEF ButtonOnce, Ends
<1>12. ASSUME NEW w \in Windows \cup {None}, SetRelativeMouseMode(w) PROVE ButtonOnce'
  <2>1. wire' = Released(wire) /\ UNCHANGED <<raw_active, held, on, ring, mouse, button_lost>>
    BY <1>12 DEF SetRelativeMouseMode, userVars
  <2>2. CASE raw_active
    BY <2>1, <2>2 DEF ButtonOnce
  <2>3. CASE ~raw_active
    <3> DEFINE b == held /\ on # None
    <3>1. Ends(wire, mouse.buttons, b)
      BY <2>3 DEF ButtonOnce
    <3>2. Ends(wire', mouse.buttons, b)
      <4> HIDE DEF b
      <4> QED BY <2>1, <3>1, EndsReleased DEF MouseInv, WireOK
    <3> QED BY <2>1, <2>3, <3>2 DEF ButtonOnce
  <2> QED BY <2>2, <2>3
<1>13. CASE Compositor \/ UNCHANGED vars
  <2>1. UNCHANGED <<raw_active, held, on, ring, wire, mouse, button_lost>>
    BY <1>13 DEF Compositor, SrvRelative, SrvLock, SrvUnlock, vars, userVars, streamVars,
                 historyVars
  <2> QED BY <2>1 DEF ButtonOnce, Ends
<1> QED
  <2>1. CASE User
    <3>1. \A w \in Windows : \A x \in 0..Width[w]-1 : w # None /\ x \in Int
      BY MouseAssumption
    <3> QED BY <1>1, <1>2, <1>3, <1>4, <2>1, <3>1 DEF User
  <2> QED BY <2>1, <1>5, <1>6, <1>7, <1>8, <1>9, <1>10, <1>11, <1>12, <1>13
      DEF Next, Dispatch, App

-----------------------------------------------------------------------------
(* Places.                                                                   *)

LEMMA LinkedPair ==
  ASSUME NEW s, NEW known, PlacesLinked(s, known), NEW i \in DOMAIN s, NEW j \in DOMAIN s, i < j,
         Placed(s[i]), s[j].kind = "frame", NonePlaced(s, i+1, j-1)
  PROVE  s[j].x = s[i].x + Shift(s[j])
BY DEF PlacesLinked

LEMMA LinkedAppend ==
  ASSUME NEW s \in Seq(Frames), NEW e \in Frames, NEW known, NEW at, PlacesLinked(s, known),
         e.kind = "frame" => LeadsTo(s, known, at) /\ e.x = at + Shift(e)
  PROVE  PlacesLinked(Append(s, e), known)
<1> DEFINE t == Append(s, e)
           n == Len(s)
<1>1. /\ DOMAIN s = 1..n /\ DOMAIN t = 1..n + 1 /\ n \in Nat
      /\ \A i \in 1..n : t[i] = s[i]
      /\ t[n + 1] = e
  BY Appended
<1> HIDE DEF t, n
<1>2. ASSUME NEW i \in Nat, NEW j \in 1..n + 1, NonePlaced(t, i, j-1), i >= 1 PROVE NonePlaced(s, i, j-1)
  BY <1>1, <1>2 DEF NonePlaced
<1>3. ASSUME NEW i \in 1..n + 1, NEW j \in 1..n + 1, i < j, Placed(t[i]), t[j].kind = "frame",
             NonePlaced(t, i+1, j-1)
      PROVE  t[j].x = t[i].x + Shift(t[j])
  <2>1. i \in 1..n /\ t[i] = s[i] /\ NonePlaced(s, i+1, j-1)
    BY <1>1, <1>2, <1>3
  <2>2. CASE j = n + 1
    <3>1. NonePlaced(s, i+1, n) /\ LeadsTo(s, known, at) /\ e.x = at + Shift(e)
      BY <1>1, <1>3, <2>1, <2>2
    <3>2. s[i].x = at
      BY <1>1, <1>3, <2>1, <3>1 DEF LeadsTo, n
    <3> QED BY <1>1, <2>1, <2>2, <3>1, <3>2
  <2>3. CASE j # n + 1
    <3>1. j \in 1..n /\ t[j] = s[j]
      BY <1>1, <2>3
    <3>2. i \in DOMAIN s /\ j \in DOMAIN s /\ Placed(s[i]) /\ s[j].kind = "frame"
      BY <1>1, <1>3, <2>1, <3>1
    <3>3. s[j].x = s[i].x + Shift(s[j])
      BY <1>3, <2>1, <3>2, LinkedPair
    <3> QED BY <2>1, <3>1, <3>3
  <2> QED BY <2>2, <2>3
<1>4. ASSUME NEW j \in 1..n + 1, t[j].kind = "frame", NonePlaced(t, 1, j-1), NEW x \in known
      PROVE  t[j].x = x + Shift(t[j])
  <2>1. NonePlaced(s, 1, j-1)
    BY <1>2, <1>4
  <2>2. CASE j = n + 1
    <3>1. NonePlaced(s, 1, n) /\ LeadsTo(s, known, at) /\ e.x = at + Shift(e)
      BY <1>1, <1>4, <2>1, <2>2
    <3>2. x = at
      BY <1>4, <3>1 DEF LeadsTo, n
    <3> QED BY <1>1, <2>2, <3>1, <3>2
  <2>3. CASE j # n + 1
    <3>1. j \in 1..n /\ t[j] = s[j]
      BY <1>1, <2>3
    <3> QED BY <1>1, <1>4, <2>1, <3>1 DEF PlacesLinked
  <2> QED BY <2>2, <2>3
<1> QED BY <1>1, <1>3, <1>4 DEF PlacesLinked, t

LEMMA LeadsAppend ==
  ASSUME NEW s \in Seq(Frames), NEW e \in Frames, NEW known, NEW at,
         IF Placed(e) THEN e.x = at ELSE LeadsTo(s, known, at)
  PROVE  LeadsTo(Append(s, e), known, at)
<1> DEFINE t == Append(s, e)
           n == Len(s)
<1>1. /\ DOMAIN s = 1..n /\ DOMAIN t = 1..n + 1 /\ n \in Nat /\ Len(t) = n + 1
      /\ \A i \in 1..n : t[i] = s[i]
      /\ t[n + 1] = e
  BY Appended
<1> HIDE DEF t, n
<1>2. CASE Placed(e)
  <2>1. \A i \in 1..n + 1 : i = n + 1 \/ n + 1 \in i+1..n + 1
    BY <1>1
  <2>2. n + 1 \in 1..n + 1
    BY <1>1
  <2> QED BY <1>1, <1>2, <2>1, <2>2 DEF LeadsTo, NonePlaced, t
<1>3. CASE ~Placed(e)
  <2>1. ASSUME NEW i \in Nat, i >= 1, NonePlaced(t, i, n + 1) PROVE NonePlaced(s, i, n)
    BY <1>1, <2>1 DEF NonePlaced
  <2>2. ASSUME NEW i \in 1..n + 1, Placed(t[i]), NonePlaced(t, i+1, n + 1) PROVE t[i].x = at
    <3>1. i \in 1..n /\ t[i] = s[i] /\ NonePlaced(s, i+1, n)
      BY <1>1, <1>3, <2>1, <2>2
    <3> QED BY <1>1, <1>3, <2>2, <3>1 DEF LeadsTo, n
  <2>3. NonePlaced(t, 1, n + 1) => known \subseteq {at}
    BY <1>3, <2>1 DEF LeadsTo, n
  <2> QED BY <1>1, <2>2, <2>3 DEF LeadsTo, t
<1> QED BY <1>2, <1>3

\* What is known of the place after the first message: the place it says, or
\* what was known before.
Passed(f, known, next) == next \subseteq (IF Placed(f) THEN {f.x} ELSE known)

LEMMA TailPlaces ==
  ASSUME NEW s \in Seq(Frames), s # <<>>, NEW known, NEW next, NEW at,
         Passed(Head(s), known, next)
  PROVE  /\ PlacesLinked(s, known) => PlacesLinked(Tail(s), next)
         /\ LeadsTo(s, known, at) => LeadsTo(Tail(s), next, at)
<1> DEFINE t == Tail(s)
           n == Len(s) - 1
<1>1. /\ DOMAIN s = 1..n + 1 /\ DOMAIN t = 1..n /\ Len(t) = n /\ n \in Nat /\ Len(s) = n + 1
      /\ \A i \in 1..n : t[i] = s[i+1]
      /\ Head(s) = s[1]
  BY Tailed
<1> HIDE DEF t, n
<1>2. ASSUME NEW i \in Nat, NEW j \in Nat, i >= 1, j <= n, NonePlaced(t, i, j)
      PROVE  NonePlaced(s, i+1, j+1)
  <2>1. ASSUME NEW k \in i+1..j+1 PROVE ~Placed(s[k])
    <3>1. k - 1 \in i..j /\ k - 1 \in 1..n /\ k - 1 + 1 = k
      BY <1>1, <1>2
    <3> QED BY <1>1, <1>2, <3>1 DEF NonePlaced
  <2> QED BY <2>1 DEF NonePlaced
<1>3. ASSUME NEW j \in Nat, ~Placed(s[1]), NonePlaced(s, 2, j) PROVE NonePlaced(s, 1, j)
  <2>1. \A k \in 1..j : k = 1 \/ k \in 2..j
    OBVIOUS
  <2> QED BY <1>3, <2>1 DEF NonePlaced
<1>4. ASSUME PlacesLinked(s, known) PROVE PlacesLinked(t, next)
  <2>1. ASSUME NEW i \in 1..n, NEW j \in 1..n, i < j, Placed(t[i]), t[j].kind = "frame",
               NonePlaced(t, i+1, j-1)
        PROVE  t[j].x = t[i].x + Shift(t[j])
    <3>1. /\ i + 1 \in 1..n + 1 /\ j + 1 \in 1..n + 1 /\ i + 1 < j + 1
          /\ t[i] = s[i+1] /\ t[j] = s[j+1]
      BY <1>1, <2>1
    <3>2. j - 1 \in Nat /\ j - 1 <= n /\ i + 1 \in Nat /\ i + 1 >= 1 /\ j - 1 + 1 = j + 1 - 1
      BY <1>1
    <3>3. NonePlaced(s, i + 1 + 1, j + 1 - 1)
      BY <1>2, <2>1, <3>2
    <3> DEFINE a == i + 1
               b == j + 1
    <3>4. a \in DOMAIN s /\ b \in DOMAIN s /\ a < b /\ Placed(s[a]) /\ s[b].kind = "frame"
          /\ NonePlaced(s, a+1, b-1)
      BY <1>1, <2>1, <3>1, <3>3
    <3>5. s[b].x = s[a].x + Shift(s[b])
      <4> HIDE DEF a, b
      <4> QED BY <1>4, <3>4, LinkedPair
    <3> QED BY <3>1, <3>5
  <2>2. ASSUME NEW j \in 1..n, t[j].kind = "frame", NonePlaced(t, 1, j-1), NEW x \in next
        PROVE  t[j].x = x + Shift(t[j])
    <3>1. j + 1 \in 1..n + 1 /\ t[j] = s[j+1] /\ 1 \in 1..n + 1 /\ 1 < j + 1
      BY <1>1
    <3>2. j - 1 \in Nat /\ j - 1 <= n /\ j - 1 + 1 = j + 1 - 1 /\ 1 + 1 = 2 /\ j + 1 - 1 \in Nat
      BY <1>1
    <3>3. NonePlaced(s, 2, j + 1 - 1)
      BY <1>2, <2>2, <3>2
    <3>4. CASE Placed(s[1])
      <4>1. x = s[1].x
        BY <1>1, <2>2, <3>4 DEF Passed
      <4> DEFINE b == j + 1
      <4>2. 1 \in DOMAIN s /\ b \in DOMAIN s /\ 1 < b /\ s[b].kind = "frame"
            /\ NonePlaced(s, 1 + 1, b - 1) /\ t[j] = s[b]
        BY <1>1, <2>2, <3>1, <3>2, <3>3
      <4>3. s[b].x = s[1].x + Shift(s[b])
        <5> HIDE DEF b
        <5> QED BY <1>4, <3>4, <4>2, LinkedPair
      <4> QED BY <4>1, <4>2, <4>3
    <3>5. CASE ~Placed(s[1])
      <4>1. x \in known
        BY <1>1, <2>2, <3>5 DEF Passed
      <4>2. NonePlaced(s, 1, j + 1 - 1)
        BY <1>3, <3>2, <3>3, <3>5
      <4> DEFINE b == j + 1
      <4>3. b \in DOMAIN s /\ s[b].kind = "frame" /\ NonePlaced(s, 1, b - 1) /\ t[j] = s[b]
        BY <1>1, <2>2, <3>1, <4>2
      <4>4. s[b].x = x + Shift(s[b])
        <5> HIDE DEF b
        <5> QED BY <1>4, <4>1, <4>3 DEF PlacesLinked
      <4> QED BY <4>3, <4>4
    <3> QED BY <3>4, <3>5
  <2> QED BY <1>1, <2>1, <2>2 DEF PlacesLinked
<1>5. ASSUME LeadsTo(s, known, at) PROVE LeadsTo(t, next, at)
  <2>1. ASSUME NEW i \in 1..n, Placed(t[i]), NonePlaced(t, i+1, n) PROVE t[i].x = at
    <3>1. i + 1 \in 1..n + 1 /\ t[i] = s[i+1] /\ i + 1 \in Nat /\ i + 1 >= 1 /\ n <= n
      BY <1>1
    <3>2. NonePlaced(s, i + 1 + 1, n + 1)
      BY <1>1, <1>2, <2>1, <3>1
    <3> QED BY <1>1, <1>5, <2>1, <3>1, <3>2 DEF LeadsTo
  <2>2. ASSUME NonePlaced(t, 1, n), NEW x \in next PROVE x = at
    <3>1. 1 \in Nat /\ 1 >= 1 /\ n <= n /\ 1 + 1 = 2 /\ n + 1 \in Nat /\ 1 \in 1..n + 1
      BY <1>1
    <3>2. NonePlaced(s, 2, n + 1)
      BY <1>1, <1>2, <2>2, <3>1
    <3>3. CASE Placed(s[1])
      BY <1>1, <1>5, <2>2, <3>1, <3>2, <3>3 DEF LeadsTo, Passed
    <3>4. CASE ~Placed(s[1])
      <4>1. NonePlaced(s, 1, n + 1)
        BY <1>3, <3>1, <3>2, <3>4
      <4> QED BY <1>1, <1>5, <2>2, <3>4, <4>1 DEF LeadsTo, Passed
    <3> QED BY <3>3, <3>4
  <2> QED BY <1>1, <2>1, <2>2 DEF LeadsTo
<1> QED BY <1>4, <1>5 DEF t

LEMMA ReleasedPlaces ==
  ASSUME NEW s \in Seq(Frames), NEW known, NEW at
  PROVE  /\ PlacesLinked(s, known) => PlacesLinked(Released(s), known)
         /\ LeadsTo(s, known, at) => LeadsTo(Released(s), known, at)
         /\ Quiet(Released(s))
<1> DEFINE t == Released(s)
<1>1. /\ Len(t) = Len(s) /\ DOMAIN t = 1..Len(s) /\ DOMAIN s = 1..Len(s) /\ Len(s) \in Nat
      /\ \A i \in 1..Len(s) :
           /\ t[i].kind = s[i].kind
           /\ s[i].kind # "frame" => t[i] = s[i]
           /\ s[i].kind = "frame" => /\ t[i].x = s[i].x /\ (t[i].abs <=> s[i].abs)
                                     /\ t[i].d = IF s[i].abs THEN s[i].d ELSE 0
  BY ReleasedIs, LenProperties
<1> HIDE DEF t
<1>2. \A i \in 1..Len(s) : /\ Placed(t[i]) <=> Placed(s[i])
                           /\ Placed(s[i]) => t[i].x = s[i].x
                           /\ s[i].kind = "frame" => Shift(t[i]) = Shift(s[i])
  BY <1>1 DEF Placed, Shift
<1>3. \A i \in Nat, j \in Nat : i >= 1 /\ j <= Len(s) /\ NonePlaced(t, i, j) => NonePlaced(s, i, j)
  BY <1>1, <1>2 DEF NonePlaced
<1>4. \A i \in 1..Len(s) : /\ i + 1 \in Nat /\ i + 1 >= 1 /\ i - 1 \in Nat /\ i - 1 <= Len(s)
                           /\ 1 \in Nat /\ 1 >= 1
  BY <1>1
<1>5. \A i \in 1..Len(s) : s[i].kind = "frame" => Placed(s[i])
  BY DEF Placed
<1>6. ASSUME PlacesLinked(s, known) PROVE PlacesLinked(t, known)
  <2>1. ASSUME NEW i \in 1..Len(s), NEW j \in 1..Len(s), i < j, Placed(t[i]), t[j].kind = "frame",
               NonePlaced(t, i+1, j-1)
        PROVE  t[j].x = t[i].x + Shift(t[j])
    <3>1. NonePlaced(s, i+1, j-1) /\ Placed(s[i]) /\ s[j].kind = "frame"
      BY <1>1, <1>2, <1>3, <1>4, <2>1
    <3>2. s[j].x = s[i].x + Shift(s[j])
      BY <1>1, <1>6, <2>1, <3>1 DEF PlacesLinked
    <3> QED BY <1>2, <1>5, <3>1, <3>2
  <2>2. ASSUME NEW j \in 1..Len(s), t[j].kind = "frame", NonePlaced(t, 1, j-1), NEW x \in known
        PROVE  t[j].x = x + Shift(t[j])
    <3>1. NonePlaced(s, 1, j-1) /\ s[j].kind = "frame"
      BY <1>1, <1>3, <1>4, <2>2
    <3>2. s[j].x = x + Shift(s[j])
      BY <1>1, <1>6, <2>2, <3>1 DEF PlacesLinked
    <3> QED BY <1>2, <1>5, <3>1, <3>2
  <2> QED BY <1>1, <2>1, <2>2 DEF PlacesLinked
<1>7. ASSUME LeadsTo(s, known, at) PROVE LeadsTo(t, known, at)
  <2>1. Len(s) <= Len(s)
    BY <1>1
  <2>2. ASSUME NEW i \in 1..Len(s), Placed(t[i]), NonePlaced(t, i+1, Len(s)) PROVE t[i].x = at
    <3>1. NonePlaced(s, i+1, Len(s)) /\ Placed(s[i])
      BY <1>1, <1>2, <1>3, <1>4, <2>1, <2>2
    <3> QED BY <1>1, <1>2, <1>7, <3>1 DEF LeadsTo
  <2>3. NonePlaced(t, 1, Len(s)) => known \subseteq {at}
    BY <1>1, <1>3, <1>7, <2>1 DEF LeadsTo
  <2> QED BY <1>1, <2>2, <2>3 DEF LeadsTo
<1>8. Quiet(t)
  BY <1>1 DEF Quiet
<1> QED BY <1>6, <1>7, <1>8 DEF t

LEMMA QuietTail ==
  ASSUME NEW s \in Seq(Frames), s # <<>>, Quiet(s)
  PROVE  Quiet(Tail(s))
<1>1. /\ DOMAIN s = 1..Len(s) /\ DOMAIN Tail(s) = 1..Len(s) - 1 /\ Len(s) \in Nat
      /\ \A i \in 1..Len(s) - 1 : Tail(s)[i] = s[i+1]
  BY Tailed
<1>2. \A i \in 1..Len(s) - 1 : i + 1 \in 1..Len(s)
  BY <1>1
<1> QED BY <1>1, <1>2 DEF Quiet

LEMMA QuietStep ==
  ASSUME MouseInv, Quiet(wire), [Next]_vars
  PROVE  Quiet(wire)'
<1>0. wire \in Seq(Frames)
  BY DEF MouseInv, WireOK
<1>1. ASSUME NEW e \in Frames, wire' = Append(wire, e),
             e.kind = "frame" => e.abs \/ e.rel
      PROVE  Quiet(wire)'
  <2>1. /\ DOMAIN wire = 1..Len(wire) /\ DOMAIN wire' = 1..Len(wire) + 1 /\ Len(wire) \in Nat
        /\ \A i \in 1..Len(wire) : wire'[i] = wire[i]
        /\ wire'[Len(wire) + 1] = e
    BY <1>0, <1>1, Appended
  <2>2. \A i \in 1..Len(wire) + 1 : i \in 1..Len(wire) \/ i = Len(wire) + 1
    BY <2>1
  <2> QED BY <1>1, <2>1, <2>2 DEF Quiet
<1>2. ASSUME wire # <<>> PROVE Quiet(Tail(wire)) /\ Tail(wire) \in Seq(Frames)
  BY <1>0, <1>2, QuietTail, HeadTailProperties
<1>3. ASSUME NEW d \in Directions, Move(d) PROVE Quiet(wire)'
  <2> DEFINE f == Frame(IF link = "locked" THEN cursor ELSE cursor + d, ~(link = "locked"), d)
  <2>1. on # None => f \in Frames
    BY <1>3, MoveSends
  <2>2. f.abs \/ f.rel
    BY DEF Frame
  <2>3. ToWire(f)
    BY <1>3 DEF Move
  <2> HIDE DEF f
  <2> QED BY <1>1, <2>1, <2>2, <2>3 DEF ToWire, Quiet
<1>4. ASSUME NEW d \in Directions, Turn(d) PROVE Quiet(wire)'
  <2> DEFINE f == [kind |-> "axis", win |-> on, d |-> d]
  <2>1. on # None => f \in Frames
    BY DEF Frames, MouseInv, UserOK
  <2>2. f.kind # "frame" /\ ToWire(f)
    BY <1>4 DEF Turn
  <2> HIDE DEF f
  <2> QED BY <1>1, <2>1, <2>2 DEF ToWire, Quiet
<1>5. CASE Press
  <2> DEFINE f == [kind |-> "button", win |-> on, down |-> ~held]
  <2>1. held \in BOOLEAN /\ (~held) \in BOOLEAN
    BY DEF MouseInv, UserOK
  <2>2. on # None => f \in Frames
    BY <2>1 DEF Frames, MouseInv, UserOK
  <2>3. f.kind # "frame" /\ ToWire(f)
    BY <1>5 DEF Press
  <2> HIDE DEF f
  <2> QED BY <1>1, <2>2, <2>3 DEF ToWire, Quiet
<1>6. ASSUME NEW w \in Windows \cup {None}, NEW x \in Int, w # None => x \in 0..Width[w]-1,
             Cross(w, x)
      PROVE  Quiet(wire)'
  <2> DEFINE e == IF w = None THEN [kind |-> "leave", win |-> None]
                  ELSE [kind |-> "enter", win |-> w, x |-> x, unlocked |-> link = "unlocked"]
  <2>1. e \in Frames /\ e.kind # "frame"
    BY <1>6 DEF Frames
  <2>2. wire' = Append(wire, e)
    BY <1>6 DEF Cross
  <2> HIDE DEF e
  <2> QED BY <1>1, <2>1, <2>2
<1>7. CASE Dispatch
  <2>1. wire # <<>> /\ wire' \in {Tail(wire), Released(Tail(wire))}
    BY <1>7 DEF Dispatch, PointerEnter, PointerLeave, PointerFrame, PointerButtonFrame,
                PointerAxisFrame, Arrives
  <2>2. Quiet(Released(Tail(wire)))
    BY <1>2, <2>1, ReleasedPlaces
  <2> QED BY <1>2, <2>1, <2>2
<1>8. CASE Compositor \/ RawPump \/ GetRelativeMouseState \/ UNCHANGED vars
  <2>1. wire' = wire
    BY <1>8 DEF Compositor, SrvRelative, SrvLock, SrvUnlock, RawPump, GetRelativeMouseState, vars,
                streamVars
  <2> QED BY <2>1 DEF Quiet
<1>9. ASSUME NEW w \in Windows \cup {None}, SetRelativeMouseMode(w) PROVE Quiet(wire)'
  BY <1>0, <1>9, ReleasedPlaces DEF SetRelativeMouseMode
<1> QED
  <2>1. CASE User
    <3>1. \A w \in Windows : \A x \in 0..Width[w]-1 : w # None /\ x \in Int
      BY MouseAssumption
    <3> QED BY <1>3, <1>4, <1>5, <1>6, <2>1, <3>1 DEF User
  <2> QED BY <2>1, <1>7, <1>8, <1>9 DEF Next, App

LEMMA MovesSent ==
  ASSUME MouseInv, WireMoves, ~raw_active, UNCHANGED <<raw_active, mouse, mouse_focus, astray>>,
         NEW e \in Frames, wire' = Append(wire, e),
         e.kind = "frame" => on # None /\ e.x = cursor + Shift(e),
         on' # None => IF Placed(e) THEN e.x = cursor' ELSE on # None /\ cursor' = cursor
  PROVE  WireMoves'
<1>1. wire \in Seq(Frames) /\ Known' = Known
  BY DEF MouseInv, WireOK, Known
<1>2. PlacesLinked(wire, Known) /\ (on # None => LeadsTo(wire, Known, cursor))
  BY DEF WireMoves
<1>3. PlacesLinked(wire', Known)
  BY <1>1, <1>2, LinkedAppend
<1>4. on' # None => LeadsTo(wire', Known, cursor')
  BY <1>1, <1>2, LeadsAppend
<1> QED BY <1>1, <1>3, <1>4 DEF WireMoves

LEMMA MovesHandled ==
  ASSUME MouseInv, WireMoves, ~raw_active, UNCHANGED <<raw_active, on, cursor>>,
         wire # <<>>, wire' \in {Tail(wire), Released(Tail(wire))},
         Passed(Head(wire), Known, Known'),
         mouse'.x = mouse'.last_x, mouse_focus' # None => mouse'.has_position
  PROVE  WireMoves'
<1>1. wire \in Seq(Frames) /\ Tail(wire) \in Seq(Frames)
  BY HeadTailProperties DEF MouseInv, WireOK
<1>2. PlacesLinked(wire, Known) /\ (on # None => LeadsTo(wire, Known, cursor))
  BY DEF WireMoves
<1>3. PlacesLinked(Tail(wire), Known') /\ (on # None => LeadsTo(Tail(wire), Known', cursor))
  BY <1>1, <1>2, TailPlaces
<1>4. PlacesLinked(wire', Known') /\ (on # None => LeadsTo(wire', Known', cursor))
  BY <1>1, <1>3, ReleasedPlaces
<1> QED BY <1>4 DEF WireMoves

\* The first frame moves on from the place told, if that is known.
LEMMA FirstShift ==
  ASSUME MouseInv, WireMoves, ~raw_active, ~astray, wire # <<>>, Head(wire).kind = "frame"
  PROVE  Head(wire).x = mouse.last_x + Shift(Head(wire))
<1>1. 1 \in DOMAIN wire /\ Head(wire) = wire[1]
  BY Tailed DEF MouseInv, WireOK
<1>2. NonePlaced(wire, 1, 1-1)
  BY DEF NonePlaced
<1>3. mouse.last_x \in Known /\ PlacesLinked(wire, Known)
  BY DEF Known, WireMoves
<1> QED BY <1>1, <1>2, <1>3 DEF PlacesLinked

LEMMA RawKept == ASSUME [Next]_vars PROVE raw_active' = raw_active
BY DEF Next, User, Compositor, Dispatch, App, Move, Turn, Cross, Press, SrvRelative, SrvLock,
       SrvUnlock, PointerEnter, PointerLeave, PointerFrame, PointerButtonFrame, PointerAxisFrame,
       RawPump, GetRelativeMouseState, SetRelativeMouseMode, vars

LEMMA MovesStep ==
  ASSUME MouseInv, WireMoves, [Next]_vars
  PROVE  WireMoves'
<1>0. raw_active' = raw_active
  BY RawKept
<1> SUFFICES ASSUME ~raw_active PROVE WireMoves'
  BY <1>0 DEF WireMoves
<1>a. /\ mouse.x = mouse.last_x /\ (mouse_focus # None => mouse.has_position)
      /\ cursor \in Int /\ mouse \in MouseStates
  BY DEF WireMoves, MouseInv, UserOK, MouseOK
<1>1. ASSUME UNCHANGED <<mouse_focus, astray, wire, on>>, on # None => cursor' = cursor,
             mouse'.x = mouse.x, mouse'.last_x = mouse.last_x,
             mouse'.has_position = mouse.has_position
      PROVE  WireMoves'
  <2>1. Known' = Known
    BY <1>1 DEF Known
  <2> QED BY <1>0, <1>1, <2>1 DEF WireMoves
<1>2. ASSUME NEW d \in Directions, Move(d) PROVE WireMoves'
  <2> DEFINE locked == link = "locked"
             f == Frame(IF locked THEN cursor ELSE cursor + d, ~locked, d)
  <2>1. on # None => f \in Frames
    BY <1>2, MoveSends
  <2>2. /\ ToWire(f) /\ UNCHANGED <<mouse, mouse_focus, astray, on>>
        /\ cursor' = IF on = None \/ locked THEN cursor ELSE cursor + d
    BY <1>2 DEF Move
  <2>3. CASE on = None
    BY <1>1, <2>2, <2>3 DEF ToWire
  <2>4. CASE on # None
    <3>1. /\ f.kind = "frame" /\ f.x = (IF locked THEN cursor ELSE cursor + d)
          /\ Shift(f) = IF locked THEN 0 ELSE d
      BY DEF Frame, Shift
    <3>2. Placed(f) /\ f.x = cursor + Shift(f) /\ f.x = cursor'
      BY <1>a, <2>2, <2>4, <3>1 DEF Placed, Directions
    <3>3. wire' = Append(wire, f)
      BY <2>2, <2>4 DEF ToWire
    <3> HIDE DEF f
    <3> QED BY <1>0, <2>1, <2>2, <2>4, <3>2, <3>3, MovesSent
  <2> QED BY <2>3, <2>4
<1>3. ASSUME NEW f, on # None => f \in Frames, ToWire(f), f.kind \in {"axis", "button"},
             UNCHANGED <<mouse, mouse_focus, astray, on, cursor>>
      PROVE  WireMoves'
  <2>1. CASE on = None
    BY <1>1, <1>3, <2>1 DEF ToWire
  <2>2. CASE on # None
    <3>1. f \in Frames /\ wire' = Append(wire, f) /\ f.kind # "frame" /\ ~Placed(f)
      BY <1>3, <2>2 DEF ToWire, Placed
    <3> QED BY <1>0, <1>3, <2>2, <3>1, MovesSent
  <2> QED BY <2>1, <2>2
<1>4. ASSUME NEW d \in Directions, Turn(d) PROVE WireMoves'
  <2> DEFINE f == [kind |-> "axis", win |-> on, d |-> d]
  <2>1. on # None => f \in Frames
    BY DEF Frames, MouseInv, UserOK
  <2>2. f.kind = "axis" /\ ToWire(f) /\ UNCHANGED <<mouse, mouse_focus, astray, on, cursor>>
    BY <1>4 DEF Turn, userVars
  <2> HIDE DEF f
  <2> QED BY <1>3, <2>1, <2>2
<1>5. CASE Press
  <2> DEFINE f == [kind |-> "button", win |-> on, down |-> ~held]
  <2>1. held \in BOOLEAN /\ (~held) \in BOOLEAN
    BY DEF MouseInv, UserOK
  <2>2. on # None => f \in Frames
    BY <2>1 DEF Frames, MouseInv, UserOK
  <2>3. f.kind = "button" /\ ToWire(f) /\ UNCHANGED <<mouse, mouse_focus, astray, on, cursor>>
    BY <1>5 DEF Press
  <2> HIDE DEF f
  <2> QED BY <1>3, <2>2, <2>3
<1>6. ASSUME NEW w \in Windows \cup {None}, NEW x \in Int, w # None => x \in 0..Width[w]-1,
             Cross(w, x)
      PROVE  WireMoves'
  <2> DEFINE e == IF w = None THEN [kind |-> "leave", win |-> None]
                  ELSE [kind |-> "enter", win |-> w, x |-> x, unlocked |-> link = "unlocked"]
  <2>1. /\ e \in Frames /\ e.kind # "frame"
        /\ w # None => Placed(e) /\ e.x = x
    BY <1>6 DEF Frames, Placed
  <2>2. /\ wire' = Append(wire, e) /\ on' = w /\ cursor' = x
        /\ UNCHANGED <<mouse, mouse_focus, astray>>
    BY <1>6 DEF Cross, historyVars
  <2> HIDE DEF e
  <2> QED BY <1>0, <2>1, <2>2, MovesSent
<1>7. CASE PointerLeave
  <2>1. /\ wire # <<>> /\ Head(wire).kind = "leave" /\ wire' = Tail(wire) /\ mouse_focus' = None
        /\ UNCHANGED <<on, cursor, astray>>
    BY <1>7 DEF PointerLeave, Arrives, userVars, historyVars
  <2>2. mouse'.x = mouse.x /\ mouse'.last_x = mouse.last_x
    BY <1>7, <1>a DEF PointerLeave, MouseStates
  <2>3. Passed(Head(wire), Known, Known')
    BY <2>1, <2>2 DEF Passed, Known, Placed
  <2> QED BY <1>0, <1>a, <2>1, <2>2, <2>3, MovesHandled
<1>8. CASE PointerEnter
  <2>1. /\ wire # <<>> /\ Head(wire).kind = "enter" /\ wire' \in {Tail(wire), Released(Tail(wire))}
        /\ UNCHANGED <<on, cursor>>
    BY <1>8 DEF PointerEnter, Arrives, userVars
  <2>2. mouse'.x = Head(wire).x /\ mouse'.last_x = Head(wire).x /\ mouse'.has_position
    BY <1>8, EnterTells
  <2>3. Passed(Head(wire), Known, Known')
    BY <2>1, <2>2 DEF Passed, Known, Placed
  <2> QED BY <1>0, <2>1, <2>2, <2>3, MovesHandled
<1>9. CASE PointerFrame
  <2> DEFINE f == Head(wire)
  <2>1. /\ wire # <<>> /\ f.kind = "frame" /\ wire' = Tail(wire) /\ UNCHANGED <<on, cursor>>
        /\ astray' = (~raw_active /\ (f.rel \/ (astray /\ ~f.abs)))
    BY <1>9 DEF PointerFrame, Arrives, userVars
  <2>2. /\ mouse'.x = mouse'.last_x /\ mouse'.has_position
        /\ ~f.rel => mouse'.last_x = IF f.abs THEN f.x ELSE mouse.last_x
    BY <1>9, FrameTells
  <2>3. ~astray' => ~f.rel /\ (f.abs \/ ~astray)
    BY <2>1
  <2>4. ~astray /\ ~f.abs => f.x = mouse.last_x
    BY <1>a, <2>1, FirstShift DEF Shift, MouseStates
  <2>5. Passed(f, Known, Known')
    BY <2>1, <2>2, <2>3, <2>4 DEF Passed, Known, Placed
  <2> HIDE DEF f
  <2>6. wire # <<>> /\ wire' \in {Tail(wire), Released(Tail(wire))} /\ UNCHANGED <<on, cursor>>
    BY <2>1
  <2> QED BY <1>0, <2>2, <2>5, <2>6, MovesHandled DEF f
<1>10. CASE PointerButtonFrame \/ PointerAxisFrame
  <2>1. /\ wire # <<>> /\ Head(wire).kind \in {"button", "axis"} /\ wire' = Tail(wire)
        /\ UNCHANGED <<on, cursor, astray, mouse_focus>>
    BY <1>10 DEF PointerButtonFrame, PointerAxisFrame, Arrives, userVars, historyVars
  <2>2. mouse' \in {mouse, [mouse EXCEPT !.buttons = Head(wire).down]}
    BY <1>10 DEF PointerButtonFrame, PointerAxisFrame, PointerButton, SendButton
  <2>3. mouse'.x = mouse.x /\ mouse'.last_x = mouse.last_x
        /\ mouse'.has_position = mouse.has_position
    BY <1>a, <2>2 DEF MouseStates
  <2>4. Passed(Head(wire), Known, Known')
    BY <2>1, <2>3 DEF Passed, Known, Placed
  <2> QED BY <1>0, <1>a, <2>1, <2>3, <2>4, MovesHandled
<1>11. CASE RawPump
  BY <1>11 DEF RawPump, MouseInv, RingOK
<1>12. CASE GetRelativeMouseState
  <2>1. mouse'.x = mouse.x /\ mouse'.last_x = mouse.last_x
        /\ mouse'.has_position = mouse.has_position
    BY <1>12, <1>a DEF GetRelativeMouseState, MouseStates
  <2>2. UNCHANGED <<mouse_focus, astray, wire, on, cursor>>
    BY <1>12 DEF GetRelativeMouseState, userVars, streamVars
  <2> QED BY <1>1, <2>1, <2>2
<1>13. ASSUME NEW w \in Windows \cup {None}, SetRelativeMouseMode(w) PROVE WireMoves'
  <2>1. wire' = Released(wire) /\ UNCHANGED <<mouse_focus, astray, mouse, on, cursor>>
    BY <1>13 DEF SetRelativeMouseMode, userVars
  <2>2. Known' = Known /\ wire \in Seq(Frames)
    BY <2>1 DEF Known, MouseInv, WireOK
  <2>3. PlacesLinked(wire', Known) /\ (on # None => LeadsTo(wire', Known, cursor))
    BY <2>1, <2>2, ReleasedPlaces DEF WireMoves
  <2> QED BY <1>0, <1>a, <2>1, <2>2, <2>3 DEF WireMoves
<1>14. CASE Compositor \/ UNCHANGED vars
  <2>1. UNCHANGED <<mouse_focus, astray, wire, on, cursor, mouse>>
    BY <1>14 DEF Compositor, SrvRelative, SrvLock, SrvUnlock, vars, userVars, streamVars,
                 historyVars
  <2> QED BY <1>1, <2>1
<1> QED
  <2>1. CASE User
    <3>1. \A w \in Windows : \A x \in 0..Width[w]-1 : w # None /\ x \in Int
      BY MouseAssumption
    <3> QED BY <1>2, <1>4, <1>5, <1>6, <2>1, <3>1 DEF User
  <2> QED BY <2>1, <1>7, <1>8, <1>9, <1>10, <1>11, <1>12, <1>13, <1>14 DEF Next, Dispatch, App

-----------------------------------------------------------------------------
(* The movement.                                                             *)

\* A message that brings no movement.
LEMMA MotionSent ==
  ASSUME MouseInv, MotionOnce, ~inexact, NEW e \in RawEvents, ToRing(e),
         NEW f, on # None => f \in Frames, ToWire(f),
         Adds(e, "rel") = 0, Adds(f, "frame") = 0, UNCHANGED <<raw_active, mouse, moved>>
  PROVE  mouse'.xrel_acc + Pending' = moved'
<1>1. SumOf(ring', "rel") = SumOf(ring, "rel") /\ SumOf(wire', "frame") = SumOf(wire, "frame")
  <2>1. /\ SumOf(ring, "rel") \in Int /\ SumOf(wire, "frame") \in Int
        /\ SumOf(ring', "rel") = SumOf(ring, "rel") + (IF Fits THEN 0 ELSE 0)
        /\ SumOf(wire', "frame") = SumOf(wire, "frame") + (IF on # None THEN 0 ELSE 0)
    BY RingSum, WireSum
  <2> QED BY <2>1
<1>2. mouse.xrel_acc + Pending = moved
  BY DEF MotionOnce
<1> QED BY <1>1, <1>2 DEF Pending

\* A message handled that tells what it adds, with the rest released or not.
LEMMA MotionHandled ==
  ASSUME MouseInv, MotionOnce, Quiet(wire), ~inexact, wire # <<>>,
         \/ wire' = Tail(wire)
         \/ wire' = Released(Tail(wire)) /\ ~CalledOff(Tail(wire)),
         UNCHANGED <<raw_active, ring, moved>>,
         raw_active => mouse'.xrel_acc = mouse.xrel_acc,
         ~raw_active => mouse'.xrel_acc = mouse.xrel_acc + Adds(Head(wire), "frame")
  PROVE  mouse'.xrel_acc + Pending' = moved'
<1>1. mouse.xrel_acc + Pending = moved /\ mouse.xrel_acc \in Int
  BY DEF MotionOnce, MouseInv, MouseOK, MouseStates
<1>2. CASE raw_active
  BY <1>1, <1>2 DEF Pending
<1>3. CASE ~raw_active
  <2>1. wire \in Seq(Frames) /\ Tail(wire) \in Seq(Frames)
    BY HeadTailProperties DEF MouseInv, WireOK
  <2>2. SumOf(wire', "frame") = SumOf(Tail(wire), "frame")
    <3>1. SUFFICES ASSUME ~CalledOff(Tail(wire))
                   PROVE  SumOf(Released(Tail(wire)), "frame") = SumOf(Tail(wire), "frame")
      OBVIOUS
    <3>2. Quiet(Tail(wire))
      BY <2>1, QuietTail
    <3>3. \A i \in DOMAIN Tail(wire) :
            Tail(wire)[i].kind = "frame" /\ ~Tail(wire)[i].abs => Tail(wire)[i].d = 0
      BY <1>3, <3>1, <3>2, Zenon DEF CalledOff, Quiet
    <3> QED BY <2>1, <3>3, ReleasedSum
  <2>3. /\ SumOf(Tail(wire), "frame") \in Int /\ Adds(Head(wire), "frame") \in Int
        /\ SumOf(wire, "frame") = SumOf(Tail(wire), "frame") + Adds(Head(wire), "frame")
    <3>1. Head(wire) \in Frames
      BY DispatchSum
    <3>2. Adds(Head(wire), "frame") \in Int
      BY <3>1, UnderWayStepwise DEF Adds, Stepwise, Directions
    <3> QED BY <3>2, DispatchSum
  <2> QED BY <1>1, <1>3, <2>2, <2>3 DEF Pending
<1> QED BY <1>2, <1>3

LEMMA MotionStep ==
  ASSUME MouseInv, WireMoves, Quiet(wire), MotionOnce, [Next]_vars
  PROVE  MotionOnce'
<1> SUFFICES ASSUME ~inexact' PROVE mouse'.xrel_acc + Pending' = moved'
  BY DEF MotionOnce
<1>0. /\ raw_active \in BOOLEAN /\ mouse.xrel_acc \in Int /\ moved \in Int
      /\ mouse \in MouseStates
      /\ SumOf(ring, "rel") \in Int /\ SumOf(wire, "frame") \in Int
  BY SumType DEF MouseInv, FlagsOK, RingOK, WireOK, MouseOK, MouseStates
<1>a. raw_active' = raw_active
  BY RawKept
<1>b. ASSUME ~inexact PROVE mouse.xrel_acc + Pending = moved
  BY <1>b DEF MotionOnce
<1>1. ASSUME NEW d \in Directions, Move(d) PROVE mouse'.xrel_acc + Pending' = moved'
  <2> DEFINE f == Frame(IF link = "locked" THEN cursor ELSE cursor + d, ~(link = "locked"), d)
             e == [kind |-> "rel", d |-> d]
  <2>1. on # None => f \in Frames
    BY <1>1, MoveSends
  <2>2. e \in RawEvents /\ Adds(e, "rel") = d /\ Adds(f, "frame") = d /\ d \in Int
    BY DEF RawEvents, Adds, Frame, Directions
  <2>3. ToRing(e) /\ ToWire(f) /\ mouse' = mouse /\ inexact' = inexact
        /\ moved' = IF Accepted THEN moved + d ELSE moved
    BY <1>1 DEF Move
  <2> HIDE DEF e, f
  <2>4. /\ SumOf(ring', "rel") = SumOf(ring, "rel") + (IF Fits THEN d ELSE 0)
        /\ SumOf(wire', "frame") = SumOf(wire, "frame") + (IF on # None THEN d ELSE 0)
    BY <2>1, <2>2, <2>3, RingSum, WireSum
  <2>5. ~inexact
    BY <2>3, Zenon
  <2> QED BY <1>0, <1>a, <1>b, <2>2, <2>3, <2>4, <2>5 DEF Accepted, Pending
<1>2. ASSUME NEW d \in Directions, Turn(d) PROVE mouse'.xrel_acc + Pending' = moved'
  <2> DEFINE f == [kind |-> "axis", win |-> on, d |-> d]
             e == [kind |-> "wheel", d |-> d]
  <2>1. on # None => f \in Frames
    BY DEF Frames, MouseInv, UserOK
  <2>2. e \in RawEvents /\ Adds(e, "rel") = 0 /\ Adds(f, "frame") = 0
    BY DEF RawEvents, Adds
  <2>3. ToRing(e) /\ ToWire(f) /\ UNCHANGED <<raw_active, mouse, moved, inexact>>
    BY <1>2 DEF Turn
  <2> HIDE DEF e, f
  <2>4. ~inexact
    BY <2>3, Zenon
  <2> QED BY <2>1, <2>2, <2>3, <2>4, MotionSent
<1>3. ASSUME NEW w \in Windows \cup {None}, NEW x \in Int, w # None => x \in 0..Width[w]-1,
             Cross(w, x)
      PROVE  mouse'.xrel_acc + Pending' = moved'
  <2> DEFINE e == IF w = None THEN [kind |-> "leave", win |-> None]
                  ELSE [kind |-> "enter", win |-> w, x |-> x, unlocked |-> link = "unlocked"]
  <2>1. e \in Frames /\ Adds(e, "frame") = 0
    BY <1>3 DEF Frames, Adds
  <2>2. wire' = Append(wire, e) /\ UNCHANGED <<ring, mouse, moved, inexact>>
    BY <1>3 DEF Cross, historyVars
  <2> HIDE DEF e
  <2>3. SumOf(wire', "frame") = SumOf(wire, "frame")
    BY <1>0, <2>1, <2>2, SumAppend, UnderWayStepwise DEF MouseInv, WireOK
  <2>4. ~inexact
    BY <2>2, Zenon
  <2> QED BY <1>a, <1>b, <2>2, <2>3, <2>4 DEF Pending
<1>4. CASE Press
  <2> DEFINE f == [kind |-> "button", win |-> on, down |-> ~held]
             e == [kind |-> "button", down |-> ~held]
  <2>1. held \in BOOLEAN /\ (~held) \in BOOLEAN
    BY DEF MouseInv, UserOK
  <2>2. e \in RawEvents /\ (on # None => f \in Frames)
    BY <2>1 DEF RawEvents, Frames, MouseInv, UserOK
  <2>3. Adds(e, "rel") = 0 /\ Adds(f, "frame") = 0
    BY DEF Adds
  <2>4. ToRing(e) /\ ToWire(f) /\ UNCHANGED <<raw_active, mouse, moved, inexact>>
    BY <1>4 DEF Press
  <2> HIDE DEF e, f
  <2>5. ~inexact
    BY <2>4, Zenon
  <2> QED BY <2>2, <2>3, <2>4, <2>5, MotionSent
<1>5. CASE PointerFrame
  <2> DEFINE f == Head(wire)
  <2>1. /\ wire # <<>> /\ f.kind = "frame" /\ wire' = Tail(wire) /\ UNCHANGED <<ring, moved>>
        /\ inexact' = (inexact \/ (~raw_active /\ f.abs /\ (f.rel \/ astray)))
    BY <1>5 DEF PointerFrame, Arrives
  <2>2. ~inexact /\ ~(~raw_active /\ f.abs /\ (f.rel \/ astray))
    BY <2>1, Zenon
  <2>3. /\ f \in Frames
        /\ raw_active => mouse'.xrel_acc = mouse.xrel_acc
        /\ ~raw_active =>
             mouse'.xrel_acc = mouse.xrel_acc + (IF f.abs THEN f.x - mouse.last_x ELSE 0)
                                              + (IF f.rel THEN f.d ELSE 0)
    BY <1>5, FrameTells
  <2>4. f.x \in Int /\ f.d \in Int /\ mouse.last_x \in Int
    BY <1>0, <2>1, <2>3, FramesSplit DEF Directions, MouseStates
  <2>5. ~raw_active /\ f.abs => f.x - mouse.last_x = f.d
    BY <2>1, <2>2, <2>4, FirstShift DEF Shift
  <2>6. ~f.abs /\ ~f.rel => f.d = 0
    <3>1. 1 \in DOMAIN wire /\ f = wire[1]
      BY <2>1, Tailed DEF MouseInv, WireOK
    <3> QED BY <2>1, <3>1 DEF Quiet
  <2>7. Adds(f, "frame") = f.d
    BY <2>1 DEF Adds
  <2>8. ~raw_active => mouse'.xrel_acc = mouse.xrel_acc + Adds(f, "frame")
    <3> HIDE DEF f
    <3>1. CASE f.abs
      BY <1>0, <2>2, <2>3, <2>4, <2>5, <2>7, <3>1
    <3>2. CASE ~f.abs
      BY <1>0, <2>3, <2>4, <2>6, <2>7, <3>2
    <3> QED BY <3>1, <3>2
  <2> QED BY <1>a, <2>1, <2>2, <2>3, <2>8, MotionHandled
<1>6. CASE PointerEnter
  <2> DEFINE rearm == Head(wire).win = relative_mode_window /\ Head(wire).unlocked
                      /\ link = "unlocked"
  <2>1. /\ wire # <<>> /\ Head(wire).kind = "enter" /\ UNCHANGED <<ring, moved>>
        /\ wire' = (IF rearm THEN Released(Tail(wire)) ELSE Tail(wire))
        /\ inexact' = (inexact \/ (rearm /\ CalledOff(Tail(wire))))
    BY <1>6 DEF PointerEnter, Arrives
  <2> HIDE DEF rearm
  <2>2. ~inexact /\ ~(rearm /\ CalledOff(Tail(wire)))
    BY <2>1, Zenon
  <2>3. mouse'.xrel_acc = mouse.xrel_acc /\ Adds(Head(wire), "frame") = 0
    BY <1>6, <2>1, EnterTells DEF Adds
  <2> QED BY <1>0, <1>a, <2>1, <2>2, <2>3, MotionHandled
<1>7. CASE PointerLeave \/ PointerButtonFrame \/ PointerAxisFrame
  <2>1. /\ wire # <<>> /\ Head(wire).kind \in {"leave", "button", "axis"}
        /\ wire' = Tail(wire) /\ UNCHANGED <<ring, moved, inexact>>
    BY <1>7 DEF PointerLeave, PointerButtonFrame, PointerAxisFrame, Arrives, historyVars
  <2>2. mouse' \in {mouse, [mouse EXCEPT !.has_position = FALSE],
                    [mouse EXCEPT !.buttons = Head(wire).down]}
    BY <1>7 DEF PointerLeave, PointerButtonFrame, PointerAxisFrame, PointerButton, SendButton
  <2>3. mouse'.xrel_acc = mouse.xrel_acc /\ Adds(Head(wire), "frame") = 0
    BY <1>0, <2>1, <2>2 DEF MouseStates, Adds
  <2>4. ~inexact
    BY <2>1, Zenon
  <2> QED BY <1>0, <1>a, <2>1, <2>3, <2>4, MotionHandled
<1>8. CASE RawPump
  <2> DEFINE e == Head(ring)
  <2>1. ring # <<>> /\ ring' = Tail(ring) /\ UNCHANGED <<moved, inexact>>
    BY <1>8 DEF RawPump
  <2>2. /\ e \in RawEvents /\ SumOf(ring', "rel") \in Int
        /\ SumOf(ring, "rel") = SumOf(ring', "rel") + Adds(e, "rel")
    BY <2>1, PumpSum
  <2>3. raw_active
    BY <2>1 DEF MouseInv, RingOK
  <2>4. mouse'.xrel_acc = mouse.xrel_acc + Adds(e, "rel") /\ Adds(e, "rel") \in Int
    <3>1. PICK kf \in Windows \cup {None} :
            mouse' = CASE e.kind = "rel" -> RawMotion(mouse, e.d, kf)
                       [] e.kind = "button" -> SendButton(mouse, e.down)
                       [] OTHER -> mouse
      BY <1>8 DEF RawPump
    <3> HIDE DEF e
    <3>2. CASE e.kind = "rel"
      <4>1. e.d \in Int
        BY <2>2, <3>2, UnderWayStepwise DEF Stepwise, Directions
      <4> QED BY <3>1, <3>2, <4>1, RawMotionTells DEF Adds
    <3>3. CASE e.kind = "button"
      BY <1>0, <3>1, <3>3 DEF SendButton, MouseStates, Adds
    <3>4. CASE e.kind # "rel" /\ e.kind # "button"
      BY <1>0, <3>1, <3>4 DEF Adds
    <3> QED BY <3>2, <3>3, <3>4
  <2>5. ~inexact
    BY <2>1, Zenon
  <2> HIDE DEF e
  <2> QED BY <1>0, <1>a, <1>b, <2>1, <2>2, <2>3, <2>4, <2>5 DEF Pending
<1>9. CASE GetRelativeMouseState
  <2>1. mouse'.xrel_acc = 0 /\ moved' = Pending /\ UNCHANGED <<ring, wire>>
    BY <1>0, <1>9 DEF GetRelativeMouseState, streamVars, MouseStates
  <2> QED BY <1>0, <1>a, <2>1 DEF Pending
<1>10. ASSUME NEW w \in Windows \cup {None}, SetRelativeMouseMode(w)
       PROVE  mouse'.xrel_acc + Pending' = moved'
  <2>1. /\ wire' = Released(wire) /\ UNCHANGED <<ring, mouse, moved>>
        /\ inexact' = (inexact \/ CalledOff(wire))
    BY <1>10 DEF SetRelativeMouseMode
  <2>2. ~inexact /\ ~CalledOff(wire)
    BY <2>1, Zenon
  <2>3. ~raw_active => SumOf(wire', "frame") = SumOf(wire, "frame")
    <3>1. ASSUME ~raw_active
          PROVE  \A i \in DOMAIN wire : wire[i].kind = "frame" /\ ~wire[i].abs => wire[i].d = 0
      BY <2>2, <3>1, Zenon DEF CalledOff, Quiet
    <3> QED BY <2>1, <3>1, ReleasedSum DEF MouseInv, WireOK
  <2> QED BY <1>a, <1>b, <2>1, <2>2, <2>3 DEF Pending
<1>11. CASE Compositor \/ UNCHANGED vars
  <2>1. UNCHANGED <<ring, wire, mouse, moved, inexact>>
    BY <1>11 DEF Compositor, SrvRelative, SrvLock, SrvUnlock, vars, streamVars, historyVars
  <2>2. ~inexact
    BY <2>1, Zenon
  <2> QED BY <1>a, <1>b, <2>1, <2>2 DEF Pending
<1> QED
  <2>1. CASE User
    <3>1. \A w \in Windows : \A x \in 0..Width[w]-1 : w # None /\ x \in Int
      BY MouseAssumption
    <3> QED BY <1>1, <1>2, <1>3, <1>4, <2>1, <3>1 DEF User
  <2> QED BY <2>1, <1>5, <1>6, <1>7, <1>8, <1>9, <1>10, <1>11 DEF Next, Dispatch, App

-----------------------------------------------------------------------------
(* The theorems.                                                             *)

LEMMA SumsInit ==
  ASSUME Init
  PROVE  MotionOnce /\ ButtonOnce /\ Quiet(wire) /\ WireMoves
<1>1. /\ ring = <<>> /\ wire = <<>> /\ on = None /\ mouse_focus = None
      /\ held = FALSE /\ moved = 0
      /\ mouse = [x |-> 0, last_x |-> 0, has_position |-> FALSE, xrel_acc |-> 0, buttons |-> FALSE]
  BY DEF Init
<1>2. DOMAIN <<>> = {}
  BY EmptySeq, LenProperties
<1>3. MotionOnce
  <2>1. SumOf(ring, "rel") = 0 /\ SumOf(wire, "frame") = 0
    BY <1>1, SumEmpty
  <2> QED BY <1>1, <2>1 DEF MotionOnce, Pending
<1>4. ButtonOnce
  <2>1. /\ Ends(<<>>, mouse.buttons, held)
        /\ Ends(<<>>, mouse.buttons, held /\ on # None)
    BY <1>1, <1>2 DEF Ends
  <2> QED BY <1>1, <2>1 DEF ButtonOnce
<1>5. Quiet(wire)
  BY <1>1, <1>2 DEF Quiet
<1>6. WireMoves
  <2>1. PlacesLinked(wire, Known)
    BY <1>1, <1>2 DEF PlacesLinked
  <2> QED BY <1>1, <2>1 DEF WireMoves
<1> QED BY <1>3, <1>4, <1>5, <1>6

\* What the two streams have under way and what was told of it.
Streams == MouseInv /\ WireMoves /\ Quiet(wire) /\ MotionOnce /\ ButtonOnce

LEMMA StreamsNext == ASSUME Streams, [Next]_vars PROVE Streams'
BY MouseNext, MovesStep, QuietStep, MotionStep, ButtonStep DEF Streams

(* src/SDL_mouse.c:21-45, for windows of any size: while a window has the    *)
(* pointer the position told is inside it, whichever stream moves it.        *)
THEOREM PositionAlwaysInside == Spec => []PositionInside
<1>1. Init => MouseInv
  BY MouseInit
<1>2. MouseInv /\ [Next]_vars => MouseInv'
  BY MouseNext
<1>3. MouseInv => PositionInside
  BY InvImplies
<1> QED BY <1>1, <1>2, <1>3, PTL DEF Spec

(* include/SDL3/SDL_mouse.h:57, include/SDL3/SDL_events.h:249, for windows,  *)
(* rings and queues of any size: what the two streams report of one mouse's  *)
(* movement and button is told once, whatever its wheel reports.             *)
THEOREM MotionAndButtonOnce == Spec => [](MotionOnce /\ ButtonOnce)
<1>1. Init => Streams
  BY MouseInit, SumsInit DEF Streams
<1>2. Streams /\ [Next]_vars => Streams'
  BY StreamsNext
<1>3. Streams => MotionOnce /\ ButtonOnce
  BY DEF Streams
<1> QED BY <1>1, <1>2, <1>3, PTL DEF Spec

(* pointer_motion and pointer_enter of src/video/wayland/sdlop_wayland.c,    *)
(* for windows and queues of any size: without raw input the position is     *)
(* that of the pointer once everything on the way was handled, unless        *)
(* relative motion has moved it on from there.                               *)
THEOREM AlwaysFollows == Spec => []Follows
<1>1. Init => Streams
  BY MouseInit, SumsInit DEF Streams
<1>2. Streams /\ [Next]_vars => Streams'
  BY StreamsNext
<1>3. Streams => Follows
  <2> SUFFICES ASSUME Streams, ~raw_active, wire = <<>>, on # None, ~astray
               PROVE  mouse_focus = on /\ mouse.x = cursor /\ mouse.last_x = cursor
    BY DEF Follows
  <2>1. mouse_focus = on
    BY DEF Streams, MouseInv, WireOK, EndsOn
  <2>2. mouse.x = mouse.last_x /\ LeadsTo(wire, Known, cursor) /\ Known = {mouse.last_x}
    BY DEF Streams, WireMoves, Known
  <2>3. NonePlaced(wire, 1, Len(wire))
    <3>1. Len(wire) = 0
      BY EmptySeq
    <3> QED BY <3>1 DEF NonePlaced
  <2>4. mouse.last_x = cursor
    BY <2>2, <2>3 DEF LeadsTo
  <2> QED BY <2>1, <2>2, <2>4
<1> QED BY <1>1, <1>2, <1>3, PTL DEF Spec
=============================================================================
