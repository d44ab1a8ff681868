---------------------------- MODULE WaylandProofs -----------------------------
(***************************************************************************)
(* Proofs about the parts fed by the compositor: the keyboard state of     *)
(* Keyboard, for every set of keys, any keymap and any sizes of the two    *)
(* streams that feed it, the window of WaylandWindow, for any sizes and    *)
(* any number of requests and configures on their way, and the keymaps of  *)
(* Keymap, for any layouts and any table of symbols that has the room.     *)
(***************************************************************************)
EXTENDS Keyboard, Keymap, WaylandWindow, SequenceTheorems, FiniteSetTheorems,
        WellFoundedInduction, TLAPS

-----------------------------------------------------------------------------
(***************************************************************************)
(* The keyboard.                                                           *)
(*                                                                         *)
(* Each function of SDL_keyboard.c is first shown to keep the facts about  *)
(* the keyboard state (the lemmas on SendKeyboardKey, ResetKeyboard and    *)
(* UpdateXkbModifiers); the steps of Next then only say which of them is   *)
(* called, and the rest of TypeOK is about the two streams.                *)
(***************************************************************************)

KeyboardStates ==
  [keystate : SUBSET Keys, modstate : SUBSET ModKeys,
   repeat_scancode : Keys \cup {NoKey}, repeat_active : BOOLEAN]

\* RepeatHeld and ModBitHeld of a keyboard state
Sound(k) ==
  /\ k.repeat_active => k.repeat_scancode \in k.keystate
  /\ k.modstate \subseteq k.keystate

(* SDLOP_SendKeyboardKey keeps the type of the keyboard state, and a repeat  *)
(* or a modifier bit only for keys that are down.                           *)
LEMMA SendKeepsSound ==
  ASSUME NEW k \in KeyboardStates, Sound(k),
         NEW down \in BOOLEAN, NEW repeat \in BOOLEAN, NEW key \in Keys
  PROVE  /\ SendKeyboardKey(k, down, repeat, key) \in KeyboardStates
         /\ Sound(SendKeyboardKey(k, down, repeat, key))
<1> DEFINE s == KeyState(k, down, key)
<1>1. /\ s \in KeyboardStates
      /\ s.repeat_active = k.repeat_active /\ s.repeat_scancode = k.repeat_scancode
      /\ s.modstate \subseteq s.keystate
      /\ down => key \in s.keystate /\ k.keystate \subseteq s.keystate
      /\ ~down => s.keystate = k.keystate \ {key}
  <2>1. CASE down
    BY <2>1 DEF KeyState, KeyboardStates, Sound
  <2>2. CASE ~down
    BY <2>2 DEF KeyState, KeyboardStates, Sound
  <2> QED BY <2>1, <2>2
<1> HIDE DEF s
<1>2. CASE down /\ ~repeat /\ key \in Repeating
  <2>1. SendKeyboardKey(k, down, repeat, key)
          = [s EXCEPT !.repeat_scancode = key, !.repeat_active = TRUE]
    BY <1>2 DEF SendKeyboardKey, s
  <2> QED BY <1>1, <1>2, <2>1 DEF KeyboardStates, Sound
<1>3. CASE ~(down /\ ~repeat /\ key \in Repeating) /\ ~down /\ key = s.repeat_scancode
  <2>1. SendKeyboardKey(k, down, repeat, key) = [s EXCEPT !.repeat_active = FALSE]
    BY <1>3 DEF SendKeyboardKey, s
  <2> QED BY <1>1, <2>1 DEF KeyboardStates, Sound
<1>4. CASE ~(down /\ ~repeat /\ key \in Repeating) /\ ~(~down /\ key = s.repeat_scancode)
  <2>1. SendKeyboardKey(k, down, repeat, key) = s
    BY <1>4 DEF SendKeyboardKey, s
  <2> QED BY <1>1, <1>4, <2>1 DEF Sound
<1> QED BY <1>2, <1>3, <1>4

(* SDL_ResetKeyboard keeps them too: with no key down nothing repeats, and   *)
(* every bit went with its key.                                             *)
LEMMA ResetKeepsSound ==
  ASSUME NEW k \in KeyboardStates, Sound(k)
  PROVE  ResetKeyboard(k) \in KeyboardStates /\ Sound(ResetKeyboard(k))
BY DEF ResetKeyboard, KeyboardStates, Sound

(* SDLOP_KeyboardUpdateXkbModifiers only clears bits.                        *)
LEMMA UpdateKeepsSound ==
  ASSUME NEW k \in KeyboardStates, Sound(k), NEW groups
  PROVE  /\ UpdateXkbModifiers(k, groups) \in KeyboardStates
         /\ Sound(UpdateXkbModifiers(k, groups))
BY DEF UpdateXkbModifiers, KeyboardStates, Sound

-----------------------------------------------------------------------------
(* DownAsTold is inductive: the two properties are kept by each other's      *)
(* steps once the streams the keys come from have their types.              *)
Streams ==
  /\ ring \in Seq(RawKeys) /\ Len(ring) <= RingSize
  /\ wire \in Seq(Messages) /\ Len(wire) <= WireSize

LEMMA InvParts ==
  DownAsTold <=>
    /\ held \subseteq Keys /\ raw_active \in BOOLEAN
    /\ Streams
    /\ seat \in {"none", "keyboard", "focus"} /\ window \in {"none", "open", "destroyed"}
    /\ kb \in KeyboardStates /\ Sound(kb)
    /\ focus \in BOOLEAN /\ excused \in BOOLEAN
BY DEF DownAsTold, TypeOK, RepeatHeld, ModBitHeld, Streams, KeyboardStates, Sound

\* The two streams are read from their heads.
LEMMA HeadTail ==
  ASSUME NEW S, NEW s \in Seq(S), s # <<>>
  PROVE  Head(s) \in S /\ Tail(s) \in Seq(S) /\ Len(Tail(s)) <= Len(s)
BY HeadTailProperties

(* A push of the worker leaves the ring within its size.                     *)
LEMMA ToRingTyped ==
  ASSUME DownAsTold, NEW key \in Keys, NEW value \in 0..2, ToRing(key, value)
  PROVE  /\ ring' \in Seq(RawKeys) /\ Len(ring') <= RingSize
         /\ excused' \in BOOLEAN
<1> USE KeyAssumption
<1> DEFINE e == [key |-> key, value |-> value]
<1>1. e \in RawKeys
  BY DEF RawKeys
<1> HIDE DEF e
<1>2. CASE raw_active /\ Len(ring) < RingSize
  <2>1. ring' = Append(ring, e) /\ excused' = excused
    BY <1>2 DEF ToRing, e
  <2> QED BY <1>1, <1>2, <2>1, AppendProperties DEF DownAsTold, TypeOK
<1>3. CASE ~(raw_active /\ Len(ring) < RingSize)
  BY <1>3 DEF ToRing, DownAsTold, TypeOK
<1> QED BY <1>2, <1>3

(* So does the compositor's report, which is at most two messages.           *)
LEMMA ReportTyped ==
  ASSUME DownAsTold, NEW key \in Keys, NEW down \in BOOLEAN, NEW keys,
         Len(wire) + 2 <= WireSize, Report(key, down, keys)
  PROVE  wire' \in Seq(Messages) /\ Len(wire') <= WireSize
<1> DEFINE k == [kind |-> "key", key |-> key, down |-> down]
           m == [kind |-> "modifiers", groups |-> Effective(keys)]
<1>1. k \in Messages /\ m \in Messages
  BY DEF Messages, Effective
<1> HIDE DEF k, m
<1>2. CASE seat # "focus"
  BY <1>2 DEF Report, DownAsTold, TypeOK
<1>3. CASE seat = "focus" /\ key \in ModKeys
  <2>1. wire' = (wire \o <<k>>) \o <<m>>
    BY <1>3 DEF Report, k, m
  <2> QED BY <1>1, <2>1, KeyAssumption DEF DownAsTold, TypeOK
<1>4. CASE seat = "focus" /\ key \notin ModKeys
  <2>1. wire' = (wire \o <<k>>) \o <<>>
    BY <1>4 DEF Report, k
  <2> QED BY <1>1, <2>1, KeyAssumption DEF DownAsTold, TypeOK
<1> QED BY <1>2, <1>3, <1>4

-----------------------------------------------------------------------------
LEMMA DownInit == Init => DownAsTold
<1> SUFFICES ASSUME Init PROVE DownAsTold
  OBVIOUS
<1>1. Up \in KeyboardStates /\ Sound(Up)
  BY DEF Up, KeyboardStates, Sound
<1>2. Streams
  BY KeyAssumption DEF Init, Streams
<1>3. RepeatHeld /\ ModBitHeld
  BY <1>1 DEF Init, Sound, RepeatHeld, ModBitHeld
<1> QED BY <1>1, <1>2, <1>3 DEF Init, DownAsTold, TypeOK, Streams, KeyboardStates

LEMMA DownNext == DownAsTold /\ [Next]_vars => DownAsTold'
<1> SUFFICES ASSUME DownAsTold, [Next]_vars PROVE DownAsTold'
  OBVIOUS
<1> USE KeyAssumption
<1> DEFINE Rest == /\ held' \subseteq Keys /\ raw_active' \in BOOLEAN
                   /\ seat' \in {"none", "keyboard", "focus"}
                   /\ window' \in {"none", "open", "destroyed"}
                   /\ focus' \in BOOLEAN /\ excused' \in BOOLEAN
           Kb == kb' \in KeyboardStates /\ Sound(kb')
<1>0. /\ kb \in KeyboardStates /\ Sound(kb) /\ Streams
      /\ held \subseteq Keys /\ raw_active \in BOOLEAN
      /\ seat \in {"none", "keyboard", "focus"} /\ window \in {"none", "open", "destroyed"}
      /\ focus \in BOOLEAN /\ excused \in BOOLEAN
  BY InvParts
<1>q. Rest /\ Kb /\ Streams' => DownAsTold'
  BY DEF DownAsTold, TypeOK, RepeatHeld, ModBitHeld, Streams, KeyboardStates, Sound, Messages
<1> HIDE DEF Rest, Kb
<1>1. ASSUME NEW key \in Keys, Press(key) PROVE DownAsTold'
  <2>1. ring' \in Seq(RawKeys) /\ Len(ring') <= RingSize /\ excused' \in BOOLEAN
    <3>1. ToRing(key, 1) /\ 1 \in 0..2
      BY <1>1 DEF Press
    <3> QED BY <3>1, ToRingTyped
  <2>2. wire' \in Seq(Messages) /\ Len(wire') <= WireSize
    <3>1. Report(key, TRUE, held') /\ Len(wire) + 2 <= WireSize /\ TRUE \in BOOLEAN
      BY <1>1 DEF Press
    <3> QED BY <3>1, ReportTyped
  <2>3. Streams'
    BY <2>1, <2>2 DEF Streams, Messages, RawKeys
  <2> QED BY <1>0, <1>1, <1>q, <2>1, <2>3 DEF Press, Rest, Kb
<1>2. ASSUME NEW key \in Keys, Release(key) PROVE DownAsTold'
  <2>1. ring' \in Seq(RawKeys) /\ Len(ring') <= RingSize /\ excused' \in BOOLEAN
    <3>1. ToRing(key, 0) /\ 0 \in 0..2
      BY <1>2 DEF Release
    <3> QED BY <3>1, ToRingTyped
  <2>2. wire' \in Seq(Messages) /\ Len(wire') <= WireSize
    <3>1. Report(key, FALSE, held') /\ Len(wire) + 2 <= WireSize /\ FALSE \in BOOLEAN
      BY <1>2 DEF Release
    <3> QED BY <3>1, ReportTyped
  <2>3. Streams'
    BY <2>1, <2>2 DEF Streams, Messages, RawKeys
  <2> QED BY <1>0, <1>2, <1>q, <2>1, <2>3 DEF Release, Rest, Kb
<1>3. ASSUME NEW key \in Keys, Autorepeat(key) PROVE DownAsTold'
  <2>1. Streams'
    BY <1>0, <1>3, ToRingTyped DEF Autorepeat, Streams
  <2>2. excused' \in BOOLEAN
    BY <1>3, ToRingTyped DEF Autorepeat
  <2> QED BY <1>0, <1>3, <1>q, <2>1, <2>2 DEF Autorepeat, Rest, Kb
<1>4. ASSUME NEW new \in {"none", "keyboard", "focus"}, NEW messages \in Seq(Messages),
             SeatMessage(new, messages), window' \in {"none", "open", "destroyed"}
      PROVE  DownAsTold'
  <2>1. Streams'
    BY <1>0, <1>4 DEF SeatMessage, Streams
  <2> QED BY <1>0, <1>4, <1>q, <2>1 DEF SeatMessage, Rest, Kb
<1>5. CASE SeatGainsKeyboard
  <2>1. [kind |-> "capability", on |-> TRUE] \in Messages
    BY DEF Messages
  <2>2. SeatMessage("keyboard", <<[kind |-> "capability", on |-> TRUE]>>) /\ window' = window
    BY <1>5 DEF SeatGainsKeyboard, SeatAlone
  <2> DEFINE m == <<[kind |-> "capability", on |-> TRUE]>>
  <2>3. m \in Seq(Messages)
    BY <2>1
  <2> QED BY <1>0, <1>4, <2>2, <2>3
<1>6. CASE SeatLosesKeyboard
  <2>1. [kind |-> "capability", on |-> FALSE] \in Messages
    BY DEF Messages
  <2>2. SeatMessage("none", <<[kind |-> "capability", on |-> FALSE]>>) /\ window' = window
    BY <1>6 DEF SeatLosesKeyboard, SeatAlone
  <2> DEFINE m == <<[kind |-> "capability", on |-> FALSE]>>
  <2>3. m \in Seq(Messages)
    BY <2>1
  <2> QED BY <1>0, <1>4, <2>2, <2>3
<1>7. CASE FocusIn
  <2>1. [kind |-> "enter"] \in Messages
    BY DEF Messages
  <2>2. [kind |-> "modifiers", groups |-> Effective(held)] \in Messages
    BY DEF Messages, Effective
  <2> DEFINE m == <<[kind |-> "enter"],
                    [kind |-> "modifiers", groups |-> Effective(held)]>>
  <2>3. SeatMessage("focus", m) /\ window' = window
    BY <1>7 DEF FocusIn, SeatAlone
  <2>4. m \in Seq(Messages)
    BY <2>1, <2>2
  <2> QED BY <1>0, <1>4, <2>3, <2>4
<1>8. CASE FocusOut
  <2>1. [kind |-> "leave"] \in Messages
    BY DEF Messages
  <2>2. SeatMessage("keyboard", <<[kind |-> "leave"]>>) /\ window' = window
    BY <1>8 DEF FocusOut, SeatAlone
  <2> DEFINE m == <<[kind |-> "leave"]>>
  <2>3. m \in Seq(Messages)
    BY <2>1
  <2> QED BY <1>0, <1>4, <2>2, <2>3
<1>9. CASE Dispatch
  <2> DEFINE message == Head(wire)
  <2>1. message \in Messages /\ Streams'
    BY <1>0, <1>9, HeadTail DEF Dispatch, Streams
  <2>2. message.kind = "key" => message.key \in Keys /\ message.down \in BOOLEAN
    BY <2>1 DEF Messages
  <2>3. Kb
    <3>1. CASE Enter(message)
      BY <1>0, <3>1 DEF Enter, Kb
    <3>2. CASE Leave(message)
      BY <1>0, <3>2, ResetKeepsSound DEF Leave, Kb
    <3>3. CASE message.kind = "key" /\ Key(message)
      BY <1>0, <2>2, <3>3, SendKeepsSound DEF Key, Kb
    <3>4. CASE kb' = UpdateXkbModifiers(kb, message.groups)
      BY <1>0, <3>4, UpdateKeepsSound DEF Kb
    <3>5. CASE Capability(message)
      BY <1>0, <3>5 DEF Capability, Kb
    <3> QED BY <1>9, <3>1, <3>2, <3>3, <3>4, <3>5 DEF Dispatch
  <2>4. Rest
    BY <1>0, <1>9 DEF Dispatch, Enter, Leave, Key, Capability, Rest
  <2> QED BY <1>q, <2>1, <2>3, <2>4
<1>10. CASE PumpKey
  <2>1. Head(ring) \in RawKeys /\ Streams'
    BY <1>0, <1>10, HeadTail DEF PumpKey, Streams
  <2>2. Head(ring).key \in Keys
    BY <2>1 DEF RawKeys
  <2>3. Kb
    BY <1>0, <1>10, <2>2, SendKeepsSound DEF PumpKey, Kb
  <2> QED BY <1>0, <1>10, <1>q, <2>1, <2>3 DEF PumpKey, Rest
<1>11. CASE ProcessRepeats
  <2>1. kb.repeat_scancode \in Keys
    BY <1>0, <1>11 DEF ProcessRepeats, Sound, KeyboardStates
  <2>2. Kb
    BY <1>0, <1>11, <2>1, SendKeepsSound DEF ProcessRepeats, Kb
  <2> QED BY <1>0, <1>11, <1>q, <2>2 DEF ProcessRepeats, Rest, Streams
<1>12. CASE Reset
  <2>1. Kb
    BY <1>0, <1>12, ResetKeepsSound DEF Reset, Kb
  <2> QED BY <1>0, <1>12, <1>q, <2>1 DEF Reset, Rest, Streams
<1>13. CASE UNCHANGED vars
  BY <1>0, <1>13, <1>q DEF vars, Rest, Kb, Streams
<1>14. CASE SurfaceGone
  <2> DEFINE m == <<[kind |-> "leave"]>>
  <2>1. m \in Seq(Messages)
    BY DEF Messages
  <2>2. CASE seat = "focus"
    <3>1. SeatMessage("keyboard", m) /\ window' = "none"
      BY <1>14, <2>2 DEF SurfaceGone
    <3> QED BY <1>4, <2>1, <3>1
  <2>3. CASE seat # "focus"
    BY <1>0, <1>14, <1>q, <2>3 DEF SurfaceGone, Rest, Kb, Streams
  <2> QED BY <2>2, <2>3
<1>15. CASE OpenWindow \/ RemoveWindow
  BY <1>0, <1>15, <1>q DEF OpenWindow, RemoveWindow, Rest, Kb, Streams
<1> QED BY <1>1, <1>2, <1>3, <1>5, <1>6, <1>7, <1>8, <1>9, <1>10, <1>11, <1>12, <1>13, <1>14,
           <1>15
        DEF Next

LEMMA DownInvariant == Spec => []DownAsTold
BY DownInit, DownNext, PTL DEF Spec

(* The keyboard state and the streams keep their types, the ring within      *)
(* SDLOP_SDL_RING_SIZE.                                                     *)
THEOREM KeyboardTypeCorrect == Spec => []TypeOK
<1>1. DownAsTold => TypeOK
  BY DEF DownAsTold
<1> QED BY <1>1, DownInvariant, PTL

(* SDLOP_KeyboardProcessRepeats never reports a key the application was told *)
(* is up: the repeat ends with its key, however the key goes.               *)
THEOREM RepeatHeldAlways == Spec => []RepeatHeld
<1>1. DownAsTold => RepeatHeld
  BY DEF DownAsTold
<1> QED BY <1>1, DownInvariant, PTL

(* No modifier bit outlives its key, over key events of either stream,       *)
(* resets and modifier updates of the compositor.                           *)
THEOREM ModBitHeldAlways == Spec => []ModBitHeld
<1>1. DownAsTold => ModBitHeld
  BY DEF DownAsTold
<1> QED BY <1>1, DownInvariant, PTL

\* A repeat and a modifier in effect are always of keys told down.
THEOREM DownAlwaysAsTold == Spec => []DownAsTold
<1>1. TypeOK /\ RepeatHeld /\ ModBitHeld => DownAsTold
  BY DEF DownAsTold
<1>2. QED
  BY <1>1, KeyboardTypeCorrect, RepeatHeldAlways, ModBitHeldAlways, PTL

-----------------------------------------------------------------------------
(***************************************************************************)
(* Which keys are down once everything on the way has been handled.        *)
(*                                                                         *)
(* The first lemmas are about Reaches for any sequence of messages: it     *)
(* reads them by their index, one more does to the keys what After says,   *)
(* and handling the first one leaves the others to reach the same keys.    *)
(* Leads and Focused then follow the wire as it grows by a message and     *)
(* loses its head, and each step of Next only says which message that is.  *)
(***************************************************************************)

(* Reaches reads its messages by their index only.                          *)
LEMMA ReachesAgree ==
  ASSUME NEW n \in Nat, NEW s, NEW t, NEW K, NEW S,
         \A i \in 1..n : t[i] = s[i], Reaches(s, n, K, S)
  PROVE  Reaches(t, n, K, S)
<1>1. \A i \in 1..n : \A j \in i+1..n : t[j] = s[j]
  OBVIOUS
<1> QED BY <1>1 DEF Reaches

LEMMA ReachesWeaker ==
  ASSUME NEW n \in Nat, NEW s, NEW K, NEW S, NEW K1 \in SUBSET K, NEW S1, S \subseteq S1,
         Reaches(s, n, K, S)
  PROVE  Reaches(s, n, K1, S1)
BY DEF Reaches

LEMMA ReachesNone == ASSUME NEW s, NEW K, NEW S PROVE Reaches(s, 0, K, S) <=> K \subseteq S
BY DEF Reaches

(* One more message does to the keys reached what it does.                  *)
LEMMA ReachesNext ==
  ASSUME NEW n \in Nat, NEW s, NEW K, NEW S, Reaches(s, n, K, S)
  PROVE  Reaches(s, n+1, K, After(S, s[n+1]))
<1> DEFINE m == s[n+1]
<1>1. \A key : key \in S /\ ~Settles(m, key) => key \in After(S, m)
  BY DEF After, Settles
<1>2. m.kind = "key" /\ m.down => m.key \in After(S, m)
  BY DEF After, Clears
<1>3. ASSUME NEW i \in 1..(n+1), s[i].kind = "key", s[i].down,
             \A j \in i+1..n+1 : ~Settles(s[j], s[i].key)
      PROVE  s[i].key \in After(S, m)
  <2>1. CASE i = n+1
    BY <1>2, <1>3, <2>1
  <2>2. CASE i \in 1..n
    <3>1. s[i].key \in S
      <4>1. \A j \in i+1..n : ~Settles(s[j], s[i].key)
        BY <1>3
      <4> QED BY <1>3, <2>2, <4>1 DEF Reaches
    <3>2. ~Settles(m, s[i].key)
      BY <1>3, <2>2
    <3> QED BY <1>1, <3>1, <3>2
  <2> QED BY <2>1, <2>2
<1>4. ASSUME NEW key \in K, \A j \in 1..n+1 : ~Settles(s[j], key) PROVE key \in After(S, m)
  <2>1. key \in S
    BY <1>4 DEF Reaches
  <2>2. ~Settles(m, key)
    BY <1>4
  <2> QED BY <1>1, <2>1, <2>2
<1> QED BY <1>3, <1>4 DEF Reaches

(* Handling the first message leaves the others to reach the same keys.     *)
LEMMA ReachesTail ==
  ASSUME NEW n \in Nat, NEW s, NEW t, \A i \in 1..n : t[i] = s[i+1],
         NEW K, NEW S, NEW K1, K1 \subseteq After(K, s[1]),
         Reaches(s, n+1, K, S)
  PROVE  Reaches(t, n, K1, S)
<1>1. ASSUME NEW i \in 1..n, t[i].kind = "key", t[i].down,
             \A j \in i+1..n : ~Settles(t[j], t[i].key)
      PROVE  t[i].key \in S
  <2>1. \A j \in i+2..n+1 : ~Settles(s[j], s[i+1].key)
    <3> TAKE j \in i+2..n+1
    <3>1. j-1 \in i+1..n /\ j-1 \in 1..n /\ (j-1)+1 = j
      OBVIOUS
    <3>2. t[j-1] = s[j] /\ t[i] = s[i+1]
      BY <3>1
    <3> QED BY <1>1, <3>1, <3>2
  <2>2. i+1 \in 1..n+1 /\ (i+1)+1 = i+2 /\ t[i] = s[i+1]
    OBVIOUS
  <2> QED BY <1>1, <2>1, <2>2 DEF Reaches
<1>2. ASSUME NEW key \in K1, \A j \in 1..n : ~Settles(t[j], key) PROVE key \in S
  <2>1. \A j \in 2..n+1 : ~Settles(s[j], key)
    <3> TAKE j \in 2..n+1
    <3>1. j-1 \in 1..n /\ (j-1)+1 = j
      OBVIOUS
    <3>2. t[j-1] = s[j]
      BY <3>1
    <3> QED BY <1>2, <3>1, <3>2
  <2>2. CASE s[1].kind = "key" /\ s[1].down /\ key = s[1].key
    BY <2>1, <2>2 DEF Reaches
  <2>3. CASE ~(s[1].kind = "key" /\ s[1].down /\ key = s[1].key)
    <3>1. key \in K /\ ~Settles(s[1], key)
      BY <1>2, <2>3 DEF After, Settles
    <3>2. \A j \in 1..n+1 : ~Settles(s[j], key)
      BY <2>1, <3>1
    <3> QED BY <3>1, <3>2 DEF Reaches
  <2> QED BY <2>2, <2>3
<1> QED BY <1>1, <1>2 DEF Reaches

-----------------------------------------------------------------------------
LEMMA AppendOne ==
  ASSUME NEW T, NEW s \in Seq(T), NEW m \in T
  PROVE  /\ s \o <<m>> = Append(s, m)
         /\ Append(s, m) \in Seq(T) /\ Len(Append(s, m)) = Len(s)+1 /\ Len(s) \in Nat
         /\ Append(s, m)[Len(s)+1] = m
         /\ \A i \in 1..Len(s) : Append(s, m)[i] = s[i]
<1>1. <<m>> \in Seq(T) /\ Len(<<m>>) = 1 /\ <<m>>[1] = m
  OBVIOUS
<1> QED BY <1>1, AppendProperties

LEMMA AppendTwo ==
  ASSUME NEW T, NEW s \in Seq(T), NEW a \in T, NEW b \in T
  PROVE  s \o <<a, b>> = (s \o <<a>>) \o <<b>>
<1>1. <<a>> \in Seq(T) /\ <<b>> \in Seq(T)
  OBVIOUS
<1>2. <<a>> \o <<b>> = <<a, b>>
  <2> DEFINE x == <<a>> \o <<b>>
             y == <<a, b>>
  <2>1. x \in Seq(T) /\ Len(x) = 2 /\ x[1] = a /\ x[2] = b
    BY <1>1, ConcatProperties
  <2>2. y \in Seq(T) /\ Len(y) = 2 /\ y[1] = a /\ y[2] = b
    OBVIOUS
  <2> HIDE DEF x, y
  <2>3. x = y
    BY <2>1, <2>2, SeqEqual
  <2> QED BY <2>3 DEF x, y
<1>3. (s \o <<a>>) \o <<b>> = s \o (<<a>> \o <<b>>)
  BY <1>1, ConcatAssociative
<1> QED BY <1>2, <1>3

LEMMA TailParts ==
  ASSUME NEW T, NEW s \in Seq(T), s # <<>>
  PROVE  /\ Tail(s) \in Seq(T) /\ Head(s) = s[1] /\ s[1] \in T
         /\ Len(Tail(s)) \in Nat /\ Len(s) = Len(Tail(s))+1
         /\ \A i \in 1..Len(Tail(s)) : Tail(s)[i] = s[i+1]
<1>1. Head(s) = s[1] /\ Head(s) \in T
  BY HeadTailProperties
<1>2. Tail(s) \in Seq(T) /\ Len(Tail(s)) = Len(s)-1
  BY HeadTailProperties
<1>3. Len(s) \in Nat /\ Len(s) # 0
  BY EmptySeq, LenProperties
<1> QED BY <1>1, <1>2, <1>3, HeadTailProperties

(* A message appended to the wire leads to what it does to the keys led to, *)
(* if they are in effect where it says what is.                             *)
LEMMA LeadsAppend ==
  ASSUME NEW s \in Seq(Messages), NEW m \in Messages, NEW K, NEW S, NEW S1, Leads(s, K, S),
         m.kind = "modifiers" => S \subseteq InEffect(m.groups), After(S, m) \subseteq S1
  PROVE  Leads(Append(s, m), K, S1)
<1> DEFINE t == Append(s, m)
           n == Len(s)
<1>1. t \in Seq(Messages) /\ Len(t) = n+1 /\ n \in Nat /\ t[n+1] = m
      /\ \A i \in 1..n : t[i] = s[i]
  BY AppendOne
<1>2. DOMAIN s = 1..n /\ DOMAIN t = 1..n+1
  BY <1>1, LenProperties
<1> HIDE DEF t, n
<1>3. Reaches(s, n, K, S)
  BY DEF Leads, n
<1>4. Reaches(t, n, K, S)
  BY <1>1, <1>3, ReachesAgree
<1>5. Reaches(t, n+1, K, S1)
  <2>1. Reaches(t, n+1, K, After(S, m))
    BY <1>1, <1>4, ReachesNext
  <2>2. n+1 \in Nat /\ K \in SUBSET K
    BY <1>1
  <2> QED BY <2>1, <2>2, ReachesWeaker
<1>6. ASSUME NEW p \in 1..n+1, t[p].kind = "modifiers"
      PROVE  Reaches(t, p-1, K, InEffect(t[p].groups))
  <2>1. CASE p = n+1
    <3>1. p-1 = n /\ S \subseteq InEffect(t[p].groups) /\ K \in SUBSET K
      BY <1>1, <1>6, <2>1
    <3> QED BY <1>1, <1>4, <3>1, ReachesWeaker
  <2>2. CASE p \in 1..n
    <3>1. t[p] = s[p] /\ p \in DOMAIN s
      BY <1>1, <1>2, <2>2
    <3>2. Reaches(s, p-1, K, InEffect(t[p].groups))
      BY <1>6, <3>1 DEF Leads
    <3>3. p-1 \in Nat /\ \A i \in 1..p-1 : t[i] = s[i]
      BY <1>1, <2>2
    <3> QED BY <3>2, <3>3, ReachesAgree
  <2> QED BY <1>1, <2>1, <2>2
<1>7. Leads(t, K, S1)
  BY <1>1, <1>2, <1>5, <1>6 DEF Leads
<1> QED BY <1>7 DEF t

(* Handling the head of the wire leaves the rest to lead to the same keys.  *)
LEMMA LeadsTail ==
  ASSUME NEW s \in Seq(Messages), s # <<>>, NEW K, NEW S, NEW K1, Leads(s, K, S),
         K1 \subseteq After(K, Head(s))
  PROVE  Leads(Tail(s), K1, S)
<1> DEFINE t == Tail(s)
           n == Len(t)
<1>1. t \in Seq(Messages) /\ Len(s) = n+1 /\ n \in Nat /\ Head(s) = s[1]
      /\ \A i \in 1..n : t[i] = s[i+1]
  BY TailParts
<1>2. DOMAIN t = 1..n /\ DOMAIN s = 1..n+1
  BY <1>1, LenProperties
<1>n. n = Len(t)
  OBVIOUS
<1> HIDE DEF t, n
<1>3. Reaches(t, n, K1, S)
  <2>1. Reaches(s, n+1, K, S)
    BY <1>1 DEF Leads
  <2> QED BY <1>1, <2>1, ReachesTail
<1>4. ASSUME NEW p \in 1..n, t[p].kind = "modifiers"
      PROVE  Reaches(t, p-1, K1, InEffect(t[p].groups))
  <2>1. t[p] = s[p+1] /\ p+1 \in DOMAIN s /\ (p+1)-1 = (p-1)+1 /\ p-1 \in Nat
    BY <1>1, <1>2
  <2>2. Reaches(s, (p-1)+1, K, InEffect(t[p].groups))
    BY <1>4, <2>1 DEF Leads
  <2>3. \A i \in 1..p-1 : t[i] = s[i+1]
    BY <1>1
  <2> QED BY <1>1, <2>1, <2>2, <2>3, ReachesTail
<1>5. Leads(t, K1, S)
  BY <1>n, <1>2, <1>3, <1>4 DEF Leads
<1> QED BY <1>5 DEF t

LEMMA LeadsWeaker ==
  ASSUME NEW s \in Seq(Messages), NEW K, NEW S, NEW K1 \in SUBSET K, Leads(s, K, S)
  PROVE  Leads(s, K1, S)
<1>1. Len(s) \in Nat /\ DOMAIN s = 1..Len(s)
  BY LenProperties
<1>2. \A p \in DOMAIN s : p-1 \in Nat
  BY <1>1
<1> QED BY <1>1, <1>2, ReachesWeaker DEF Leads

-----------------------------------------------------------------------------
LeavesFocused(f, s) == \A p \in DOMAIN s : s[p].kind = "leave" => Focused(f, s, p-1)

(* Focus after the first messages does not depend on the ones that follow.   *)
LEMMA FocusedAgree ==
  ASSUME NEW n \in Nat, NEW s, NEW t, NEW f, \A i \in 1..n : t[i] = s[i], Focused(f, s, n)
  PROVE  Focused(f, t, n)
<1>1. \A i \in 1..n : \A j \in i+1..n : t[j] = s[j]
  OBVIOUS
<1> QED BY <1>1 DEF Focused

LEMMA FocusedNext ==
  ASSUME NEW n \in Nat, NEW s, NEW f,
         s[n+1].kind = "enter" \/ (s[n+1].kind # "leave" /\ Focused(f, s, n))
  PROVE  Focused(f, s, n+1)
<1>1. CASE s[n+1].kind = "enter"
  <2>1. n+1 \in 1..n+1 /\ \A j \in (n+1)+1..n+1 : s[j].kind # "leave"
    OBVIOUS
  <2> QED BY <1>1, <2>1 DEF Focused
<1>2. CASE s[n+1].kind # "leave" /\ Focused(f, s, n)
  <2>1. CASE f /\ \A j \in 1..n : s[j].kind # "leave"
    <3>1. \A j \in 1..n+1 : s[j].kind # "leave"
      BY <1>2, <2>1
    <3> QED BY <2>1, <3>1 DEF Focused
  <2>2. CASE \E i \in 1..n : s[i].kind = "enter" /\ \A j \in i+1..n : s[j].kind # "leave"
    <3>1. PICK i \in 1..n : s[i].kind = "enter" /\ \A j \in i+1..n : s[j].kind # "leave"
      BY <2>2
    <3>2. i \in 1..n+1 /\ \A j \in i+1..n+1 : s[j].kind # "leave"
      BY <1>2, <3>1
    <3> QED BY <3>1, <3>2 DEF Focused
  <2> QED BY <1>2, <2>1, <2>2 DEF Focused
<1> QED BY <1>1, <1>2

LEMMA FocusedTail ==
  ASSUME NEW n \in Nat, NEW s, NEW t, \A i \in 1..n : t[i] = s[i+1], NEW f, NEW f1,
         s[1].kind = "enter" \/ (f /\ s[1].kind # "leave") => f1,
         Focused(f, s, n+1)
  PROVE  Focused(f1, t, n)
<1>1. ASSUME NEW i \in 1..n+1, \A j \in i+1..n+1 : s[j].kind # "leave", NEW k \in i..n
      PROVE  t[k].kind # "leave"
  <2>1. k+1 \in i+1..n+1 /\ k \in 1..n
    OBVIOUS
  <2> QED BY <1>1, <2>1
<1>2. CASE f /\ \A j \in 1..n+1 : s[j].kind # "leave"
  <2>1. s[1].kind # "leave" /\ \A j \in 2..n+1 : s[j].kind # "leave"
    BY <1>2
  <2>2. \A k \in 1..n : t[k].kind # "leave"
    BY <2>1
  <2> QED BY <1>2, <2>1, <2>2 DEF Focused
<1>3. CASE \E i \in 1..n+1 : s[i].kind = "enter" /\ \A j \in i+1..n+1 : s[j].kind # "leave"
  <2>1. PICK i \in 1..n+1 : s[i].kind = "enter" /\ \A j \in i+1..n+1 : s[j].kind # "leave"
    BY <1>3
  <2>2. \A k \in i..n : t[k].kind # "leave"
    BY <1>1, <2>1
  <2>3. CASE i = 1
    BY <2>1, <2>2, <2>3 DEF Focused
  <2>4. CASE i # 1
    <3>1. i-1 \in 1..n /\ (i-1)+1 = i
      BY <2>4
    <3>2. t[i-1].kind = "enter" /\ \A k \in (i-1)+1..n : t[k].kind # "leave"
      BY <2>1, <2>2, <3>1
    <3> QED BY <3>1, <3>2 DEF Focused
  <2> QED BY <2>3, <2>4
<1> QED BY <1>2, <1>3 DEF Focused

(* A leave is appended only to a wire that ends in focus, and only an enter  *)
(* brings it back.                                                          *)
LEMMA FocusAppend ==
  ASSUME NEW s \in Seq(Messages), NEW m \in Messages, NEW f, LeavesFocused(f, s)
  PROVE  /\ (m.kind = "leave" => Focused(f, s, Len(s))) => LeavesFocused(f, Append(s, m))
         /\ m.kind = "enter" \/ (m.kind # "leave" /\ Focused(f, s, Len(s)))
              => Focused(f, Append(s, m), Len(Append(s, m)))
<1> DEFINE t == Append(s, m)
           n == Len(s)
<1>1. t \in Seq(Messages) /\ Len(t) = n+1 /\ n \in Nat /\ t[n+1] = m
      /\ \A i \in 1..n : t[i] = s[i]
  BY AppendOne
<1>2. DOMAIN s = 1..n /\ DOMAIN t = 1..n+1
  BY <1>1, LenProperties
<1>n. n = Len(s)
  OBVIOUS
<1> HIDE DEF t, n
<1>3. ASSUME m.kind = "leave" => Focused(f, s, n), NEW p \in 1..n+1, t[p].kind = "leave"
      PROVE  Focused(f, t, p-1)
  <2>1. CASE p = n+1
    <3>1. p-1 = n /\ Focused(f, s, n)
      BY <1>1, <1>3, <2>1
    <3> QED BY <1>1, <3>1, FocusedAgree
  <2>2. CASE p \in 1..n
    <3>1. t[p] = s[p] /\ p \in DOMAIN s
      BY <1>1, <1>2, <2>2
    <3>2. Focused(f, s, p-1)
      BY <1>3, <3>1 DEF LeavesFocused
    <3>3. p-1 \in Nat /\ \A i \in 1..p-1 : t[i] = s[i]
      BY <1>1, <2>2
    <3> QED BY <3>2, <3>3, FocusedAgree
  <2> QED BY <1>1, <2>1, <2>2
<1>4. ASSUME m.kind = "enter" \/ (m.kind # "leave" /\ Focused(f, s, n))
      PROVE  Focused(f, t, n+1)
  <2>1. CASE m.kind = "enter"
    BY <1>1, <2>1, FocusedNext
  <2>2. CASE m.kind # "leave" /\ Focused(f, s, n)
    <3>1. Focused(f, t, n)
      BY <1>1, <2>2, FocusedAgree
    <3> QED BY <1>1, <2>2, <3>1, FocusedNext
  <2> QED BY <1>4, <2>1, <2>2
<1>5. (m.kind = "leave" => Focused(f, s, n)) => LeavesFocused(f, t)
  BY <1>2, <1>3 DEF LeavesFocused
<1>6. m.kind = "enter" \/ (m.kind # "leave" /\ Focused(f, s, n)) => Focused(f, t, Len(t))
  BY <1>1, <1>4
<1> QED BY <1>5, <1>6, <1>n DEF t

LEMMA FocusTail ==
  ASSUME NEW s \in Seq(Messages), s # <<>>, NEW f, NEW f1, LeavesFocused(f, s),
         Head(s).kind = "enter" \/ (f /\ Head(s).kind # "leave") => f1
  PROVE  /\ LeavesFocused(f1, Tail(s))
         /\ Focused(f, s, Len(s)) => Focused(f1, Tail(s), Len(Tail(s)))
<1> DEFINE t == Tail(s)
           n == Len(t)
<1>1. t \in Seq(Messages) /\ Len(s) = n+1 /\ n \in Nat /\ Head(s) = s[1]
      /\ \A i \in 1..n : t[i] = s[i+1]
  BY TailParts
<1>2. DOMAIN t = 1..n /\ DOMAIN s = 1..n+1
  BY <1>1, LenProperties
<1>n. n = Len(t)
  OBVIOUS
<1>h. s[1].kind = "enter" \/ (f /\ s[1].kind # "leave") => f1
  BY <1>1
<1> HIDE DEF t, n
<1>3. ASSUME NEW p \in 1..n, t[p].kind = "leave" PROVE Focused(f1, t, p-1)
  <2>1. t[p] = s[p+1] /\ p+1 \in DOMAIN s /\ (p+1)-1 = (p-1)+1 /\ p-1 \in Nat
    BY <1>1, <1>2
  <2>2. Focused(f, s, (p-1)+1)
    BY <1>3, <2>1 DEF LeavesFocused
  <2>3. \A i \in 1..p-1 : t[i] = s[i+1]
    BY <1>1
  <2> QED BY <1>h, <2>1, <2>2, <2>3, FocusedTail
<1>4. Focused(f, s, n+1) => Focused(f1, t, n)
  BY <1>1, <1>h, FocusedTail
<1>5. LeavesFocused(f1, t)
  BY <1>2, <1>3 DEF LeavesFocused
<1>6. Focused(f, s, Len(s)) => Focused(f1, t, Len(t))
  BY <1>1, <1>4, <1>n
<1> QED BY <1>5, <1>6 DEF t

-----------------------------------------------------------------------------
\* s is k with the key down, or up, and its bit with it.
KeySent(s, k, down, key) ==
  IF down
  THEN s.keystate = k.keystate \cup {key} /\ s.modstate = k.modstate \cup ({key} \cap ModKeys)
  ELSE s.keystate = k.keystate \ {key} /\ s.modstate = k.modstate \ {key}

(* What SDLOP_SendKeyboardKey does to the keys down and to their bits.       *)
LEMMA SendKeys ==
  ASSUME NEW k \in KeyboardStates, NEW down \in BOOLEAN, NEW repeat \in BOOLEAN,
         NEW key \in Keys
  PROVE  KeySent(SendKeyboardKey(k, down, repeat, key), k, down, key)
<1> DEFINE s == KeyState(k, down, key)
<1>1. /\ s \in KeyboardStates
      /\ KeySent(s, k, down, key)
  <2>1. CASE down
    BY <2>1 DEF KeyState, KeyboardStates, KeySent
  <2>2. CASE ~down
    BY <2>2 DEF KeyState, KeyboardStates, KeySent
  <2> QED BY <2>1, <2>2
<1> HIDE DEF s
<1>2. CASE down /\ ~repeat /\ key \in Repeating
  <2>1. SendKeyboardKey(k, down, repeat, key)
          = [s EXCEPT !.repeat_scancode = key, !.repeat_active = TRUE]
    BY <1>2 DEF SendKeyboardKey, s
  <2> QED BY <1>1, <1>2, <2>1 DEF KeyboardStates, KeySent
<1>3. CASE ~(down /\ ~repeat /\ key \in Repeating) /\ ~down /\ key = s.repeat_scancode
  <2>1. SendKeyboardKey(k, down, repeat, key) = [s EXCEPT !.repeat_active = FALSE]
    BY <1>3 DEF SendKeyboardKey, s
  <2> QED BY <1>1, <2>1 DEF KeyboardStates, KeySent
<1>4. CASE ~(down /\ ~repeat /\ key \in Repeating) /\ ~(~down /\ key = s.repeat_scancode)
  <2>1. SendKeyboardKey(k, down, repeat, key) = s
    BY <1>4 DEF SendKeyboardKey, s
  <2> QED BY <1>1, <1>4, <2>1
<1> QED BY <1>2, <1>3, <1>4

KeyMessage(key, down) == [kind |-> "key", key |-> key, down |-> down]

\* A key message sets the key or clears it.
LEMMA AfterKey ==
  ASSUME NEW K, NEW key, NEW down
  PROVE  /\ down => After(K, KeyMessage(key, down)) = K \cup {key}
         /\ ~down => After(K, KeyMessage(key, down)) = K \ {key}
BY DEF After, Clears, KeyMessage

\* Messages that are neither of a key nor the end of the keys' reports.
LEMMA AfterOther ==
  ASSUME NEW K, NEW m, m.kind \in {"enter", "modifiers"} \/ (m.kind = "capability" /\ m.on)
  PROVE  After(K, m) = K
BY DEF After, Clears

LEMMA AfterClear == ASSUME NEW K, NEW m, Clears(m) PROVE After(K, m) = {}
BY DEF After

\* The groups in effect are those of the modifier keys given.
LEMMA InEffectHeld == ASSUME NEW keys \in SUBSET Keys PROVE keys \subseteq InEffect(Effective(keys))
BY DEF InEffect, Effective

-----------------------------------------------------------------------------
(* A report in the ring, or its loss, leads to the keys held then.           *)
LEMMA ToRingReach ==
  ASSUME DownAsTold, RawReach, WireReach, NEW key \in Keys, NEW value \in 0..2,
         ToRing(key, value), UNCHANGED <<raw_active, kb>>,
         After(held, KeyMessage(key, value # 0)) \subseteq held'
  PROVE  RawReach' /\ (~raw_active => ring' = ring /\ excused' = excused)
<1> DEFINE e == [key |-> key, value |-> value]
<1>1. ring \in Seq(RawKeys) /\ e \in RawKeys
  BY DEF DownAsTold, TypeOK, RawKeys
<1>2. CASE raw_active /\ Len(ring) < RingSize
  <2> DEFINE r == Append(ring, e)
             n == Len(ring)
  <2>1. ring' = r /\ excused' = excused
    BY <1>2 DEF ToRing
  <2>2. /\ Len(r) = n+1 /\ n \in Nat /\ r[n+1] = e /\ r \in Seq(RawKeys)
        /\ \A i \in 1..n : r[i] = ring[i]
    BY <1>1, AppendOne
  <2>3. DOMAIN r = 1..n+1 /\ DOMAIN ring = 1..n
    BY <1>1, <2>2, LenProperties
  <2>n. n = Len(ring)
    OBVIOUS
  <2> HIDE DEF r, n
  <2>4. ASSUME ~excused PROVE Reaches(Reports(r), n+1, kb.keystate, held')
    <3>1. Reaches(Reports(ring), n, kb.keystate, held)
      BY <1>2, <2>n, <2>4 DEF RawReach
    <3>2. \A i \in 1..n : Reports(r)[i] = Reports(ring)[i]
      BY <2>2, <2>3 DEF Reports
    <3>3. Reaches(Reports(r), n, kb.keystate, held)
      BY <2>2, <3>1, <3>2, ReachesAgree
    <3>4. Reports(r)[n+1] = KeyMessage(key, value # 0)
      BY <2>2, <2>3 DEF Reports, KeyMessage
    <3>5. Reaches(Reports(r), n+1, kb.keystate, After(held, KeyMessage(key, value # 0)))
      BY <2>2, <3>3, <3>4, ReachesNext
    <3>6. n+1 \in Nat /\ kb.keystate \in SUBSET kb.keystate
      BY <2>2
    <3> QED BY <3>5, <3>6, ReachesWeaker
  <2>5. Len(ring') = n+1 /\ Reports(ring') = Reports(r) /\ kb' = kb
    BY <2>1, <2>2
  <2> QED BY <1>2, <2>1, <2>4, <2>5 DEF RawReach, Reports
<1>3. CASE ~(raw_active /\ Len(ring) < RingSize)
  <2>1. ring' = ring /\ excused' = (excused \/ raw_active)
    BY <1>3 DEF ToRing
  <2>2. CASE raw_active
    BY <2>1, <2>2 DEF RawReach
  <2>3. CASE ~raw_active
    <3>1. excused' = excused
      BY <2>1, <2>3 DEF DownAsTold, TypeOK
    <3> QED BY <2>1, <2>3, <3>1 DEF RawReach
  <2> QED BY <2>2, <2>3
<1> QED BY <1>2, <1>3

-----------------------------------------------------------------------------
\* What KeyboardInv says of the wire, for keys down K, keys shown S, the focus of
\* the client f and that of the compositor c; of_keys when the messages of keys
\* are handled, open when the window is.
WireSound(s, of_keys, open, K, S, f, c) ==
  /\ of_keys => Leads(s, K, S)
  /\ open => LeavesFocused(f, s) /\ (c => Focused(f, s, Len(s)))

(* One message appended.                                                     *)
LEMMA WireAppend ==
  ASSUME NEW s \in Seq(Messages), NEW m \in Messages, NEW of_keys, NEW open, NEW K, NEW S, NEW S1,
         NEW f, NEW c, NEW c1, WireSound(s, of_keys, open, K, S, f, c),
         After(S, m) \subseteq S1,
         m.kind = "modifiers" => S \subseteq InEffect(m.groups),
         m.kind = "leave" => c,
         c1 => m.kind = "enter" \/ (m.kind # "leave" /\ c)
  PROVE  WireSound(s \o <<m>>, of_keys, open, K, S1, f, c1) /\ s \o <<m>> \in Seq(Messages)
<1>1. s \o <<m>> = Append(s, m) /\ Append(s, m) \in Seq(Messages)
  BY AppendOne
<1>2. of_keys => Leads(Append(s, m), K, S1)
  <2>1. of_keys => Leads(s, K, S)
    BY DEF WireSound
  <2> QED BY <2>1, LeadsAppend
<1>3. ASSUME open
      PROVE  /\ LeavesFocused(f, Append(s, m))
             /\ c1 => Focused(f, Append(s, m), Len(Append(s, m)))
  <2>1. LeavesFocused(f, s) /\ (c => Focused(f, s, Len(s)))
    BY <1>3 DEF WireSound
  <2> QED BY <2>1, FocusAppend
<1>4. WireSound(Append(s, m), of_keys, open, K, S1, f, c1)
  BY <1>2, <1>3 DEF WireSound
<1> QED BY <1>1, <1>4

(* The head handled.                                                         *)
LEMMA WireTail ==
  ASSUME NEW s \in Seq(Messages), s # <<>>, NEW of_keys, NEW open, NEW K, NEW K1, NEW S,
         NEW f, NEW f1, NEW c, WireSound(s, of_keys, open, K, S, f, c),
         of_keys => K1 \subseteq After(K, Head(s)),
         open => (Head(s).kind = "enter" \/ (f /\ Head(s).kind # "leave") => f1)
  PROVE  WireSound(Tail(s), of_keys, open, K1, S, f1, c)
<1>1. of_keys => Leads(Tail(s), K1, S)
  <2>1. of_keys => Leads(s, K, S)
    BY DEF WireSound
  <2> QED BY <2>1, LeadsTail
<1>2. ASSUME open
      PROVE  LeavesFocused(f1, Tail(s)) /\ (c => Focused(f1, Tail(s), Len(Tail(s))))
  <2>1. LeavesFocused(f, s) /\ (c => Focused(f, s, Len(s)))
    BY <1>2 DEF WireSound
  <2>2. LeavesFocused(f1, Tail(s))
        /\ (Focused(f, s, Len(s)) => Focused(f1, Tail(s), Len(Tail(s))))
    BY <1>2, <2>1, FocusTail
  <2> QED BY <2>1, <2>2
<1> QED BY <1>1, <1>2 DEF WireSound

\* The window in focus, if there is one, is still the application's.
Open == window = "open"

ReachInv == RawReach /\ WireReach /\ LeaveInFocus /\ BitsOfKeys

Others ==
  /\ ~raw_active => ring = <<>>
  /\ window = "none" => seat # "focus"

LEMMA ReachParts ==
  ReachInv <=>
    /\ RawReach /\ BitsOfKeys /\ Others
    /\ WireSound(wire, ~raw_active, Open, Trusted, Shown, focus, seat = "focus")
BY DEF ReachInv, WireReach, LeaveInFocus, WireSound, LeavesFocused, Open,
       Others

(* A report of wl_keyboard leads to the keys held then, in effect where its  *)
(* modifiers say so.                                                        *)
LEMMA ReportReach ==
  ASSUME DownAsTold, ReachInv, NEW key \in Keys, NEW down \in BOOLEAN,
         NEW keys \in SUBSET Keys, After(held, KeyMessage(key, down)) \subseteq keys,
         Report(key, down, keys)
  PROVE  WireSound(wire', ~raw_active, Open, Trusted, IF seat = "focus" THEN keys ELSE {},
                   focus, seat = "focus")
<1> DEFINE k == KeyMessage(key, down)
           m == [kind |-> "modifiers", groups |-> Effective(keys)]
           c == seat = "focus"
<1>0. WireSound(wire, ~raw_active, Open, Trusted, Shown, focus, c) /\ wire \in Seq(Messages)
  BY ReachParts DEF DownAsTold, TypeOK
<1>1. k \in Messages /\ k.kind = "key"
  BY DEF Messages, KeyMessage
<1>2. m \in Messages /\ m.kind = "modifiers" /\ m.groups = Effective(keys)
  BY DEF Messages, Effective
<1>3. CASE ~c
  BY <1>0, <1>3 DEF Report, Shown
<1>4. CASE c
  <2>1. After(Shown, k) \subseteq keys
    BY <1>4 DEF Shown
  <2>2. WireSound(wire \o <<k>>, ~raw_active, Open, Trusted, keys, focus, c)
        /\ wire \o <<k>> \in Seq(Messages)
    BY <1>0, <1>1, <1>4, <2>1, WireAppend
  <2>3. CASE key \in ModKeys
    <3>1. wire' = (wire \o <<k>>) \o <<m>>
      BY <1>0, <1>1, <1>2, <1>4, <2>3 DEF Report, KeyMessage
    <3>2. After(keys, m) \subseteq keys /\ keys \subseteq InEffect(m.groups)
      BY <1>2, AfterOther, InEffectHeld
    <3>3. WireSound((wire \o <<k>>) \o <<m>>, ~raw_active, Open, Trusted, keys, focus, c)
      BY <1>2, <1>4, <2>2, <3>2, WireAppend
    <3> QED BY <1>4, <3>1, <3>3
  <2>4. CASE key \notin ModKeys
    <3>1. wire' = wire \o <<k>>
      BY <1>0, <1>1, <1>4, <2>4 DEF Report, KeyMessage
    <3> QED BY <1>4, <2>2, <3>1
  <2> QED BY <2>3, <2>4
<1> QED BY <1>3, <1>4

-----------------------------------------------------------------------------
(* A key pressed or released.                                                *)
LEMMA KeyReach ==
  ASSUME DownAsTold, ReachInv, NEW key \in Keys, NEW value \in {0, 1},
         held' \in SUBSET Keys, After(held, KeyMessage(key, value # 0)) \subseteq held',
         ToRing(key, value), Report(key, value # 0, held'),
         UNCHANGED <<raw_active, seat, window, kb, focus>>
  PROVE  ReachInv'
<1>1. RawReach' /\ (~raw_active => ring' = ring /\ excused' = excused)
  BY ToRingReach DEF ReachInv
<1>2. WireSound(wire', ~raw_active, Open, Trusted, Shown', focus, seat = "focus")
  <2>1. (value # 0) \in BOOLEAN
    OBVIOUS
  <2>2. WireSound(wire', ~raw_active, Open, Trusted, IF seat = "focus" THEN held' ELSE {},
                  focus, seat = "focus")
    BY <2>1, ReportReach
  <2> QED BY <2>2 DEF Shown
<1>3. WireSound(wire', ~raw_active, Open, Trusted', Shown', focus, seat = "focus")
  <2>1. CASE raw_active
    BY <1>2, <2>1 DEF WireSound
  <2>2. CASE ~raw_active
    <3>1. Trusted' = Trusted
      BY <1>1, <2>2 DEF Trusted
    <3> QED BY <1>2, <3>1
  <2> QED BY <2>1, <2>2
<1>4. WireSound(wire, ~raw_active, Open, Trusted, Shown, focus, seat = "focus")'
  BY <1>3 DEF WireSound, Trusted, Shown, Open
<1>5. (RawReach /\ BitsOfKeys /\ Others)'
  BY <1>1, ReachParts DEF BitsOfKeys, Others
<1> QED BY <1>4, <1>5, ReachParts, PTL

(* The seat comes, goes or moves the focus, with one message.                *)
LEMMA SeatReach ==
  ASSUME DownAsTold, ReachInv, NEW m \in Messages, NEW new, SeatAlone(new, <<m>>),
         m.kind \in {"capability", "leave"}, new # "focus",
         Clears(m) \/ (m.kind = "capability" /\ m.on /\ seat # "focus"),
         m.kind = "leave" => seat = "focus"
  PROVE  ReachInv'
<1>0. WireSound(wire, ~raw_active, Open, Trusted, Shown, focus, seat = "focus")
      /\ wire \in Seq(Messages)
  BY ReachParts DEF DownAsTold, TypeOK
<1>1. After(Shown, m) \subseteq {}
  BY AfterClear, AfterOther DEF Shown
<1>2. WireSound(wire \o <<m>>, ~raw_active, Open, Trusted, {}, focus, new = "focus")
  BY <1>0, <1>1, WireAppend
<1>3. WireSound(wire, ~raw_active, Open, Trusted, Shown, focus, seat = "focus")'
  BY <1>2 DEF SeatAlone, SeatMessage, WireSound, Trusted, Shown, Open
<1>4. (RawReach /\ BitsOfKeys /\ Others)'
  BY ReachParts DEF SeatAlone, SeatMessage, RawReach, BitsOfKeys, Others
<1> QED BY <1>3, <1>4, ReachParts, PTL

(* Focus is given to the window, with the modifiers in effect.               *)
LEMMA FocusInReach == ASSUME DownAsTold, ReachInv, FocusIn PROVE ReachInv'
<1> DEFINE e == [kind |-> "enter"]
           m == [kind |-> "modifiers", groups |-> Effective(held)]
<1>0. WireSound(wire, ~raw_active, Open, Trusted, Shown, focus, seat = "focus")
      /\ wire \in Seq(Messages) /\ held \in SUBSET Keys
  BY ReachParts DEF DownAsTold, TypeOK
<1>1. e \in Messages /\ e.kind = "enter"
  BY DEF Messages
<1>2. m \in Messages /\ m.kind = "modifiers" /\ m.groups = Effective(held)
  BY DEF Messages, Effective
<1>3. wire' = (wire \o <<e>>) \o <<m>>
  <2>1. wire' = wire \o <<e, m>>
    BY DEF FocusIn, SeatAlone, SeatMessage
  <2>2. wire \o <<e, m>> = (wire \o <<e>>) \o <<m>>
    BY <1>0, <1>1, <1>2, AppendTwo
  <2> QED BY <2>1, <2>2
<1>4. Shown = {} /\ seat' = "focus" /\ window # "none"
      /\ UNCHANGED <<held, raw_active, ring, window, kb, focus, excused>>
  BY DEF FocusIn, SeatAlone, SeatMessage, Shown
<1> HIDE DEF e, m
<1>5. WireSound(wire \o <<e>>, ~raw_active, Open, Trusted, {}, focus, TRUE)
      /\ wire \o <<e>> \in Seq(Messages)
  <2>1. After(Shown, e) \subseteq {}
    BY <1>1, <1>4, AfterOther
  <2> QED BY <1>0, <1>1, <2>1, WireAppend
<1>6. WireSound((wire \o <<e>>) \o <<m>>, ~raw_active, Open, Trusted, held, focus, TRUE)
  <2>1. After({}, m) \subseteq held
    BY <1>2, AfterOther
  <2> QED BY <1>2, <1>5, <2>1, WireAppend
<1>7. WireSound(wire, ~raw_active, Open, Trusted, Shown, focus, seat = "focus")'
  BY <1>3, <1>4, <1>6 DEF WireSound, Trusted, Shown, Open
<1>8. (RawReach /\ BitsOfKeys /\ Others)'
  BY <1>4, ReachParts DEF RawReach, BitsOfKeys, Others
<1> QED BY <1>7, <1>8, ReachParts, PTL

-----------------------------------------------------------------------------
(* What handling the head of the wire does to the keys told down, as far as  *)
(* they are trusted, and to their bits.                                      *)
DispatchSound(m) ==
  /\ ~raw_active => Trusted' \subseteq After(Trusted, m)
  /\ Open => (m.kind = "enter" \/ (focus /\ m.kind # "leave") => focus')
  /\ BitsOfKeys'
  /\ kb'.keystate \subseteq kb.keystate \/ ~raw_active
  /\ raw_active /\ excused /\ ~excused' => ring = <<>> /\ kb'.keystate = {}

LEMMA LeaveSound ==
  ASSUME DownAsTold, ReachInv, UNCHANGED <<raw_active, ring>>, wire # <<>>,
         Head(wire).kind = "leave", Leave(Head(wire))
  PROVE  DispatchSound(Head(wire))
<1> DEFINE m == Head(wire)
<1>1. Open => focus
  <2>1. m = wire[1] /\ 1 \in DOMAIN wire
    <3>1. wire \in Seq(Messages)
      BY DEF DownAsTold, TypeOK
    <3>2. m = wire[1] /\ Len(wire) \in Nat \ {0} /\ DOMAIN wire = 1..Len(wire)
      BY <3>1, EmptySeq, LenProperties, HeadTailProperties
    <3> QED BY <3>2
  <2>2. Open => Focused(focus, wire, 1-1)
    BY <2>1 DEF ReachInv, LeaveInFocus, Open
  <2> QED BY <2>2 DEF Focused
<1>2. kb \in KeyboardStates /\ excused \in BOOLEAN /\ focus \in BOOLEAN /\ raw_active \in BOOLEAN
  BY InvParts
<1>3. CASE focus
  <2>1. kb' = ResetKeyboard(kb) /\ excused' = (excused /\ ring # <<>>)
    BY <1>3 DEF Leave
  <2>2. kb'.keystate = {}
    BY <1>2, <2>1 DEF ResetKeyboard, KeyboardStates
  <2> QED BY <1>2, <2>1, <2>2 DEF DispatchSound, Trusted, BitsOfKeys
<1>4. CASE ~focus
  <2>1. /\ kb' = kb /\ ~Open
        /\ excused' = (excused \/ (~raw_active /\ kb.keystate # {}))
    BY <1>1, <1>4 DEF Leave, Open
  <2>2. ~raw_active => Trusted' = {}
    BY <1>2, <2>1 DEF Trusted
  <2>3. BitsOfKeys'
    BY <1>2, <2>1 DEF BitsOfKeys, ReachInv
  <2> QED BY <1>2, <2>1, <2>2, <2>3 DEF DispatchSound
<1> QED BY <1>2, <1>3, <1>4

LEMMA KeySound ==
  ASSUME DownAsTold, ReachInv, raw_active' = raw_active,
         NEW m \in Messages, m.kind = "key", Key(m)
  PROVE  DispatchSound(m)
<1>1. kb \in KeyboardStates /\ raw_active \in BOOLEAN
  BY InvParts
<1>2. m.key \in Keys /\ m.down \in BOOLEAN
  BY DEF Messages
<1>3. focus' = focus /\ excused' = excused
  BY DEF Key
<1>4. CASE raw_active
  BY <1>3, <1>4 DEF Key, DispatchSound, BitsOfKeys
<1>5. CASE ~raw_active
  <2> DEFINE s == SendKeyboardKey(kb, m.down, FALSE, m.key)
  <2>1. kb' = s
    BY <1>5 DEF Key
  <2>2. KeySent(s, kb, m.down, m.key)
    <3>1. FALSE \in BOOLEAN
      OBVIOUS
    <3> QED BY <1>1, <1>2, <3>1, SendKeys, Zenon
  <2> HIDE DEF s
  <2>3. Trusted' \subseteq After(Trusted, m)
    <3>1. After(Trusted, m) = IF m.down THEN Trusted \cup {m.key} ELSE Trusted \ {m.key}
      BY DEF After, Clears
    <3> QED BY <1>3, <2>1, <2>2, <3>1 DEF Trusted, KeySent
  <2>4. BitsOfKeys'
    BY <1>3, <2>1, <2>2 DEF BitsOfKeys, ReachInv, KeySent
  <2> QED BY <1>3, <1>5, <2>3, <2>4 DEF DispatchSound
<1> QED BY <1>4, <1>5

LEMMA ModifiersSound ==
  ASSUME DownAsTold, ReachInv, raw_active' = raw_active, wire # <<>>,
         Head(wire).kind = "modifiers", kb' = UpdateXkbModifiers(kb, Head(wire).groups),
         UNCHANGED <<focus, excused>>
  PROVE  DispatchSound(Head(wire))
<1> DEFINE m == Head(wire)
<1>1. kb \in KeyboardStates
  BY InvParts
<1>2. kb'.keystate = kb.keystate
      /\ kb'.modstate = {k \in kb.modstate : Group[k] \in m.groups \cup {Alt}}
  BY <1>1 DEF UpdateXkbModifiers, KeyboardStates
<1>3. ~raw_active => Trusted \subseteq InEffect(m.groups)
  <2>1. m = wire[1] /\ 1 \in DOMAIN wire
    <3>1. wire \in Seq(Messages)
      BY DEF DownAsTold, TypeOK
    <3>2. m = wire[1] /\ Len(wire) \in Nat \ {0} /\ DOMAIN wire = 1..Len(wire)
      BY <3>1, EmptySeq, LenProperties, HeadTailProperties
    <3> QED BY <3>2
  <2>2. ~raw_active => Reaches(wire, 1-1, Trusted, InEffect(m.groups))
    BY <2>1 DEF ReachInv, WireReach, Leads
  <2>3. 1-1 = 0
    OBVIOUS
  <2> QED BY <2>2, <2>3, ReachesNone
<1>4. BitsOfKeys'
  <2> SUFFICES ASSUME ~raw_active, ~excused, NEW key \in kb.keystate \cap ModKeys
               PROVE  key \in kb'.modstate
    BY <1>2 DEF BitsOfKeys
  <2>1. key \in kb.modstate
    BY DEF ReachInv, BitsOfKeys
  <2>2. Group[key] \in m.groups
    BY <1>3 DEF Trusted, InEffect
  <2> QED BY <1>2, <2>1, <2>2
<1>5. After(Trusted, m) = Trusted /\ Trusted' = Trusted
  BY <1>2, AfterOther DEF Trusted
<1> QED BY <1>2, <1>4, <1>5 DEF DispatchSound

LEMMA OtherSound ==
  ASSUME DownAsTold, ReachInv, raw_active' = raw_active, NEW m \in Messages,
         \/ m.kind = "enter" /\ Enter(m)
         \/ m.kind = "capability" /\ Capability(m)
  PROVE  DispatchSound(m)
<1>1. CASE m.kind = "enter" /\ Enter(m)
  <2>1. kb' = kb /\ excused' = excused /\ (Open => focus')
    BY <1>1 DEF Enter, Open
  <2>2. After(Trusted, m) = Trusted /\ Trusted' = Trusted
    BY <1>1, <2>1, AfterOther DEF Trusted
  <2>3. BitsOfKeys'
    BY <2>1 DEF ReachInv, BitsOfKeys
  <2> QED BY <2>1, <2>2, <2>3 DEF DispatchSound
<1>2. CASE m.kind = "capability" /\ Capability(m)
  <2>1. excused' = (excused \/ (~m.on /\ ~raw_active /\ kb.keystate # {}))
        /\ kb' = kb /\ focus' = focus
    BY <1>2 DEF Capability
  <2>2. ~raw_active => Trusted' \subseteq After(Trusted, m)
    <3>1. CASE m.on
      BY <1>2, <2>1, <3>1, AfterOther DEF Trusted
    <3>2. CASE ~m.on
      BY <2>1, <3>2 DEF Trusted
    <3> QED BY <3>1, <3>2
  <2>3. BitsOfKeys'
    BY <2>1 DEF ReachInv, BitsOfKeys
  <2> QED BY <1>2, <2>1, <2>2, <2>3 DEF DispatchSound
<1> QED BY <1>1, <1>2

LEMMA DispatchReach == ASSUME DownAsTold, ReachInv, Dispatch PROVE ReachInv'
<1> DEFINE m == Head(wire)
<1>0. WireSound(wire, ~raw_active, Open, Trusted, Shown, focus, seat = "focus")
      /\ wire \in Seq(Messages) /\ wire # <<>> /\ m \in Messages
  <2>1. wire \in Seq(Messages) /\ wire # <<>>
    BY DEF DownAsTold, TypeOK, Dispatch
  <2> QED BY <2>1, HeadTail, ReachParts
<1>1. wire' = Tail(wire) /\ UNCHANGED <<held, raw_active, ring, seat, window>>
  BY DEF Dispatch
<1>2. DispatchSound(m)
  <2>1. CASE m.kind = "enter" /\ Enter(m)
    BY <1>0, <1>1, <2>1, OtherSound
  <2>2. CASE m.kind = "leave" /\ Leave(m)
    BY <1>0, <1>1, <2>2, LeaveSound
  <2>3. CASE m.kind = "key" /\ Key(m)
    BY <1>0, <1>1, <2>3, KeySound
  <2>4. CASE m.kind = "modifiers" /\ kb' = UpdateXkbModifiers(kb, m.groups)
             /\ UNCHANGED <<focus, excused>>
    BY <1>0, <1>1, <2>4, ModifiersSound
  <2>5. CASE m.kind = "capability" /\ Capability(m)
    BY <1>0, <1>1, <2>5, OtherSound
  <2> QED BY <2>1, <2>2, <2>3, <2>4, <2>5 DEF Dispatch
<1>3. WireSound(Tail(wire), ~raw_active, Open, Trusted', Shown, focus', seat = "focus")
  <2>1. ~raw_active => Trusted' \subseteq After(Trusted, m)
    BY <1>2 DEF DispatchSound
  <2>2. Open => (m.kind = "enter" \/ (focus /\ m.kind # "leave") => focus')
    BY <1>2 DEF DispatchSound
  <2> QED BY <1>0, <2>1, <2>2, WireTail
<1>4. WireSound(wire, ~raw_active, Open, Trusted, Shown, focus, seat = "focus")'
  BY <1>1, <1>3 DEF WireSound, Trusted, Shown, Open
<1>5. RawReach'
  <2> SUFFICES ASSUME raw_active, ~excused'
               PROVE  Reaches(Reports(ring), Len(ring), kb'.keystate, held)
    BY <1>1 DEF RawReach, Reports
  <2>1. CASE excused
    <3>1. ring = <<>> /\ kb'.keystate = {}
      BY <1>2, <2>1 DEF DispatchSound
    <3> QED BY <3>1, ReachesNone
  <2>2. CASE ~excused
    <3>1. Reaches(Reports(ring), Len(ring), kb.keystate, held)
      BY <2>2 DEF ReachInv, RawReach
    <3>2. kb'.keystate \in SUBSET kb.keystate
      BY <1>2 DEF DispatchSound
    <3>3. Len(ring) \in Nat
      BY DEF DownAsTold, TypeOK
    <3> QED BY <3>1, <3>2, <3>3, ReachesWeaker
  <2> QED BY <2>1, <2>2
<1>6. (BitsOfKeys /\ Others)'
  BY <1>1, <1>2, ReachParts DEF DispatchSound, Others
<1> QED BY <1>4, <1>5, <1>6, ReachParts, PTL

-----------------------------------------------------------------------------
(* A raw event handled leaves the others to lead to the same keys.           *)
LEMMA PumpReach == ASSUME DownAsTold, ReachInv, PumpKey PROVE ReachInv'
<1> DEFINE e == Head(ring)
           t == Tail(ring)
           n == Len(t)
           s == SendKeyboardKey(kb, e.value # 0, e.value = 2, e.key)
<1>1. /\ raw_active /\ ring # <<>> /\ ring \in Seq(RawKeys) /\ kb \in KeyboardStates
      /\ kb' = s /\ ring' = t
      /\ UNCHANGED <<held, raw_active, wire, seat, window, focus, excused>>
  <2>1. raw_active
    BY DEF PumpKey, ReachInv, WireReach
  <2> QED BY <2>1, InvParts DEF PumpKey, Streams
<1>2. /\ t \in Seq(RawKeys) /\ e = ring[1] /\ e \in RawKeys
      /\ n \in Nat /\ Len(ring) = n+1 /\ \A i \in 1..n : t[i] = ring[i+1]
  BY <1>1, TailParts
<1>3. DOMAIN t = 1..n /\ DOMAIN ring = 1..n+1
  BY <1>1, <1>2, LenProperties
<1>4. KeySent(s, kb, e.value # 0, e.key)
  <2>1. e.key \in Keys /\ (e.value # 0) \in BOOLEAN /\ (e.value = 2) \in BOOLEAN
    BY <1>2 DEF RawKeys
  <2> QED BY <1>1, <2>1, SendKeys, Zenon
<1>n. n = Len(t)
  OBVIOUS
<1> HIDE DEF e, t, n, s
<1>5. ASSUME ~excused PROVE Reaches(Reports(t), n, s.keystate, held)
  <2>1. Reaches(Reports(ring), n+1, kb.keystate, held)
    BY <1>1, <1>2, <1>5 DEF ReachInv, RawReach
  <2>2. \A i \in 1..n : Reports(t)[i] = Reports(ring)[i+1]
    BY <1>2, <1>3 DEF Reports
  <2>3. Reports(ring)[1] = KeyMessage(e.key, e.value # 0)
    BY <1>2, <1>3 DEF Reports, KeyMessage
  <2>4. s.keystate \subseteq After(kb.keystate, Reports(ring)[1])
    <3>1. s.keystate = IF e.value # 0 THEN kb.keystate \cup {e.key} ELSE kb.keystate \ {e.key}
      BY <1>4 DEF KeySent
    <3>2. CASE e.value # 0
      <4>1. Reports(ring)[1] = KeyMessage(e.key, TRUE)
        BY <2>3, <3>2
      <4>2. After(kb.keystate, KeyMessage(e.key, TRUE)) = kb.keystate \cup {e.key}
        BY AfterKey
      <4> QED BY <3>1, <3>2, <4>1, <4>2
    <3>3. CASE e.value = 0
      <4>1. Reports(ring)[1] = KeyMessage(e.key, FALSE)
        BY <2>3, <3>3
      <4>2. After(kb.keystate, KeyMessage(e.key, FALSE)) = kb.keystate \ {e.key}
        BY AfterKey
      <4> QED BY <3>1, <3>3, <4>1, <4>2
    <3> QED BY <3>2, <3>3
  <2> QED BY <1>2, <2>1, <2>2, <2>4, ReachesTail
<1>6. RawReach'
  BY <1>1, <1>5, <1>n DEF RawReach, Reports
<1>7. WireSound(wire, ~raw_active, Open, Trusted, Shown, focus, seat = "focus")'
  BY <1>1, ReachParts DEF WireSound, Open
<1>8. (BitsOfKeys /\ Others)'
  BY <1>1, ReachParts DEF BitsOfKeys, Others
<1> QED BY <1>6, <1>7, <1>8, ReachParts, PTL

(* A repeat reports a key that is down again.                                *)
LEMMA RepeatReach == ASSUME DownAsTold, ReachInv, ProcessRepeats PROVE ReachInv'
<1> DEFINE s == SendKeyboardKey(kb, TRUE, TRUE, kb.repeat_scancode)
<1>1. kb \in KeyboardStates /\ kb.repeat_scancode \in kb.keystate
      /\ kb.repeat_scancode \in Keys
  BY InvParts DEF ProcessRepeats, Sound, KeyboardStates
<1>2. KeySent(s, kb, TRUE, kb.repeat_scancode)
  <2>1. TRUE \in BOOLEAN
    OBVIOUS
  <2> QED BY <1>1, <2>1, SendKeys, Zenon
<1>3. kb' = s /\ UNCHANGED <<held, raw_active, ring, wire, seat, window, focus, excused>>
  BY DEF ProcessRepeats
<1> HIDE DEF s
<1>4. kb'.keystate = kb.keystate
      /\ kb'.modstate = kb.modstate \cup ({kb.repeat_scancode} \cap ModKeys)
  BY <1>1, <1>2, <1>3 DEF KeySent
<1> QED BY <1>3, <1>4
        DEF ReachInv, RawReach, WireReach, LeaveInFocus, BitsOfKeys, Trusted, Shown, Leads

(* A reset of the application leaves no key down; reports of keys that are   *)
(* still in the ring lead to the keys held as before.                       *)
LEMMA ResetReach == ASSUME DownAsTold, ReachInv, Reset PROVE ReachInv'
<1>1. /\ kb'.keystate = {} /\ excused' = (excused /\ ring # <<>>)
      /\ UNCHANGED <<held, raw_active, ring, wire, seat, window, focus>>
  BY InvParts DEF Reset, ResetKeyboard, KeyboardStates
<1>2. RawReach'
  <2> SUFFICES ASSUME raw_active, ~excused' PROVE Reaches(Reports(ring), Len(ring), {}, held)
    BY <1>1 DEF RawReach
  <2>1. CASE ring = <<>>
    BY <2>1, ReachesNone
  <2>2. CASE ring # <<>>
    <3>1. Reaches(Reports(ring), Len(ring), kb.keystate, held)
      BY <1>1, <2>2 DEF ReachInv, RawReach
    <3>2. {} \in SUBSET kb.keystate /\ Len(ring) \in Nat
      BY DEF DownAsTold, TypeOK
    <3> QED BY <3>1, <3>2, ReachesWeaker
  <2> QED BY <2>1, <2>2
<1>3. WireSound(wire, ~raw_active, Open, Trusted, Shown, focus, seat = "focus")'
  <2>1. WireSound(wire, ~raw_active, Open, Trusted, Shown, focus, seat = "focus")
    BY ReachParts
  <2>2. Trusted' = {} /\ {} \in SUBSET Trusted /\ wire \in Seq(Messages)
    BY <1>1 DEF Trusted, DownAsTold, TypeOK
  <2>3. WireSound(wire, ~raw_active, Open, {}, Shown, focus, seat = "focus")
    BY <2>1, <2>2, LeadsWeaker DEF WireSound
  <2> QED BY <1>1, <2>2, <2>3 DEF WireSound, Shown, Open
<1>4. (BitsOfKeys /\ Others)'
  BY <1>1, ReachParts DEF BitsOfKeys, Others
<1> QED BY <1>2, <1>3, <1>4, ReachParts, PTL

(* The compositor takes the focus off a surface that was destroyed.          *)
LEMMA SurfaceReach == ASSUME DownAsTold, ReachInv, SurfaceGone PROVE ReachInv'
<1> DEFINE m == [kind |-> "leave"]
<1>0. WireSound(wire, ~raw_active, Open, Trusted, Shown, focus, seat = "focus")
      /\ wire \in Seq(Messages) /\ ~Open
  BY ReachParts DEF DownAsTold, TypeOK, SurfaceGone, Open
<1>1. m \in Messages /\ m.kind = "leave" /\ Clears(m)
  BY DEF Messages, Clears
<1>2. CASE seat = "focus"
  <2>1. wire' = wire \o <<m>> /\ seat' = "keyboard" /\ window' = "none"
        /\ UNCHANGED <<held, raw_active, ring, kb, focus, excused>>
    BY <1>2 DEF SurfaceGone, SeatMessage
  <2>2. WireSound(wire \o <<m>>, ~raw_active, Open, Trusted, {}, focus, FALSE)
    <3>1. After(Shown, m) \subseteq {}
      BY <1>1, AfterClear
    <3> QED BY <1>0, <1>1, <1>2, <3>1, WireAppend
  <2>3. WireSound(wire, ~raw_active, Open, Trusted, Shown, focus, seat = "focus")'
    BY <2>1, <2>2 DEF WireSound, Trusted, Shown, Open
  <2>4. (RawReach /\ BitsOfKeys /\ Others)'
    BY <2>1, ReachParts DEF RawReach, BitsOfKeys, Others
  <2> QED BY <2>3, <2>4, ReachParts, PTL
<1>3. CASE seat # "focus"
  <2>1. window' = "none" /\ UNCHANGED <<held, raw_active, ring, wire, seat, kb, focus, excused>>
    BY <1>3 DEF SurfaceGone
  <2>2. WireSound(wire, ~raw_active, Open, Trusted, Shown, focus, seat = "focus")'
    BY <1>0, <2>1 DEF WireSound, Trusted, Shown, Open
  <2>3. (RawReach /\ BitsOfKeys /\ Others)'
    BY <1>3, <2>1, ReachParts DEF RawReach, BitsOfKeys, Others
  <2> QED BY <2>2, <2>3, ReachParts, PTL
<1> QED BY <1>2, <1>3

(* The application opens a window, with nothing on the way, or destroys it.   *)
LEMMA WindowReach == ASSUME DownAsTold, ReachInv, OpenWindow \/ RemoveWindow PROVE ReachInv'
<1>0. WireSound(wire, ~raw_active, Open, Trusted, Shown, focus, seat = "focus")
  BY ReachParts
<1>1. UNCHANGED <<held, raw_active, ring, wire, seat, kb, excused>>
  BY DEF OpenWindow, RemoveWindow
<1>2. (RawReach /\ BitsOfKeys /\ Others)'
  BY <1>1, ReachParts DEF OpenWindow, RemoveWindow, RawReach, BitsOfKeys, Others
<1>3. Open' => LeavesFocused(focus, wire)' /\ seat # "focus"
  <2> SUFFICES ASSUME Open' PROVE LeavesFocused(focus, wire)' /\ seat # "focus"
    OBVIOUS
  <2>1. OpenWindow
    BY DEF Open, RemoveWindow
  <2>2. wire' = <<>> /\ seat # "focus"
    BY <2>1, ReachParts DEF OpenWindow, Others
  <2> QED BY <2>2 DEF LeavesFocused
<1>4. WireSound(wire, ~raw_active, Open, Trusted, Shown, focus, seat = "focus")'
  BY <1>0, <1>1, <1>3 DEF WireSound, LeavesFocused, Trusted, Shown
<1> QED BY <1>2, <1>4, ReachParts, PTL

-----------------------------------------------------------------------------
LEMMA ReachInit == Init => ReachInv
<1> SUFFICES ASSUME Init PROVE ReachInv
  OBVIOUS
<1>1. /\ kb.keystate = {} /\ ring = <<>> /\ wire = <<>> /\ seat = "none" /\ ~excused
      /\ held = {} /\ Len(ring) = 0 /\ Len(wire) = 0 /\ DOMAIN wire = {}
  BY DEF Init, Up
<1>2. RawReach
  BY <1>1, ReachesNone DEF RawReach
<1>3. WireReach
  BY <1>1, ReachesNone DEF WireReach, Leads, Trusted, Shown
<1> QED BY <1>1, <1>2, <1>3 DEF ReachInv, LeaveInFocus, BitsOfKeys

LEMMA ReachStep == DownAsTold /\ ReachInv /\ [Next]_vars => ReachInv'
<1> SUFFICES ASSUME DownAsTold, ReachInv, [Next]_vars PROVE ReachInv'
  OBVIOUS
<1>0. held \subseteq Keys
  BY InvParts
<1>1. ASSUME NEW key \in Keys, Press(key) PROVE ReachInv'
  <2> DEFINE value == 1
  <2>1. value \in {0, 1} /\ (value # 0) = TRUE
    OBVIOUS
  <2>2. held' = held \cup {key} /\ After(held, KeyMessage(key, TRUE)) = held \cup {key}
    BY <1>1, AfterKey DEF Press
  <2>3. ToRing(key, value) /\ Report(key, value # 0, held')
        /\ UNCHANGED <<raw_active, seat, window, kb, focus>>
    BY <1>1, <2>1 DEF Press
  <2> HIDE DEF value
  <2> QED BY <1>0, <2>1, <2>2, <2>3, KeyReach
<1>2. ASSUME NEW key \in Keys, Release(key) PROVE ReachInv'
  <2> DEFINE value == 0
  <2>1. value \in {0, 1} /\ (value # 0) = FALSE
    OBVIOUS
  <2>2. held' = held \ {key} /\ After(held, KeyMessage(key, FALSE)) = held \ {key}
    BY <1>2, AfterKey DEF Release
  <2>3. ToRing(key, value) /\ Report(key, value # 0, held')
        /\ UNCHANGED <<raw_active, seat, window, kb, focus>>
    BY <1>2, <2>1 DEF Release
  <2> HIDE DEF value
  <2> QED BY <1>0, <2>1, <2>2, <2>3, KeyReach
<1>3. ASSUME NEW key \in Keys, Autorepeat(key) PROVE ReachInv'
  <2>1. ToRing(key, 2) /\ raw_active /\ key \in held
        /\ UNCHANGED <<held, raw_active, wire, seat, window, kb, focus>>
    BY <1>3 DEF Autorepeat
  <2>2. After(held, KeyMessage(key, 2 # 0)) \subseteq held'
    BY <2>1, AfterKey
  <2>3. 2 \in 0..2
    OBVIOUS
  <2>4. RawReach'
    BY <2>1, <2>2, <2>3, ToRingReach DEF ReachInv
  <2>5. WireSound(wire, ~raw_active, Open, Trusted, Shown, focus, seat = "focus")'
    BY <2>1, ReachParts DEF WireSound, Open
  <2>6. (BitsOfKeys /\ Others)'
    BY <2>1, ReachParts DEF BitsOfKeys, Others
  <2> QED BY <2>4, <2>5, <2>6, ReachParts, PTL
<1>4. CASE SeatGainsKeyboard
  <2> DEFINE m == [kind |-> "capability", on |-> TRUE]
  <2>1. m \in Messages /\ m.kind = "capability" /\ m.on
    BY DEF Messages
  <2>2. SeatAlone("keyboard", <<m>>) /\ seat # "focus"
    BY <1>4 DEF SeatGainsKeyboard
  <2> HIDE DEF m
  <2> QED BY <2>1, <2>2, SeatReach
<1>5. CASE SeatLosesKeyboard
  <2> DEFINE m == [kind |-> "capability", on |-> FALSE]
  <2>1. m \in Messages /\ m.kind = "capability" /\ Clears(m)
    BY DEF Messages, Clears
  <2>2. SeatAlone("none", <<m>>)
    BY <1>5 DEF SeatLosesKeyboard
  <2> HIDE DEF m
  <2> QED BY <2>1, <2>2, SeatReach
<1>6. CASE FocusOut
  <2> DEFINE m == [kind |-> "leave"]
  <2>1. m \in Messages /\ m.kind = "leave" /\ Clears(m)
    BY DEF Messages, Clears
  <2>2. SeatAlone("keyboard", <<m>>) /\ seat = "focus"
    BY <1>6 DEF FocusOut
  <2> HIDE DEF m
  <2> QED BY <2>1, <2>2, SeatReach
<1>7. CASE UNCHANGED vars
  BY <1>7 DEF vars, ReachInv, RawReach, WireReach, LeaveInFocus, BitsOfKeys, Trusted, Shown, Leads
<1> QED BY <1>1, <1>2, <1>3, <1>4, <1>5, <1>6, <1>7, FocusInReach, DispatchReach, PumpReach,
           RepeatReach, ResetReach, SurfaceReach, WindowReach DEF Next

THEOREM KeyboardInvariant == Spec => []KeyboardInv
<1>1. Init => DownAsTold /\ ReachInv
  BY DownInit, ReachInit
<1>2. DownAsTold /\ ReachInv /\ [Next]_vars => (DownAsTold /\ ReachInv)'
  BY DownNext, ReachStep
<1>3. DownAsTold /\ ReachInv => KeyboardInv
  BY DEF DownAsTold, ReachInv, KeyboardInv
<1> QED BY <1>1, <1>2, <1>3, PTL DEF Spec

(* No key stays down for the application once everything on the way has been *)
(* handled, over losses of focus, seats and windows that come and go and     *)
(* resets, for any keymap and any number of reports on their way in either  *)
(* stream, unless a report was lost, or with wl_keyboard a window ended that *)
(* had the focus with keys down, and no reset followed.                     *)
THEOREM KeysNeverStick == Spec => []NoStuckKey
<1>1. KeyboardInv => NoStuckKey
  <2> SUFFICES ASSUME KeyboardInv, Quiet, ~excused PROVE kb.keystate \subseteq held
    BY DEF NoStuckKey
  <2>1. Len(ring) = 0 /\ Len(wire) = 0
    BY DEF Quiet
  <2>2. CASE raw_active
    <3>1. Reaches(Reports(ring), 0, kb.keystate, held)
      BY <2>1, <2>2 DEF KeyboardInv, RawReach
    <3> QED BY <3>1, ReachesNone
  <2>3. CASE ~raw_active
    <3>1. Reaches(wire, 0, kb.keystate, Shown)
      BY <2>1, <2>3 DEF KeyboardInv, WireReach, Leads, Trusted
    <3> QED BY <3>1, ReachesNone DEF Shown
  <2> QED BY <2>2, <2>3
<1> QED BY <1>1, KeyboardInvariant, PTL

(* With wl_keyboard the bits are those of the modifier keys down, although   *)
(* the keys and the groups in effect come in messages of their own, with the *)
(* same two exceptions.                                                     *)
THEOREM ModsAlwaysTrackSeat == Spec => []ModsTrackSeat
<1>1. KeyboardInv => ModsTrackSeat
  BY DEF KeyboardInv, ModsTrackSeat, BitsOfKeys, ModBitHeld, TypeOK
<1> QED BY <1>1, KeyboardInvariant, PTL

-----------------------------------------------------------------------------
(***************************************************************************)
(* The window: WindowInv is inductive.  The functions of sdlop_wayland.c   *)
(* are shown first to keep what it says of the window alone, then each     *)
(* step what it says of the requests and configures on their way.          *)
(***************************************************************************)

\* What WindowInv says of the window alone, for any window: BufferFits,
\* NoProtocolError and the first parts of OfTheRole.
Fits(w) ==
  w.buffer # NoBuffer =>
    /\ w.buffer = w.size
    /\ w.surface # NoSurface => w.surface = [size |-> w.buffer, live |-> TRUE]

Orderly(w) ==
  /\ w.error \in {"none", "unmapped"}
  /\ w.error = "unmapped" => w.failed
  /\ w.configured => w.toplevel /\ w.handshake # "new"
  /\ w.handshake = "unmapped" => w.failed
  /\ w.attached => w.toplevel

GoodWindows == {w \in WindowStates : Fits(w) /\ Orderly(w)}

(* window_create_buffer of a window with a size leaves a buffer of that size *)
(* under its surface, or none, and does not touch the role.                  *)
LEMMA CreateBufferGood ==
  ASSUME NEW w \in WindowStates, w.size \in Sizes, Orderly(w), NEW ok \in BOOLEAN
  PROVE  CreateBuffer(w, ok) \in GoodWindows
<1> DEFINE c == CreateBuffer(w, ok)
<1>1. CASE ok
  BY <1>1 DEF CreateBuffer, DestroyBuffer, WindowStates, Fits, Orderly, GoodWindows
<1>2. CASE ~ok
  BY <1>2 DEF CreateBuffer, DestroyBuffer, WindowStates, Fits, Orderly, GoodWindows
<1> QED BY <1>1, <1>2

LEMMA CreateBufferKeeps ==
  ASSUME NEW w \in WindowStates, NEW ok \in BOOLEAN
  PROVE  /\ CreateBuffer(w, ok).toplevel = w.toplevel
         /\ CreateBuffer(w, ok).size = w.size
BY DEF CreateBuffer, DestroyBuffer, WindowStates

LEMMA CreateBufferTyped ==
  ASSUME NEW w \in WindowStates, w.size \in Sizes, NEW ok \in BOOLEAN
  PROVE  CreateBuffer(w, ok) \in WindowStates
<1>1. CASE ok
  BY <1>1 DEF CreateBuffer, DestroyBuffer, WindowStates
<1>2. CASE ~ok
  BY <1>2 DEF CreateBuffer, DestroyBuffer, WindowStates
<1> QED BY <1>1, <1>2

(* A configured window has acknowledged its role, or was unmapped after a    *)
(* failure: presenting it is no other error.                                 *)
LEMMA PresentGood ==
  ASSUME NEW w \in GoodWindows, w.configured
  PROVE  Present(w) \in GoodWindows /\ Present(w).toplevel = w.toplevel /\ Present(w).size = w.size
<1> DEFINE v == [w EXCEPT !.attached = TRUE]
<1>1. /\ v \in GoodWindows /\ v.toplevel = w.toplevel /\ v.size = w.size
      /\ w.toplevel /\ w.handshake \in {"acked", "unmapped"}
      /\ v.handshake = w.handshake /\ v.configured
  BY DEF GoodWindows, WindowStates, Orderly, Fits
<1>2. Present(w) = IF w.handshake = "acked" THEN v ELSE Error(v, "unmapped")
  BY <1>1, Zenon DEF Present
<1> HIDE DEF v
<1>3. CASE w.handshake = "acked"
  BY <1>1, <1>2, <1>3
<1>4. CASE w.handshake = "unmapped"
  <2>1. Error(v, "unmapped") = [v EXCEPT !.error = "unmapped"]
    BY <1>1 DEF Error, GoodWindows, Orderly, WindowStates
  <2>2. v \in WindowStates /\ v.failed /\ Fits(v) /\ Orderly(v)
    BY <1>1, <1>4 DEF GoodWindows, Orderly
  <2> DEFINE u == [v EXCEPT !.error = "unmapped"]
  <2>3. u \in WindowStates /\ u.toplevel = v.toplevel /\ u.size = v.size
    BY <2>2 DEF WindowStates
  <2>4. Fits(u) /\ Orderly(u)
    BY <2>2 DEF WindowStates, Fits, Orderly
  <2> HIDE DEF u
  <2> QED BY <1>1, <1>2, <1>4, <2>1, <2>3, <2>4 DEF GoodWindows, u
<1> QED BY <1>1, <1>3, <1>4

LEMMA CommitGood ==
  ASSUME NEW w \in GoodWindows
  PROVE  Commit(w) \in GoodWindows /\ Commit(w).toplevel = w.toplevel /\ Commit(w).size = w.size
BY PresentGood DEF Commit

(* A window without a role has nothing attached: giving it one is no error.  *)
LEMMA CreateRoleGood ==
  ASSUME NEW w \in GoodWindows, ~w.toplevel
  PROVE  CreateRole(w) \in GoodWindows /\ CreateRole(w).toplevel /\ CreateRole(w).size = w.size
<1>1. ~w.attached
  BY DEF GoodWindows, Orderly, WindowStates
<1>2. CreateRole(w) = [w EXCEPT !.toplevel = TRUE, !.handshake = "new"]
  BY <1>1, Zenon DEF CreateRole
<1> QED BY <1>2 DEF WindowStates, Orderly, Fits, GoodWindows

LEMMA NewFlagsGood ==
  ASSUME NEW w \in GoodWindows, NEW f \in SUBSET (States \cup {"HIDDEN"})
  PROVE  /\ [w EXCEPT !.flags = f] \in GoodWindows
         /\ [w EXCEPT !.flags = f].toplevel = w.toplevel /\ [w EXCEPT !.flags = f].size = w.size
BY DEF WindowStates, Orderly, Fits, GoodWindows

LEMMA ResizedGood ==
  ASSUME win \in GoodWindows, win.toplevel, win.size \in Sizes, NEW ok \in BOOLEAN,
         Head(events).kind = "stale" => win.handshake # "new"
  PROVE  Resized(ok) \in GoodWindows /\ Resized(ok).toplevel /\ Resized(ok).size \in Sizes
<1> DEFINE w == Acknowledged
           v == [w EXCEPT !.size = w.pending]
<1>1. w \in GoodWindows /\ w.toplevel /\ w.size = win.size /\ w.pending \in Sizes \cup {0}
  <2>1. CASE Head(events).kind = "stale"
    <3>1. w = [win EXCEPT !.configured = TRUE]
      BY <2>1 DEF Acknowledged, WindowStates, GoodWindows
    <3> QED BY <2>1, <3>1 DEF WindowStates, Orderly, Fits, GoodWindows
  <2>2. CASE Head(events).kind # "stale"
    <3>1. w = [win EXCEPT !.configured = TRUE, !.handshake = "acked"]
      BY <2>2 DEF Acknowledged, WindowStates, GoodWindows
    <3> QED BY <3>1 DEF WindowStates, Orderly, Fits, GoodWindows
  <2> QED BY <2>1, <2>2
<1>2. CASE w.pending # 0 /\ w.pending # w.size
  <2>1. v \in WindowStates /\ v.size \in Sizes /\ Orderly(v) /\ v.toplevel
    BY <1>1, <1>2 DEF WindowStates, Orderly, GoodWindows
  <2>2. Resized(ok) = CreateBuffer(v, ok)
    BY <1>2, Zenon DEF Resized
  <2> HIDE DEF v, w
  <2> QED BY <2>1, <2>2, CreateBufferGood, CreateBufferKeeps
<1>3. CASE ~(w.pending # 0 /\ w.pending # w.size)
  <2>1. Resized(ok) = w
    BY <1>3, Zenon DEF Resized
  <2> HIDE DEF w
  <2> QED BY <1>1, <2>1
<1> QED BY <1>2, <1>3

-----------------------------------------------------------------------------
WindowOK == win \in GoodWindows /\ (main # "none" => win.size \in Sizes)

StreamsOK ==
  /\ srv \in [states : SUBSET States, committed : BOOLEAN, dirty : BOOLEAN]
  /\ requests \in Seq(RequestKinds)
  /\ events \in Seq(Configures) /\ Len(events) <= MaxEvents
  /\ requests # <<>> \/ events # <<>> \/ srv.committed => win.toplevel

RoleOK ==
  /\ main = "none" => ~win.toplevel
  /\ win.configured /\ win.buffer = NoBuffer => win.failed
  /\ \A i \in DOMAIN events : events[i].kind = "stale" => win.handshake # "new"

CallsOK == main \in {"none", "creating", "open"} /\ {asked, keep_hidden} \subseteq BOOLEAN

LEMMA WindowInvParts == WindowInv <=> WindowOK /\ StreamsOK /\ RoleOK /\ CallsOK
BY DEF WindowInv, WindowTypeOK, BufferFits, NoProtocolError, OfTheRole, HasSize, WindowOK,
       StreamsOK, RoleOK, CallsOK, GoodWindows, Fits, Orderly

LEMMA CallsStep == ASSUME CallsOK, [WindowNext]_windowVars PROVE CallsOK'
<1>1. main' = main \/ main' \in {"none", "creating", "open"}
  BY Zenon DEF WindowNext, SrvRequest, SrvConfigure, RunListeners, ToplevelConfigure,
    XsurfaceConfigure, CreateWindow, CreateReturns, ShowWindow, HideWindow, DestroyWindow,
    SetWindowSize, SetWindowClearColor, SetWindowFullscreen, MaximizeWindow, RestoreWindow,
    GetWindowSurface, UpdateWindowSurface, DestroyWindowSurface, windowVars
<1>2. asked' = asked \/ asked' \in BOOLEAN
  <2>1. ASSUME NEW flags, asked' = ("FULLSCREEN" \in flags) PROVE asked' \in BOOLEAN
    <3>1. ("FULLSCREEN" \in flags) \in BOOLEAN
      OBVIOUS
    <3> QED BY <2>1, <3>1, Zenon
  <2>2. ASSUME NEW size \in Sizes, NEW flags \in SUBSET States, NEW hidden \in BOOLEAN,
               CreateWindow(size, flags, hidden)
        PROVE  asked' \in BOOLEAN
    <3>1. asked' = ("FULLSCREEN" \in flags)
      BY <2>2, Zenon DEF CreateWindow
    <3> QED BY <2>1, <3>1, Zenon
  <2>3. ASSUME NEW fullscreen \in BOOLEAN, SetWindowFullscreen(fullscreen)
        PROVE  asked' = fullscreen
    BY <2>3, Zenon DEF SetWindowFullscreen
  <2>4. ASSUME RestoreWindow \/ DestroyWindow PROVE asked' = FALSE
    BY <2>4, Zenon DEF RestoreWindow, DestroyWindow
  <2>5. ASSUME \/ SrvRequest \/ (\E size \in Sizes \cup {0} : SrvConfigure(size)) \/ RunListeners
               \/ CreateReturns \/ ShowWindow \/ HideWindow
               \/ (\E size \in Sizes : SetWindowSize(size)) \/ SetWindowClearColor
               \/ MaximizeWindow \/ GetWindowSurface \/ UpdateWindowSurface
               \/ DestroyWindowSurface \/ UNCHANGED windowVars
        PROVE  asked' = asked
    BY <2>5, Zenon DEF SrvRequest, SrvConfigure, RunListeners, ToplevelConfigure,
      XsurfaceConfigure, CreateReturns, ShowWindow, HideWindow, SetWindowSize,
      SetWindowClearColor, MaximizeWindow, GetWindowSurface, UpdateWindowSurface,
      DestroyWindowSurface, windowVars
  <2> QED BY <2>2, <2>3, <2>4, <2>5, Zenon DEF WindowNext
<1>3. keep_hidden' \in {keep_hidden} \cup BOOLEAN
  BY Zenon DEF WindowNext, SrvRequest, SrvConfigure, RunListeners, ToplevelConfigure,
    XsurfaceConfigure, CreateWindow, CreateReturns, ShowWindow, HideWindow, DestroyWindow,
    SetWindowSize, SetWindowClearColor, SetWindowFullscreen, MaximizeWindow, RestoreWindow,
    GetWindowSurface, UpdateWindowSurface, DestroyWindowSurface, windowVars
<1> QED BY <1>1, <1>2, <1>3, Zenon DEF CallsOK

LEMMA RoleRequestsTyped == ASSUME NEW w PROVE RoleRequests(w) \in Seq(RequestKinds)
<1> DEFINE a == IF "FULLSCREEN" \in w.flags THEN <<"set_fullscreen">> ELSE <<>>
           b == IF "MAXIMIZED" \in w.flags THEN <<"set_maximized">> ELSE <<>>
<1>1. a \in Seq(RequestKinds) /\ b \in Seq(RequestKinds) /\ <<"commit">> \in Seq(RequestKinds)
  <2>1. ASSUME NEW x \in RequestKinds PROVE <<x>> \in Seq(RequestKinds)
    OBVIOUS
  <2>2. {"set_fullscreen", "set_maximized", "commit"} \subseteq RequestKinds
    BY DEF RequestKinds
  <2>3. /\ <<"set_fullscreen">> \in Seq(RequestKinds) /\ <<"set_maximized">> \in Seq(RequestKinds)
        /\ <<"commit">> \in Seq(RequestKinds) /\ <<>> \in Seq(RequestKinds)
    BY <2>1, <2>2, EmptySeq
  <2> QED BY <2>3
<1> HIDE DEF a, b
<1>2. (a \o b) \o <<"commit">> \in Seq(RequestKinds)
  BY <1>1, ConcatProperties
<1> QED BY <1>2 DEF RoleRequests, a, b

LEMMA ShowGood ==
  ASSUME NEW w \in GoodWindows, requests \in Seq(RequestKinds),
         requests # <<>> => w.toplevel, Show(w)
  PROVE  /\ win' \in GoodWindows /\ win'.size = w.size /\ requests' \in Seq(RequestKinds)
         /\ w.toplevel \/ requests' # <<>> => win'.toplevel
<1>1. CASE w.toplevel
  BY <1>1, CommitGood DEF Show
<1>2. CASE ~w.toplevel
  <2>1. win' = CreateRole(w) /\ requests' = requests \o RoleRequests(w)
    BY <1>2 DEF Show
  <2>2. requests' \in Seq(RequestKinds)
    BY <2>1, RoleRequestsTyped, ConcatProperties
  <2> QED BY <1>2, <2>1, <2>2, CreateRoleGood
<1> QED BY <1>1, <1>2

LEMMA WindowStep ==
  ASSUME WindowInv, [WindowNext]_windowVars PROVE WindowOK' /\ StreamsOK'
<1>0. WindowOK /\ StreamsOK /\ RoleOK /\ CallsOK
  BY WindowInvParts
<1>1. ASSUME SrvRequest PROVE WindowOK' /\ StreamsOK'
  <2>1. UNCHANGED <<main, win, events>> /\ requests # <<>> /\ requests' = Tail(requests)
    BY <1>1 DEF SrvRequest
  <2>2. Head(requests) \in RequestKinds /\ Tail(requests) \in Seq(RequestKinds)
    BY <1>0, <2>1, HeadTailProperties DEF StreamsOK
  <2>3. Applied(Head(requests)) \in SUBSET States
    BY <1>0, <2>2 DEF Applied, RequestKinds, States, StreamsOK
  <2>4. srv' \in [states : SUBSET States, committed : BOOLEAN, dirty : BOOLEAN]
    <3>1. (srv.committed \/ Head(requests) = "commit") \in BOOLEAN
      BY Zenon
    <3> QED BY <1>1, <2>3, <3>1, Zenon DEF SrvRequest
  <2>5. win.toplevel
    BY <1>0, <2>1 DEF StreamsOK
  <2>6. WindowOK'
    BY <1>0, <2>1 DEF WindowOK
  <2>7. StreamsOK'
    BY <1>0, <2>1, <2>2, <2>4, <2>5 DEF StreamsOK
  <2> QED BY <2>6, <2>7
<1>2. ASSUME NEW size \in Sizes \cup {0}, SrvConfigure(size) PROVE WindowOK' /\ StreamsOK'
  <2>1. /\ UNCHANGED <<main, win, requests>> /\ srv.committed /\ Len(events) + 2 <= MaxEvents
        /\ events' = events \o <<[kind |-> "toplevel", size |-> size, states |-> srv.states],
                                 [kind |-> "xsurface"]>>
        /\ srv' = [srv EXCEPT !.dirty = FALSE]
    BY <1>2, Zenon DEF SrvConfigure
  <2> DEFINE e == [kind |-> "toplevel", size |-> size, states |-> srv.states]
             f == [kind |-> "xsurface"]
  <2>2. e \in Configures /\ f \in Configures
    BY <1>0 DEF Configures, StreamsOK
  <2> HIDE DEF e, f
  <2>3. <<e, f>> \in Seq(Configures) /\ Len(<<e, f>>) = 2
    BY <2>2
  <2>4. events' \in Seq(Configures) /\ Len(events') = Len(events) + 2
    BY <1>0, <2>1, <2>3, ConcatProperties DEF StreamsOK, e, f
  <2>5. srv' \in [states : SUBSET States, committed : BOOLEAN, dirty : BOOLEAN]
    BY <1>0, <2>1 DEF StreamsOK
  <2>6. win.toplevel
    BY <1>0, <2>1 DEF StreamsOK
  <2>7. WindowOK'
    BY <1>0, <2>1 DEF WindowOK
  <2> QED BY <1>0, <2>1, <2>4, <2>5, <2>6, <2>7 DEF StreamsOK
<1>3. ASSUME RunListeners PROVE WindowOK' /\ StreamsOK'
  <2>1. /\ UNCHANGED <<main, requests, srv>> /\ main # "none"
        /\ events # <<>> /\ events' = Tail(events)
    BY <1>3, Zenon DEF RunListeners, ToplevelConfigure, XsurfaceConfigure
  <2>2. /\ Head(events) \in Configures /\ Tail(events) \in Seq(Configures)
        /\ Len(Tail(events)) <= MaxEvents
    BY <1>0, <2>1, HeadTailProperties, WindowAssumption DEF StreamsOK
  <2>3. win \in GoodWindows /\ win.toplevel /\ win.size \in Sizes
    BY <1>0, <2>1 DEF WindowOK, StreamsOK
  <2>4. win' \in GoodWindows /\ win'.toplevel /\ win'.size \in Sizes
    <3>1. CASE ToplevelConfigure
      <4>1. /\ Head(events).kind = "toplevel"
            /\ win' = [win EXCEPT !.pending = Head(events).size,
                                  !.flags = (@ \ States) \cup Head(events).states]
        BY <3>1 DEF ToplevelConfigure
      <4>2. Head(events).size \in Sizes \cup {0} /\ Head(events).states \in SUBSET States
        BY <2>2, <4>1 DEF Configures
      <4> QED BY <2>3, <4>1, <4>2 DEF GoodWindows, WindowStates, Fits, Orderly
    <3>2. CASE XsurfaceConfigure
      <4>1. PICK first \in BOOLEAN, second \in BOOLEAN :
              LET r == Resized(first)
                  w == IF r.buffer = NoBuffer THEN CreateBuffer(r, second) ELSE r
              IN  win' = IF "HIDDEN" \in w.flags THEN w ELSE Commit(w)
        BY <3>2 DEF XsurfaceConfigure
      <4> DEFINE r == Resized(first)
                 w == IF r.buffer = NoBuffer THEN CreateBuffer(r, second) ELSE r
      <4>2. r \in GoodWindows /\ r.toplevel /\ r.size \in Sizes
        <5>1. Head(events).kind = "stale" => win.handshake # "new"
          BY <1>0, <2>1 DEF RoleOK, StreamsOK
        <5> QED BY <2>3, <5>1, ResizedGood
      <4> HIDE DEF r
      <4>3. w \in GoodWindows /\ w.toplevel /\ w.size \in Sizes
        BY <4>2, CreateBufferGood, CreateBufferKeeps DEF GoodWindows
      <4>4. win' = w \/ win' = Commit(w)
        BY <4>1 DEF r
      <4> HIDE DEF w
      <4> QED BY <4>3, <4>4, CommitGood
    <3> QED BY <1>3, <3>1, <3>2 DEF RunListeners
  <2> QED BY <1>0, <2>1, <2>2, <2>4 DEF WindowOK, StreamsOK
<1>4. ASSUME NEW size \in Sizes, NEW flags \in SUBSET States, NEW hidden \in BOOLEAN,
             CreateWindow(size, flags, hidden)
      PROVE  WindowOK' /\ StreamsOK'
  <2> DEFINE w == [NoWindow EXCEPT !.flags = flags \cup {"HIDDEN"}, !.size = size]
  <2>1. /\ win' = CreateRole(w) /\ requests' = RoleRequests(w)
        /\ UNCHANGED <<events, srv>>
    BY <1>4 DEF CreateWindow
  <2>2. w \in GoodWindows /\ ~w.toplevel /\ w.size = size
    BY DEF NoWindow, GoodWindows, WindowStates, Fits, Orderly
  <2> HIDE DEF w
  <2>3. win' \in GoodWindows /\ win'.toplevel /\ win'.size \in Sizes
    BY <2>1, <2>2, CreateRoleGood
  <2>4. requests' \in Seq(RequestKinds)
    BY <2>1, RoleRequestsTyped
  <2> QED BY <1>0, <2>1, <2>3, <2>4 DEF WindowOK, StreamsOK
<1>5. ASSUME CreateReturns \/ ShowWindow PROVE WindowOK' /\ StreamsOK'
  <2> DEFINE w == [win EXCEPT !.flags = @ \ {"HIDDEN"}]
  <2>1. UNCHANGED <<events, srv>> /\ main # "none" /\ (UNCHANGED <<win, requests>> \/ Show(w))
    BY <1>5 DEF CreateReturns, ShowWindow, App
  <2>2. win \in GoodWindows /\ win.size \in Sizes
    BY <1>0, <2>1 DEF WindowOK
  <2>3. w \in GoodWindows /\ w.toplevel = win.toplevel /\ w.size = win.size
    <3>1. win.flags \ {"HIDDEN"} \in SUBSET (States \cup {"HIDDEN"})
      BY <2>2 DEF GoodWindows, WindowStates
    <3> QED BY <2>2, <3>1, NewFlagsGood
  <2> HIDE DEF w
  <2>4. CASE UNCHANGED <<win, requests>>
    BY <1>0, <2>1, <2>2, <2>4 DEF WindowOK, StreamsOK
  <2>5. CASE Show(w)
    <3>1. /\ win' \in GoodWindows /\ win'.size \in Sizes /\ requests' \in Seq(RequestKinds)
          /\ w.toplevel \/ requests' # <<>> => win'.toplevel
      BY <1>0, <2>2, <2>3, <2>5, ShowGood DEF StreamsOK
    <3> QED BY <1>0, <2>1, <2>3, <3>1 DEF WindowOK, StreamsOK
  <2> QED BY <2>1, <2>4, <2>5
<1>6. ASSUME HideWindow PROVE WindowOK' /\ StreamsOK'
  <2>1. /\ win' = [win EXCEPT !.flags = @ \cup {"HIDDEN"}, !.toplevel = FALSE,
                              !.attached = FALSE, !.configured = FALSE, !.pending = 0]
        /\ requests' = <<>> /\ events' = <<>> /\ srv' = NewRole /\ main' = main
    BY <1>6 DEF HideWindow
  <2>2. WindowOK'
    BY <1>0, <2>1 DEF WindowOK, GoodWindows, WindowStates, Fits, Orderly
  <2>3. StreamsOK'
    BY <1>0, <2>1, EmptySeq, WindowAssumption DEF StreamsOK, NewRole
  <2> QED BY <2>2, <2>3
<1>7. ASSUME DestroyWindow PROVE WindowOK' /\ StreamsOK'
  <2>1. /\ main' = "none" /\ win' = NoWindow
        /\ requests' = <<>> /\ events' = <<>> /\ srv' = NewRole
    BY <1>7 DEF DestroyWindow
  <2>2. WindowOK'
    BY <2>1 DEF WindowOK, GoodWindows, WindowStates, Fits, Orderly, NoWindow
  <2>3. StreamsOK'
    BY <2>1, EmptySeq, WindowAssumption DEF StreamsOK, NewRole
  <2> QED BY <2>2, <2>3
\* A call that sends nothing and leaves the role as it is.
<1>8. ASSUME UNCHANGED <<main, requests, events, srv>>, win' \in GoodWindows,
             win'.toplevel = win.toplevel, main # "none" => win'.size \in Sizes
      PROVE  WindowOK' /\ StreamsOK'
  BY <1>0, <1>8 DEF WindowOK, StreamsOK
<1>9. ASSUME NEW size \in Sizes, SetWindowSize(size) PROVE WindowOK' /\ StreamsOK'
  <2> DEFINE w == [win EXCEPT !.size = size]
  <2>1. PICK ok \in BOOLEAN : win' = Commit(CreateBuffer(w, ok))
    BY <1>9 DEF SetWindowSize
  <2>2. UNCHANGED <<main, requests, events, srv>>
    BY <1>9 DEF SetWindowSize
  <2>3. w \in WindowStates /\ Orderly(w) /\ w.size = size /\ w.toplevel = win.toplevel
    BY <1>0 DEF WindowOK, GoodWindows, WindowStates, Orderly
  <2> HIDE DEF w
  <2>4. /\ CreateBuffer(w, ok) \in GoodWindows /\ CreateBuffer(w, ok).size = size
        /\ CreateBuffer(w, ok).toplevel = win.toplevel
    BY <2>3, CreateBufferGood, CreateBufferKeeps
  <2> QED BY <1>8, <2>1, <2>2, <2>4, CommitGood
<1>10. ASSUME SetWindowClearColor PROVE WindowOK' /\ StreamsOK'
  BY <1>0, <1>8, <1>10, CommitGood DEF SetWindowClearColor, WindowOK
<1>11. ASSUME NEW fullscreen \in BOOLEAN, SetWindowFullscreen(fullscreen)
       PROVE  WindowOK' /\ StreamsOK'
  <2>0. UNCHANGED <<main, events, srv>>
    BY <1>11, Zenon DEF SetWindowFullscreen
  <2>1. CASE UNCHANGED <<win, requests>>
    BY <1>0, <2>0, <2>1 DEF WindowOK, StreamsOK
  <2>2. CASE ~UNCHANGED <<win, requests>>
    <3>1. /\ win.toplevel
          /\ win' = [win EXCEPT !.flags = IF fullscreen THEN @ \cup {"FULLSCREEN"}
                                         ELSE @ \ {"FULLSCREEN"}]
          /\ requests' = Append(requests,
                               IF fullscreen THEN "set_fullscreen" ELSE "unset_fullscreen")
      BY <1>11, <2>2, Zenon DEF SetWindowFullscreen
    <3> DEFINE f == IF fullscreen THEN win.flags \cup {"FULLSCREEN"} ELSE win.flags \ {"FULLSCREEN"}
    <3>2. f \in SUBSET (States \cup {"HIDDEN"}) /\ win' = [win EXCEPT !.flags = f]
      BY <1>0, <3>1 DEF WindowOK, GoodWindows, WindowStates, States
    <3> HIDE DEF f
    <3>3. win' \in GoodWindows /\ win'.toplevel = win.toplevel /\ win'.size = win.size
      BY <1>0, <3>2, NewFlagsGood DEF WindowOK
    <3>4. requests' \in Seq(RequestKinds)
      BY <1>0, <3>1 DEF StreamsOK, RequestKinds
    <3> QED BY <1>0, <2>0, <3>1, <3>3, <3>4 DEF WindowOK, StreamsOK
  <2> QED BY <2>1, <2>2
<1>12. ASSUME MaximizeWindow \/ RestoreWindow PROVE WindowOK' /\ StreamsOK'
  <2>1. UNCHANGED <<main, win, events, srv>> /\ win.toplevel
    BY <1>12, Zenon DEF MaximizeWindow, RestoreWindow
  <2>2. requests' \in Seq(RequestKinds)
    <3>1. CASE MaximizeWindow
      BY <1>0, <3>1 DEF MaximizeWindow, StreamsOK, RequestKinds
    <3>2. CASE RestoreWindow
      <4>1. <<"unset_maximized", "unset_fullscreen">> \in Seq(RequestKinds)
        BY DEF RequestKinds
      <4> QED BY <1>0, <3>2, <4>1, ConcatProperties DEF RestoreWindow, StreamsOK
    <3> QED BY <1>12, <3>1, <3>2
  <2> QED BY <1>0, <2>1, <2>2 DEF WindowOK, StreamsOK
<1>13. ASSUME GetWindowSurface PROVE WindowOK' /\ StreamsOK'
  <2>1. PICK ok \in BOOLEAN :
          LET w == IF win.buffer = NoBuffer THEN CreateBuffer(win, ok) ELSE win IN
          win' = IF w.buffer = NoBuffer THEN w
                 ELSE [w EXCEPT !.surface = [size |-> w.size, live |-> TRUE]]
    BY <1>13 DEF GetWindowSurface
  <2> DEFINE w == IF win.buffer = NoBuffer THEN CreateBuffer(win, ok) ELSE win
             v == [w EXCEPT !.surface = [size |-> w.size, live |-> TRUE]]
  <2>2. win \in GoodWindows /\ win.size \in Sizes
    BY <1>0, <1>13 DEF WindowOK, GetWindowSurface, App
  <2>3. w \in GoodWindows /\ w.size \in Sizes /\ w.toplevel = win.toplevel
    BY <2>2, CreateBufferGood, CreateBufferKeeps DEF GoodWindows
  <2>4. win' = w \/ win' = v
    BY <2>1
  <2> HIDE DEF w
  <2>5. v \in GoodWindows /\ v.size = w.size /\ v.toplevel = w.toplevel
    BY <2>3 DEF GoodWindows, WindowStates, Fits, Orderly
  <2> HIDE DEF v
  <2>6. UNCHANGED <<main, requests, events, srv>>
    BY <1>13 DEF GetWindowSurface
  <2> QED BY <1>8, <2>3, <2>4, <2>5, <2>6
<1>14. ASSUME UpdateWindowSurface PROVE WindowOK' /\ StreamsOK'
  <2>1. win \in GoodWindows /\ win.configured /\ win.toplevel /\ main' = main /\ win.size \in Sizes
    BY <1>0, <1>14 DEF UpdateWindowSurface, App, WindowOK, GoodWindows, Orderly
  <2>2. CASE win.buffer # NoBuffer
    BY <1>8, <1>14, <2>1, <2>2, PresentGood DEF UpdateWindowSurface
  <2>3. CASE win.buffer = NoBuffer /\ win.attached
    <3> DEFINE es == [i \in DOMAIN events |->
                       IF events[i].kind = "xsurface" THEN [kind |-> "stale"] ELSE events[i]]
    <3>1. /\ win' = [win EXCEPT !.attached = FALSE, !.handshake = "unmapped"]
          /\ requests' = <<>> /\ srv' = NewRole /\ events' = es
      BY <1>14, <2>3, Zenon DEF UpdateWindowSurface, AttachNull
    <3>2. win.failed
      BY <1>0, <2>1, <2>3 DEF RoleOK
    <3>3. win' \in GoodWindows /\ win'.toplevel /\ win'.size \in Sizes
      BY <2>1, <3>1, <3>2 DEF GoodWindows, WindowStates, Fits, Orderly
    <3>4. es \in Seq(Configures) /\ Len(es) <= MaxEvents
      <4>1. \A i \in 1..Len(events) : es[i] \in Configures
        BY <1>0 DEF StreamsOK, Configures
      <4>2. Len(events) \in Nat /\ Len(events) <= MaxEvents /\ DOMAIN events = 1..Len(events)
        BY <1>0, LenProperties DEF StreamsOK
      <4>3. es \in [1..Len(events) -> Configures]
        BY <4>1, <4>2
      <4> HIDE DEF es
      <4>4. DOMAIN es = 1..Len(events)
        BY <4>3
      <4>5. es \in Seq(Configures)
        BY <4>2, <4>3, SeqDef
      <4>6. Len(es) = Len(events)
        BY <4>2, <4>4, <4>5, LenProperties
      <4> QED BY <4>2, <4>5, <4>6
    <3> HIDE DEF es
    <3> QED BY <1>0, <2>1, <3>1, <3>3, <3>4, EmptySeq DEF WindowOK, StreamsOK, NewRole
  <2>4. CASE win.buffer = NoBuffer /\ ~win.attached
    <3>1. UNCHANGED <<win, events, srv>> /\ requests' \in {requests, Append(requests, "commit")}
      BY <1>14, <2>4, Zenon DEF UpdateWindowSurface, AttachNull
    <3>2. requests' \in Seq(RequestKinds)
      BY <1>0, <3>1 DEF StreamsOK, RequestKinds
    <3> QED BY <1>0, <2>1, <3>1, <3>2 DEF WindowOK, StreamsOK
  <2> QED BY <2>2, <2>3, <2>4
<1>15. ASSUME DestroyWindowSurface PROVE WindowOK' /\ StreamsOK'
  <2>1. win' = [win EXCEPT !.surface = NoSurface] /\ UNCHANGED <<main, requests, events, srv>>
    BY <1>15 DEF DestroyWindowSurface
  <2>2. win' \in GoodWindows /\ win'.toplevel = win.toplevel /\ win'.size = win.size
    BY <1>0, <2>1 DEF WindowOK, GoodWindows, WindowStates, Fits, Orderly
  <2> QED BY <1>0, <1>8, <2>1, <2>2 DEF WindowOK
<1>16. ASSUME UNCHANGED windowVars PROVE WindowOK' /\ StreamsOK'
  BY <1>0, <1>16 DEF windowVars, WindowOK, StreamsOK
<1> QED
  BY <1>1, <1>2, <1>3, <1>4, <1>5, <1>6, <1>7, <1>9, <1>10, <1>11, <1>12, <1>13, <1>14,
     <1>15, <1>16, Zenon DEF WindowNext

(* A window that has been configured has a buffer, or failed to make one.    *)
LEMMA CreateBufferBacked ==
  ASSUME NEW w \in WindowStates, w.size \in Sizes, NEW ok \in BOOLEAN
  PROVE  /\ CreateBuffer(w, ok).buffer = NoBuffer => CreateBuffer(w, ok).failed
         /\ CreateBuffer(w, ok).handshake = w.handshake
<1>1. CASE ok
  BY <1>1, WindowAssumption DEF CreateBuffer, DestroyBuffer, WindowStates
<1>2. CASE ~ok
  BY <1>2 DEF CreateBuffer, DestroyBuffer, WindowStates
<1> QED BY <1>1, <1>2

LEMMA PresentKeeps ==
  ASSUME NEW w \in WindowStates
  PROVE  /\ Present(w).buffer = w.buffer /\ Present(w).failed = w.failed
         /\ Present(w).configured = w.configured /\ Present(w).handshake = w.handshake
BY DEF Present, Error, WindowStates

LEMMA CommitKeeps ==
  ASSUME NEW w \in WindowStates
  PROVE  /\ Commit(w).buffer = w.buffer /\ Commit(w).failed = w.failed
         /\ Commit(w).configured = w.configured /\ Commit(w).handshake = w.handshake
BY PresentKeeps DEF Commit

LEMMA CreateRoleKeeps ==
  ASSUME NEW w \in WindowStates
  PROVE  /\ CreateRole(w).buffer = w.buffer /\ CreateRole(w).failed = w.failed
         /\ CreateRole(w).configured = w.configured
BY DEF CreateRole, Error, WindowStates

(* A role that is new has no stale configures on their way, and a window     *)
(* that was configured has a buffer or failed to make one.                   *)
LEMMA RoleStep ==
  ASSUME WindowInv, [WindowNext]_windowVars PROVE RoleOK'
<1> DEFINE Backed(w) == w.configured /\ w.buffer = NoBuffer => w.failed
           Stales(es) == \A i \in DOMAIN es : es[i].kind = "stale" => win'.handshake # "new"
<1>0. /\ WindowOK /\ StreamsOK /\ RoleOK /\ CallsOK
      /\ WindowOK' /\ StreamsOK'
  BY WindowInvParts, WindowStep
<1>a. win \in WindowStates /\ (main # "none" => win.size \in Sizes) /\ events \in Seq(Configures)
      /\ Backed(win)
  BY <1>0 DEF WindowOK, GoodWindows, StreamsOK, RoleOK
\* What a step that leaves the events alone, or takes the first, has to show.
<1>b. ASSUME main # "none", main' # "none",
             events' \in {events, <<>>} \/ (events # <<>> /\ events' = Tail(events)),
             events # <<>> => win'.handshake = win.handshake \/ win'.handshake = "acked",
             Backed(win')
      PROVE  RoleOK'
  <2>1. ASSUME NEW i \in DOMAIN events', events'[i].kind = "stale" PROVE win'.handshake # "new"
    <3>1. PICK j \in DOMAIN events : events[j].kind = "stale"
      <4>1. CASE events' = events
        BY <2>1, <4>1
      <4>2. CASE events' = Tail(events) /\ events # <<>>
        BY <1>a, <2>1, <4>2, HeadTailProperties
      <4>3. events' # <<>>
        BY <2>1
      <4> QED BY <1>b, <4>1, <4>2, <4>3
    <3>2. win.handshake # "new" /\ events # <<>>
      BY <1>0, <3>1 DEF RoleOK
    <3> QED BY <1>b, <3>2
  <2> QED BY <1>b, <2>1 DEF RoleOK
<1>1. ASSUME SrvRequest \/ MaximizeWindow \/ RestoreWindow \/ UNCHANGED windowVars PROVE RoleOK'
  <2>1. UNCHANGED <<main, win, events>>
    BY <1>1, Zenon DEF SrvRequest, MaximizeWindow, RestoreWindow, windowVars
  <2> QED BY <1>0, <2>1 DEF RoleOK
<1>2. ASSUME NEW size \in Sizes \cup {0}, SrvConfigure(size) PROVE RoleOK'
  <2> DEFINE e == [kind |-> "toplevel", size |-> size, states |-> srv.states]
             f == [kind |-> "xsurface"]
  <2>1. UNCHANGED <<main, win>> /\ events' = events \o <<e, f>>
    BY <1>2, Zenon DEF SrvConfigure
  <2>2. ASSUME NEW i \in DOMAIN events', events'[i].kind = "stale" PROVE win'.handshake # "new"
    <3>1. i \in 1..Len(events) + 2 /\ Len(events) \in Nat
      BY <1>a, <2>1, <2>2
    <3>2. CASE i \in 1..Len(events)
      BY <1>0, <1>a, <2>1, <2>2, <3>2 DEF RoleOK
    <3>3. CASE i \notin 1..Len(events)
      BY <1>a, <2>1, <2>2, <3>1, <3>3
    <3> QED BY <3>2, <3>3
  <2> QED BY <1>0, <2>1, <2>2 DEF RoleOK
<1>3. ASSUME RunListeners PROVE RoleOK'
  <2>1. main # "none" /\ main' = main /\ events # <<>> /\ events' = Tail(events)
    BY <1>3, Zenon DEF RunListeners, ToplevelConfigure, XsurfaceConfigure
  <2>2. CASE ToplevelConfigure
    <3>1. Backed(win') /\ win'.handshake = win.handshake
      BY <1>a, <2>2 DEF ToplevelConfigure, WindowStates
    <3> QED BY <1>b, <2>1, <3>1
  <2>3. CASE XsurfaceConfigure
    <3>1. PICK first \in BOOLEAN, second \in BOOLEAN :
            LET r == Resized(first)
                w == IF r.buffer = NoBuffer THEN CreateBuffer(r, second) ELSE r
            IN  win' = IF "HIDDEN" \in w.flags THEN w ELSE Commit(w)
      BY <2>3 DEF XsurfaceConfigure
    <3> DEFINE r == Resized(first)
               w == IF r.buffer = NoBuffer THEN CreateBuffer(r, second) ELSE r
    <3>2. win \in GoodWindows /\ win.toplevel /\ win.size \in Sizes
          /\ (Head(events).kind = "stale" => win.handshake # "new")
      BY <1>0, <2>1 DEF WindowOK, StreamsOK, RoleOK
    <3>3. r \in WindowStates /\ r.size \in Sizes
      BY <3>2, ResizedGood DEF GoodWindows
    <3>4. r.handshake \in {win.handshake, "acked"}
      <4>1. Acknowledged \in WindowStates /\ Acknowledged.handshake \in {win.handshake, "acked"}
        BY <1>a DEF Acknowledged, WindowStates
      <4>2. CASE Acknowledged.pending # 0 /\ Acknowledged.pending # Acknowledged.size
        <5> DEFINE v == [Acknowledged EXCEPT !.size = Acknowledged.pending]
        <5>1. v \in WindowStates /\ v.size \in Sizes /\ v.handshake = Acknowledged.handshake
          BY <4>1, <4>2 DEF WindowStates
        <5>2. r = CreateBuffer(v, first)
          BY <4>2 DEF Resized
        <5> HIDE DEF v, r
        <5> QED BY <4>1, <5>1, <5>2, CreateBufferBacked
      <4>3. CASE ~(Acknowledged.pending # 0 /\ Acknowledged.pending # Acknowledged.size)
        BY <4>1, <4>3 DEF Resized
      <4> QED BY <4>2, <4>3
    <3> HIDE DEF r
    <3>5. /\ w \in WindowStates /\ w.handshake = r.handshake
          /\ w.buffer = NoBuffer => w.failed
      <4>1. CASE r.buffer = NoBuffer
        BY <3>2, <3>3, <4>1, CreateBufferBacked, CreateBufferTyped
      <4>2. CASE r.buffer # NoBuffer
        BY <3>3, <4>2
      <4> QED BY <4>1, <4>2
    <3>6. win' = w \/ win' = Commit(w)
      BY <3>1 DEF r
    <3> HIDE DEF w
    <3>7. win'.handshake = w.handshake /\ (win'.buffer = NoBuffer => win'.failed)
      BY <3>5, <3>6, CommitKeeps
    <3> QED BY <1>b, <2>1, <3>4, <3>5, <3>7
  <2> QED BY <1>3, <2>2, <2>3 DEF RunListeners
<1>4. ASSUME NEW size \in Sizes, NEW flags \in SUBSET States, NEW hidden \in BOOLEAN,
             CreateWindow(size, flags, hidden)
      PROVE  RoleOK'
  <2> DEFINE w == [NoWindow EXCEPT !.flags = flags \cup {"HIDDEN"}, !.size = size]
  <2>1. /\ win' = CreateRole(w) /\ main = "none" /\ main' = "creating" /\ events' = events
    BY <1>4 DEF CreateWindow
  <2>2. w \in WindowStates /\ ~w.configured
    BY DEF NoWindow, WindowStates
  <2> HIDE DEF w
  <2>3. ~win'.configured
    BY <2>1, <2>2, CreateRoleKeeps
  <2>4. events = <<>>
    BY <1>0, <2>1 DEF RoleOK, StreamsOK
  <2> QED BY <2>1, <2>3, <2>4 DEF RoleOK
<1>5. ASSUME CreateReturns \/ ShowWindow PROVE RoleOK'
  <2> DEFINE w == [win EXCEPT !.flags = @ \ {"HIDDEN"}]
  <2>1. events' = events /\ main # "none" /\ main' # "none" /\ (UNCHANGED win \/ Show(w))
    BY <1>5 DEF CreateReturns, ShowWindow, App
  <2>2. /\ w \in WindowStates /\ Backed(w) /\ w.handshake = win.handshake
        /\ w.toplevel = win.toplevel
    BY <1>a DEF WindowStates
  <2> HIDE DEF w
  <2>3. CASE UNCHANGED win
    BY <1>a, <1>b, <2>1, <2>3
  <2>4. CASE Show(w) /\ w.toplevel
    <3>1. win' = Commit(w)
      BY <2>4 DEF Show
    <3>2. Backed(win') /\ win'.handshake = win.handshake
      BY <2>2, <3>1, CommitKeeps
    <3> QED BY <1>b, <2>1, <3>2
  <2>5. CASE Show(w) /\ ~w.toplevel
    <3>1. win' = CreateRole(w) /\ events = <<>>
      BY <1>0, <2>2, <2>5 DEF Show, StreamsOK
    <3>2. Backed(win')
      BY <2>2, <3>1, CreateRoleKeeps
    <3> QED BY <1>b, <2>1, <3>1, <3>2
  <2> QED BY <2>1, <2>3, <2>4, <2>5
<1>6. ASSUME HideWindow PROVE RoleOK'
  <2>1. /\ win' = [win EXCEPT !.flags = @ \cup {"HIDDEN"}, !.toplevel = FALSE,
                              !.attached = FALSE, !.configured = FALSE, !.pending = 0]
        /\ events' = <<>>
    BY <1>6 DEF HideWindow
  <2>2. ~win'.configured /\ ~win'.toplevel
    BY <1>a, <2>1 DEF WindowStates
  <2> QED BY <2>1, <2>2 DEF RoleOK
<1>7. ASSUME DestroyWindow PROVE RoleOK'
  BY <1>7 DEF DestroyWindow, NoWindow, RoleOK
<1>8. ASSUME NEW size \in Sizes, SetWindowSize(size) PROVE RoleOK'
  <2> DEFINE w == [win EXCEPT !.size = size]
  <2>1. PICK ok \in BOOLEAN : win' = Commit(CreateBuffer(w, ok))
    BY <1>8 DEF SetWindowSize
  <2>2. UNCHANGED <<main, events>> /\ main # "none"
    BY <1>8 DEF SetWindowSize, App
  <2>3. w \in WindowStates /\ w.size \in Sizes /\ w.handshake = win.handshake
    BY <1>a DEF WindowStates
  <2> HIDE DEF w
  <2> DEFINE c == CreateBuffer(w, ok)
  <2>4. c \in WindowStates /\ c.handshake = win.handshake /\ (c.buffer = NoBuffer => c.failed)
    BY <2>3, CreateBufferBacked, CreateBufferTyped
  <2> HIDE DEF c
  <2>5. win' = Commit(c)
    BY <2>1 DEF c
  <2>6. Backed(win') /\ win'.handshake = win.handshake
    BY <2>4, <2>5, CommitKeeps
  <2> QED BY <1>b, <2>2, <2>6
<1>9. ASSUME SetWindowClearColor PROVE RoleOK'
  <2>1. win' = Commit(win) /\ UNCHANGED <<main, events>> /\ main # "none"
    BY <1>9 DEF SetWindowClearColor, App
  <2>2. Backed(win') /\ win'.handshake = win.handshake
    BY <1>a, <2>1, CommitKeeps
  <2> QED BY <1>b, <2>1, <2>2
<1>10. ASSUME NEW fullscreen \in BOOLEAN, SetWindowFullscreen(fullscreen) PROVE RoleOK'
  <2>1. UNCHANGED <<main, events>> /\ main # "none"
    BY <1>10, Zenon DEF SetWindowFullscreen, App
  <2>2. PICK f : win' = win \/ win' = [win EXCEPT !.flags = f]
    BY <1>10, Zenon DEF SetWindowFullscreen
  <2>3. Backed(win') /\ win'.handshake = win.handshake
    BY <1>a, <2>2 DEF WindowStates
  <2> QED BY <1>b, <2>1, <2>3
<1>11. ASSUME GetWindowSurface PROVE RoleOK'
  <2>1. PICK ok \in BOOLEAN :
          LET w == IF win.buffer = NoBuffer THEN CreateBuffer(win, ok) ELSE win IN
          win' = IF w.buffer = NoBuffer THEN w
                 ELSE [w EXCEPT !.surface = [size |-> w.size, live |-> TRUE]]
    BY <1>11 DEF GetWindowSurface
  <2> DEFINE w == IF win.buffer = NoBuffer THEN CreateBuffer(win, ok) ELSE win
  <2>2. UNCHANGED <<main, events>> /\ main # "none"
    BY <1>11 DEF GetWindowSurface, App
  <2>3. w \in WindowStates /\ w.handshake = win.handshake /\ Backed(w)
    BY <1>a, <2>2, CreateBufferBacked, CreateBufferTyped
  <2>4. win' = w \/ win' = [w EXCEPT !.surface = [size |-> w.size, live |-> TRUE]]
    BY <2>1
  <2> HIDE DEF w
  <2>5. Backed(win') /\ win'.handshake = win.handshake
    BY <2>3, <2>4 DEF WindowStates
  <2> QED BY <1>b, <2>2, <2>5
<1>12. ASSUME UpdateWindowSurface PROVE RoleOK'
  <2>1. main' = main /\ main # "none" /\ win.configured
    BY <1>12 DEF UpdateWindowSurface, App
  <2>2. CASE win.buffer # NoBuffer
    <3>1. win' = Present(win) /\ events' = events
      BY <1>12, <2>2 DEF UpdateWindowSurface
    <3>2. Backed(win') /\ win'.handshake = win.handshake
      BY <1>a, <3>1, PresentKeeps
    <3> QED BY <1>b, <2>1, <3>1, <3>2
  <2>3. CASE win.buffer = NoBuffer /\ win.attached
    <3>1. win' = [win EXCEPT !.attached = FALSE, !.handshake = "unmapped"]
      BY <1>12, <2>3, Zenon DEF UpdateWindowSurface, AttachNull
    <3>2. win'.handshake = "unmapped" /\ Backed(win')
      BY <1>a, <3>1 DEF WindowStates
    <3> QED BY <2>1, <3>2 DEF RoleOK
  <2>4. CASE win.buffer = NoBuffer /\ ~win.attached
    <3>1. UNCHANGED <<win, events>>
      BY <1>12, <2>4, Zenon DEF UpdateWindowSurface, AttachNull
    <3> QED BY <1>a, <1>b, <2>1, <3>1
  <2> QED BY <2>2, <2>3, <2>4
<1>13. ASSUME DestroyWindowSurface PROVE RoleOK'
  <2>1. win' = [win EXCEPT !.surface = NoSurface] /\ UNCHANGED <<main, events>> /\ main # "none"
    BY <1>13 DEF DestroyWindowSurface, App
  <2>2. Backed(win') /\ win'.handshake = win.handshake
    BY <1>a, <2>1 DEF WindowStates
  <2> QED BY <1>b, <2>1, <2>2
<1> QED
  BY <1>1, <1>2, <1>3, <1>4, <1>5, <1>6, <1>7, <1>8, <1>9, <1>10, <1>11, <1>12, <1>13,
     Zenon DEF WindowNext

LEMMA WindowInitOK == WindowInit => WindowInv
<1> SUFFICES ASSUME WindowInit PROVE WindowInv
  OBVIOUS
<1>1. WindowOK
  BY DEF WindowInit, WindowOK, GoodWindows, WindowStates, Fits, Orderly, NoWindow
<1>2. StreamsOK
  BY EmptySeq, WindowAssumption DEF WindowInit, StreamsOK, NewRole
<1>3. RoleOK
  BY DEF WindowInit, RoleOK, NoWindow
<1>4. CallsOK
  <2>1. main = "none" /\ asked = FALSE /\ keep_hidden = FALSE
    BY Zenon DEF WindowInit
  <2> QED BY <2>1, Zenon DEF CallsOK
<1> QED BY <1>1, <1>2, <1>3, <1>4, WindowInvParts

THEOREM WindowInvariant == WindowSpec => []WindowInv
<1>1. WindowInv /\ [WindowNext]_windowVars => WindowInv'
  <2> SUFFICES ASSUME WindowInv, [WindowNext]_windowVars PROVE WindowInv'
    OBVIOUS
  <2>1. CallsOK'
    BY CallsStep, WindowInvParts
  <2>2. WindowOK' /\ StreamsOK' /\ RoleOK'
    BY WindowStep, RoleStep
  <2>3. (WindowInv <=> WindowOK /\ StreamsOK /\ RoleOK /\ CallsOK)'
    BY WindowInvParts, PTL
  <2> QED BY <2>1, <2>2, <2>3
<1> QED BY <1>1, WindowInitOK, PTL DEF WindowSpec

(* src/video/wayland/sdlop_wayland.c:1299-1304, for any sizes and any number *)
(* of requests and configures on their way: the compositor never has a       *)
(* reason to end the connection, but for the buffer attached again after a   *)
(* null buffer that took the place of one that could not be made.            *)
THEOREM NeverProtocolError == WindowSpec => []NoProtocolError
<1>1. WindowInv => NoProtocolError
  BY DEF WindowInv
<1> QED BY <1>1, WindowInvariant, PTL

(* The buffer has the size of the window, and a surface whose pixels are     *)
(* mapped the size of the buffer, whoever resized last and whichever         *)
(* allocation failed.                                                        *)
THEOREM SizesAlwaysAgree == WindowSpec => []SizesAgree
<1>1. WindowInv => SizesAgree
  BY DEF WindowInv, SizesAgree
<1> QED BY <1>1, WindowInvariant, PTL

-----------------------------------------------------------------------------
(* Keymaps: the objects of xkb. *)

\* A set of numbers that has some has a lowest.
LEMMA LowestExists ==
  ASSUME NEW S \in SUBSET Nat, S # {}
  PROVE  \E n \in S : \A m \in S : n <= m
<1>1. PICK n \in S : \A m \in S : ~(<<m, n>> \in OpToRel(<, Nat))
  BY NatLessThanWellFounded, WFMin, Zenon
<1>2. ASSUME NEW m \in S PROVE n <= m
  <2>1. m \in Nat /\ n \in Nat
    OBVIOUS
  <2>2. m < n => <<m, n>> \in OpToRel(<, Nat)
    BY <2>1 DEF OpToRel
  <2>3. ~(m < n)
    BY <1>1, <2>2, Zenon
  <2> QED BY <2>1, <2>3
<1> QED BY <1>2

\* The number of a new object is no other's, and not that of none.
LEMMA FreshIsFree ==
  ASSUME NEW objs, DOMAIN objs \in SUBSET Nat, IsFiniteSet(DOMAIN objs)
  PROVE  FreshId(objs) \in Nat \ {NoObject} /\ FreshId(objs) \notin DOMAIN objs
<1> DEFINE D == DOMAIN objs
           free == (1..Cardinality(D) + 1) \ D
<1>1. Cardinality(D) \in Nat
  BY FS_CardinalityType
<1>2. free # {}
  <2>1. Cardinality(1..Cardinality(D) + 1) = Cardinality(D) + 1
    BY <1>1, FS_Interval
  <2>2. ~(1..Cardinality(D) + 1 \subseteq D)
    <3>1. ASSUME 1..Cardinality(D) + 1 \subseteq D
          PROVE  Cardinality(1..Cardinality(D) + 1) <= Cardinality(D)
      BY <3>1, FS_Subset, Zenon
    <3> QED BY <1>1, <2>1, <3>1
  <2> QED BY <2>2
<1>3. free \in SUBSET Nat
  BY <1>1
<1>4. PICK n \in free : \A m \in free : n <= m
  <2> HIDE DEF free
  <2> QED BY <1>2, <1>3, LowestExists
<1>5. n \in 1..Cardinality(D) + 1 /\ n \notin D /\ \A k \in 1..n-1 : k \in D
  BY <1>1, <1>4
<1> HIDE DEF D
<1>6. \A k \in 1..Cardinality(D) + 1 : k \in Nat \ {0}
  BY <1>1
<1> QED BY <1>5, <1>6 DEF D, FreshId, NoObject

\* An object more, and objects less.
LEMMA NewAdds ==
  ASSUME NEW objs, NEW object, DOMAIN objs \in SUBSET Nat, IsFiniteSet(DOMAIN objs)
  PROVE  /\ DOMAIN New(objs, object) = DOMAIN objs \cup {FreshId(objs)}
         /\ DOMAIN New(objs, object) \in SUBSET Nat /\ IsFiniteSet(DOMAIN New(objs, object))
         /\ New(objs, object)[FreshId(objs)] = object
         /\ \A n \in DOMAIN objs : New(objs, object)[n] = objs[n]
<1> DEFINE id == FreshId(objs)
           more == New(objs, object)
<1>1. id \in Nat /\ id \notin DOMAIN objs
  BY FreshIsFree
<1>2. more = [n \in DOMAIN objs \cup {id} |-> IF n = id THEN object ELSE objs[n]]
  BY DEF New
<1> HIDE DEF id, more
<1>3. DOMAIN more = DOMAIN objs \cup {id}
  BY <1>2
<1>4. IsFiniteSet(DOMAIN objs \cup {id})
  BY FS_AddElement
<1>5. more[id] = object /\ \A n \in DOMAIN objs : more[n] = objs[n]
  BY <1>1, <1>2
<1> QED BY <1>1, <1>3, <1>4, <1>5 DEF id, more

\* A keymap of layout l with its two states, both of l, the live one with the
\* modifiers of the compositor, and the table made from it.
InUse(l) ==
  /\ l \in DOMAIN Layouts
  /\ xkb.ctx # NoObject /\ xkb.keymap # NoObject /\ xkb.st # NoObject /\ xkb.clean # NoObject
  /\ xkb.ctx # xkb.keymap /\ xkb.ctx # xkb.st /\ xkb.ctx # xkb.clean
  /\ xkb.keymap # xkb.st /\ xkb.keymap # xkb.clean /\ xkb.st # xkb.clean
  /\ DOMAIN objects = {xkb.ctx, xkb.keymap, xkb.st, xkb.clean}
  /\ objects[xkb.ctx] = Context /\ objects[xkb.keymap] = KeymapOf(l)
  /\ objects[xkb.st].kind = "state" /\ objects[xkb.st].layout = l
  /\ objects[xkb.clean] = StateOf(l)
  /\ symtab = BuildSymtab(StateOf(l))

\* No context, a context alone, or a keymap in use.
KeymapInv ==
  /\ xkb \in [ctx : Nat, keymap : Nat, st : Nat, clean : Nat]
  /\ xkb.ctx # NoObject => started /\ xkb_lib
  /\ \/ xkb = NoObjects /\ DOMAIN objects = {}
     \/ /\ xkb.ctx # NoObject
        /\ xkb.keymap = NoObject /\ xkb.st = NoObject /\ xkb.clean = NoObject
        /\ DOMAIN objects = {xkb.ctx} /\ objects[xkb.ctx] = Context
     \/ \E l \in DOMAIN Layouts : InUse(l)

LEMMA InvMeansOwned == ASSUME KeymapInv PROVE ObjectsOwned
<1> USE DEF KeymapInv, ObjectsOwned, NoObject
<1>1. CASE xkb = NoObjects /\ DOMAIN objects = {}
  BY <1>1 DEF NoObjects
<1>2. CASE /\ xkb.ctx # NoObject
           /\ xkb.keymap = NoObject /\ xkb.st = NoObject /\ xkb.clean = NoObject
           /\ DOMAIN objects = {xkb.ctx} /\ objects[xkb.ctx] = Context
  BY <1>2 DEF Context
<1>3. ASSUME NEW l \in DOMAIN Layouts, InUse(l) PROVE ObjectsOwned
  BY <1>3 DEF InUse, Context, KeymapOf, StateOf
<1> QED BY <1>1, <1>2, <1>3

LEMMA KeymapInvInit == ASSUME KeymapInit PROVE KeymapInv
BY DEF KeymapInit, KeymapInv, NoObjects, NoObject

\* What is alive can be added to.
LEMMA ObjectsFinite ==
  ASSUME KeymapInv
  PROVE  /\ DOMAIN objects \in SUBSET Nat /\ IsFiniteSet(DOMAIN objects)
         /\ DOMAIN objects \subseteq {xkb.ctx, xkb.keymap, xkb.st, xkb.clean}
<1> USE DEF KeymapInv, InUse
<1>1. DOMAIN objects \subseteq {xkb.ctx, xkb.keymap, xkb.st, xkb.clean}
  OBVIOUS
<1>2. {xkb.ctx, xkb.keymap, xkb.st, xkb.clean} \in SUBSET Nat
  OBVIOUS
<1>3. IsFiniteSet({xkb.ctx} \cup {xkb.keymap} \cup {xkb.st} \cup {xkb.clean})
  BY FS_Singleton, FS_Union
<1>4. {xkb.ctx, xkb.keymap, xkb.st, xkb.clean} = {xkb.ctx} \cup {xkb.keymap} \cup {xkb.st} \cup {xkb.clean}
  OBVIOUS
<1> QED BY <1>1, <1>2, <1>3, <1>4, FS_Subset

\* A keymap that could be made with its states takes the place of the one in use.
LEMMA SetKeymapMakes ==
  ASSUME NEW objs, NEW ctx \in Nat \ {NoObject}, NEW layout \in DOMAIN Layouts,
         DOMAIN objs \in SUBSET Nat, IsFiniteSet(DOMAIN objs),
         ctx \in DOMAIN objs, objs[ctx] = Context,
         DOMAIN objs \ {ctx} = {xkb.st, xkb.clean, xkb.keymap} \ {NoObject},
         SetKeymap(objs, ctx, layout, TRUE)
  PROVE  InUse(layout)' /\ xkb' \in [ctx : Nat, keymap : Nat, st : Nat, clean : Nat] /\ xkb'.ctx = ctx
<1> DEFINE km == FreshId(objs)
           withKm == New(objs, KeymapOf(layout))
           st == FreshId(withKm)
           withSt == New(withKm, StateOf(layout))
           clean == FreshId(withSt)
           withAll == New(withSt, StateOf(layout))
           old == {xkb.st, xkb.clean, xkb.keymap}
<1>1. /\ objects' = Unref(withAll, old)
      /\ xkb' = [ctx |-> ctx, keymap |-> km, st |-> st, clean |-> clean]
      /\ symtab' = BuildSymtab(withAll[clean])
  BY DEF SetKeymap
<1> HIDE DEF old
<1>2. /\ km \in Nat \ {NoObject} /\ km \notin DOMAIN objs
      /\ DOMAIN withKm = DOMAIN objs \cup {km} /\ withKm[km] = KeymapOf(layout)
      /\ \A n \in DOMAIN objs : withKm[n] = objs[n]
      /\ DOMAIN withKm \in SUBSET Nat /\ IsFiniteSet(DOMAIN withKm)
  BY FreshIsFree, NewAdds
<1> HIDE DEF km, withKm
<1>3. /\ st \in Nat \ {NoObject} /\ st \notin DOMAIN withKm
      /\ DOMAIN withSt = DOMAIN withKm \cup {st} /\ withSt[st] = StateOf(layout)
      /\ \A n \in DOMAIN withKm : withSt[n] = withKm[n]
      /\ DOMAIN withSt \in SUBSET Nat /\ IsFiniteSet(DOMAIN withSt)
  BY <1>2, FreshIsFree, NewAdds
<1> HIDE DEF st, withSt
<1>4. /\ clean \in Nat \ {NoObject} /\ clean \notin DOMAIN withSt
      /\ DOMAIN withAll = DOMAIN withSt \cup {clean} /\ withAll[clean] = StateOf(layout)
      /\ \A n \in DOMAIN withSt : withAll[n] = withSt[n]
  BY <1>3, FreshIsFree, NewAdds
<1> HIDE DEF clean, withAll
<1>5. \A n \in DOMAIN withAll \ old : n \in DOMAIN objects' /\ objects'[n] = withAll[n]
  BY <1>1 DEF Unref
<1>6. DOMAIN objects' = DOMAIN withAll \ old
  BY <1>1 DEF Unref
<1>a. DOMAIN objs = {ctx} \cup (old \ {NoObject}) /\ ctx \notin old
  BY DEF old
<1>7. /\ ctx \in DOMAIN withAll \ old /\ withAll[ctx] = Context
      /\ ctx # km /\ ctx # st /\ ctx # clean /\ km # st /\ km # clean /\ st # clean
      /\ withAll[km] = KeymapOf(layout) /\ withAll[st] = StateOf(layout)
  BY <1>2, <1>3, <1>4, <1>a
<1>8. DOMAIN objects' = {ctx, km, st, clean}
  <2>1. DOMAIN withAll = DOMAIN objs \cup {km, st, clean}
    BY <1>2, <1>3, <1>4
  <2>2. km \notin old /\ st \notin old /\ clean \notin old
    BY <1>2, <1>3, <1>4, <1>a
  <2> QED BY <1>6, <2>1, <2>2, <1>a
<1>9. /\ objects'[ctx] = Context /\ objects'[km] = KeymapOf(layout)
      /\ objects'[st] = StateOf(layout) /\ objects'[clean] = StateOf(layout)
  BY <1>4, <1>5, <1>6, <1>7, <1>8
<1>10. StateOf(layout).kind = "state" /\ StateOf(layout).layout = layout
  BY DEF StateOf
<1>11. symtab' = BuildSymtab(StateOf(layout))
  BY <1>1, <1>4
<1>12. /\ xkb'.ctx = ctx /\ xkb'.keymap = km /\ xkb'.st = st /\ xkb'.clean = clean
       /\ xkb' \in [ctx : Nat, keymap : Nat, st : Nat, clean : Nat]
  BY <1>1, <1>2, <1>3, <1>4
<1> QED
  BY <1>2, <1>3, <1>4, <1>7, <1>8, <1>9, <1>10, <1>11, <1>12 DEF InUse

\* However far a keymap gets, what is in use stays so or is replaced.
LEMMA InstallKeeps ==
  ASSUME KeymapInv, NEW layout \in DOMAIN Layouts, NEW reached \in Reached,
         Install(layout, reached), started'
  PROVE  KeymapInv'
<1> DEFINE ctx == IF xkb.ctx # NoObject THEN xkb.ctx ELSE FreshId(objects)
           objs == IF xkb.ctx # NoObject THEN objects ELSE New(objects, Context)
<1>1. xkb_lib => xkb_lib'
  BY Zenon DEF Install
<1>2. CASE UNCHANGED <<objects, xkb, symtab>>
  BY <1>1, <1>2 DEF KeymapInv, InUse
<1>3. /\ ctx \in Nat \ {NoObject} /\ DOMAIN objs \in SUBSET Nat /\ IsFiniteSet(DOMAIN objs)
      /\ ctx \in DOMAIN objs /\ objs[ctx] = Context
      /\ DOMAIN objs \ {ctx} = {xkb.st, xkb.clean, xkb.keymap} \ {NoObject}
  <2>1. CASE xkb.ctx # NoObject
    <3>1. ctx = xkb.ctx /\ objs = objects
      BY <2>1
    <3> HIDE DEF ctx, objs
    <3>2. /\ xkb.ctx \in Nat \ {NoObject} /\ xkb.ctx \in DOMAIN objects /\ objects[xkb.ctx] = Context
      BY <2>1 DEF KeymapInv, InUse, NoObjects
    <3>3. CASE \E l \in DOMAIN Layouts : InUse(l)
      <4>1. DOMAIN objects \ {xkb.ctx} = {xkb.st, xkb.clean, xkb.keymap} \ {NoObject}
        BY <3>3 DEF InUse
      <4> QED BY <3>1, <3>2, <4>1, ObjectsFinite
    <3>4. CASE /\ xkb.keymap = NoObject /\ xkb.st = NoObject /\ xkb.clean = NoObject
               /\ DOMAIN objects = {xkb.ctx}
      BY <3>1, <3>2, <3>4, ObjectsFinite
    <3> QED BY <2>1, <3>3, <3>4 DEF KeymapInv, NoObjects
  <2>2. CASE xkb.ctx = NoObject
    <3>1. xkb = NoObjects /\ DOMAIN objects = {}
      BY <2>2 DEF KeymapInv, InUse
    <3>2. /\ ctx \in Nat \ {NoObject} /\ DOMAIN objs = {} \cup {ctx} /\ objs[ctx] = Context
          /\ DOMAIN objs \in SUBSET Nat /\ IsFiniteSet(DOMAIN objs)
      BY <2>2, <3>1, ObjectsFinite, FreshIsFree, NewAdds
    <3> HIDE DEF ctx, objs
    <3> QED BY <3>1, <3>2 DEF NoObjects
  <2> QED BY <2>1, <2>2
<1>4. CASE /\ ~(~xkb_lib' \/ (reached \in {"nothing", "library"} /\ xkb.ctx = NoObject))
           /\ objects' = objs /\ xkb' = [xkb EXCEPT !.ctx = ctx] /\ UNCHANGED symtab
  <2>1. xkb_lib'
    BY <1>4
  <2>2. CASE xkb.ctx # NoObject
    <3>1. UNCHANGED <<objects, xkb, symtab>>
      BY <1>4, <2>2 DEF KeymapInv
    <3> QED BY <1>2, <3>1
  <2>3. CASE xkb.ctx = NoObject
    <3>1. xkb = NoObjects
      BY <2>3 DEF KeymapInv, InUse
    <3> HIDE DEF ctx, objs
    <3>2. /\ xkb' = [ctx |-> ctx, keymap |-> NoObject, st |-> NoObject, clean |-> NoObject]
          /\ DOMAIN objs = {ctx}
      BY <1>3, <1>4, <3>1 DEF NoObjects
    <3>3. xkb' \in [ctx : Nat, keymap : Nat, st : Nat, clean : Nat]
      BY <1>3, <3>2 DEF NoObject
    <3> QED BY <1>3, <1>4, <2>1, <3>2, <3>3 DEF KeymapInv
  <2> QED BY <2>2, <2>3
<1>5. CASE xkb_lib' /\ SetKeymap(objs, ctx, layout, TRUE)
  <2> HIDE DEF ctx, objs
  <2>1. InUse(layout)' /\ xkb' \in [ctx : Nat, keymap : Nat, st : Nat, clean : Nat] /\ xkb'.ctx = ctx
    BY <1>3, <1>5, SetKeymapMakes
  <2> QED BY <1>5, <2>1 DEF KeymapInv
<1>6. ASSUME xkb_lib', SetKeymap(objs, ctx, layout, FALSE), xkb.ctx # NoObject \/ reached \notin {"nothing", "library"}
      PROVE  KeymapInv'
  <2>1. objects' = objs /\ xkb' = [xkb EXCEPT !.ctx = ctx] /\ UNCHANGED symtab
    <3> HIDE DEF ctx, objs
    <3> QED BY <1>6 DEF SetKeymap
  <2> QED BY <1>4, <1>6, <2>1
<1>7. \/ UNCHANGED <<objects, xkb, symtab>>
      \/ /\ ~(~xkb_lib' \/ (reached \in {"nothing", "library"} /\ xkb.ctx = NoObject))
         /\ \/ objects' = objs /\ xkb' = [xkb EXCEPT !.ctx = ctx] /\ UNCHANGED symtab
            \/ SetKeymap(objs, ctx, layout, reached = "states")
  <2> HIDE DEF KeymapInv
  <2> QED BY DEF Install
<1>8. CASE reached = "states"
  <2> HIDE DEF ctx, objs
  <2> QED BY <1>2, <1>4, <1>5, <1>7, <1>8
<1>9. CASE reached # "states"
  <2> HIDE DEF ctx, objs
  <2>1. (reached = "states") = FALSE
    BY <1>9
  <2> QED BY <1>2, <1>4, <1>6, <1>7, <2>1
<1> QED BY <1>8, <1>9

\* Modifiers set to what they are.
LEMMA ModsAgain ==
  ASSUME NEW r, NEW k, NEW l, NEW m, r = [kind |-> k, layout |-> l, mods |-> m]
  PROVE  [r EXCEPT !.mods = m] = r
OBVIOUS

LEMMA KeymapStep == ASSUME KeymapInv, [KeymapNext]_keymapVars PROVE KeymapInv'
<1>1. CASE UNCHANGED keymapVars
  BY <1>1 DEF keymapVars, KeymapInv, InUse
<1>2. ASSUME NEW reached \in Reached, StartKeyboard(reached) PROVE KeymapInv'
  <2>1. started' /\ ~started
    BY <1>2, Zenon DEF StartKeyboard
  <2>2. xkb.keymap = NoObject
    <3>1. xkb.ctx = NoObject
      BY <2>1 DEF KeymapInv
    <3> QED BY <3>1 DEF KeymapInv, InUse, NoObjects
  <2>3. Install(Default, reached)
    BY <1>2, <2>2, Zenon DEF StartKeyboard
  <2>4. Default \in DOMAIN Layouts
    BY KeymapAssumption
  <2> QED BY <1>2, <2>1, <2>3, <2>4, InstallKeeps
<1>3. ASSUME NEW layout \in DOMAIN Layouts, NEW reached \in Reached, CompositorKeymap(layout, reached)
      PROVE  KeymapInv'
  BY <1>3, InstallKeeps DEF CompositorKeymap
<1>4. CASE StopKeyboard
  <2>1. xkb' = NoObjects /\ DOMAIN objects' = DOMAIN objects \ {xkb.st, xkb.clean, xkb.keymap, xkb.ctx}
    BY <1>4 DEF StopKeyboard, Unref
  <2>2. DOMAIN objects' = {}
    BY <2>1, ObjectsFinite
  <2> QED BY <2>1, <2>2 DEF KeymapInv, NoObjects, NoObject
<1>5. ASSUME NEW mods \in SUBSET {"shift", "caps"}, UpdateModifiers(mods) PROVE KeymapInv'
  <2>1. PICK l \in DOMAIN Layouts : InUse(l)
    BY <1>5 DEF UpdateModifiers, KeymapInv, NoObjects
  <2>2. /\ UNCHANGED <<started, xkb_lib, xkb, symtab>>
        /\ objects' = [objects EXCEPT ![xkb.st].mods = mods]
    BY <1>5 DEF UpdateModifiers
  <2>3. /\ DOMAIN objects' = DOMAIN objects
        /\ \A n \in DOMAIN objects \ {xkb.st} : objects'[n] = objects[n]
        /\ objects'[xkb.st] = [objects[xkb.st] EXCEPT !.mods = mods]
    BY <2>1, <2>2 DEF InUse
  <2>4. objects'[xkb.st].kind = "state" /\ objects'[xkb.st].layout = l
    BY <2>1, <2>3 DEF InUse
  <2>5. InUse(l)'
    BY <2>1, <2>2, <2>3, <2>4 DEF InUse
  <2> QED BY <2>2, <2>5 DEF KeymapInv
<1>6. ASSUME NEW sc \in Scancodes, NEW mods \in (SUBSET {"shift", "caps"}) \ {{}}, AskKey(sc, mods)
      PROVE  KeymapInv'
  <2>1. PICK l \in DOMAIN Layouts : InUse(l)
    BY <1>6 DEF AskKey, KeymapInv, NoObjects
  <2>2. /\ UNCHANGED <<started, xkb_lib, xkb, symtab>>
        /\ objects' = [objects EXCEPT ![xkb.clean].mods = {}]
    BY <1>6 DEF AskKey
  <2>3. /\ DOMAIN objects' = DOMAIN objects
        /\ \A n \in DOMAIN objects \ {xkb.clean} : objects'[n] = objects[n]
        /\ objects'[xkb.clean] = [objects[xkb.clean] EXCEPT !.mods = {}]
    BY <2>1, <2>2 DEF InUse
  <2>4. objects'[xkb.clean] = StateOf(l)
    <3> DEFINE r == objects[xkb.clean]
    <3>1. r = [kind |-> "state", layout |-> l, mods |-> {}]
      BY <2>1 DEF InUse, StateOf
    <3>2. r = StateOf(l) /\ objects'[xkb.clean] = [r EXCEPT !.mods = {}]
      BY <2>1, <2>3 DEF InUse
    <3> HIDE DEF r
    <3>3. [r EXCEPT !.mods = {}] = r
      BY <3>1, ModsAgain, Zenon
    <3> QED BY <3>2, <3>3, Zenon
  <2>5. InUse(l)'
    BY <2>1, <2>2, <2>3, <2>4 DEF InUse
  <2> QED BY <2>2, <2>5 DEF KeymapInv
<1> QED
  BY <1>1, <1>2, <1>3, <1>4, <1>5, <1>6 DEF KeymapNext

\* Over keymaps that replace each other, fail halfway or end with the session, in
\* set_keymap, the two installs above it and SDLOP_KeyboardQuit: every object of
\* xkb is the one some pointer owns, and the states are of the keymap in use.
THEOREM ObjectsAlwaysOwned == KeymapSpec => []ObjectsOwned
<1>1. KeymapSpec => []KeymapInv
  BY KeymapInvInit, KeymapStep, PTL DEF KeymapSpec
<1>2. KeymapInv => ObjectsOwned
  BY InvMeansOwned
<1> QED BY <1>1, <1>2, PTL

-----------------------------------------------------------------------------
(* Keymaps: the table of symbols. *)

LEMMA Remainder ==
  ASSUME NEW n \in Nat \ {0}, NEW q \in Int, NEW r \in 0..n-1
  PROVE  (q * n + r) % n = r
<1> DEFINE i == q * n + r
           d == i \div n
           m == i % n
<1>1. i \in Int
  OBVIOUS
<1> HIDE DEF i
<1>2. m \in 0..n-1
  BY <1>1
<1>3. d \in Int
  BY <1>1
<1>4. i = n * d + m
  BY <1>1
<1> HIDE DEF d, m
<1>5. (q - d) * n = m - r
  BY <1>2, <1>3, <1>4 DEF i
<1>6. q - d = 0
  <2>1. ASSUME q - d >= 1 PROVE FALSE
    <3>1. q - d - 1 \in Nat /\ (q - d - 1) * n \in Nat
      BY <1>3, <2>1
    <3>2. (q - d - 1) * n = (q - d) * n - n
      BY <1>3
    <3> QED BY <1>2, <1>5, <3>1, <3>2
  <2>2. ASSUME q - d <= -1 PROVE FALSE
    <3>1. d - q - 1 \in Nat /\ (d - q - 1) * n \in Nat
      BY <1>3, <2>2
    <3>2. (d - q - 1) * n = -((q - d) * n) - n
      BY <1>3
    <3> QED BY <1>2, <1>3, <1>5, <3>1, <3>2
  <2>3. q - d \in Int
    BY <1>3
  <2> QED BY <2>1, <2>2, <2>3
<1>7. m = r
  BY <1>2, <1>5, <1>6
<1> QED BY <1>7 DEF m, i

LEMMA SlotsFinite ==
  TableSize \in Nat \ {0} /\ IsFiniteSet(Slots) /\ Cardinality(Slots) = TableSize
<1>1. TableSize \in Nat \ {0}
  <2>1. {e \in 1..KeyMax : Evdev[e] # 0} \subseteq 1..KeyMax /\ IsFiniteSet(1..KeyMax)
    BY KeymapAssumption, FS_Interval
  <2>2. Cardinality({e \in 1..KeyMax : Evdev[e] # 0}) \in Nat
    BY <2>1, FS_Subset, FS_CardinalityType
  <2> QED BY <2>2, KeymapAssumption
<1>2. 0 \in Int /\ TableSize - 1 \in Int /\ ~(0 > TableSize - 1) /\ TableSize - 1 - 0 + 1 = TableSize
  BY <1>1
<1>3. IsFiniteSet(0..TableSize - 1) /\ Cardinality(0..TableSize - 1) = TableSize
  BY <1>2, FS_Interval
<1> QED BY <1>1, <1>3 DEF Slots

\* From any slot the search goes round the whole table.
LEMMA SlotsReached ==
  ASSUME NEW s \in Nat
  PROVE  /\ \A i \in Slots : Slot(s, i) \in Slots
         /\ \A j \in Slots : \E i \in Slots : Slot(s, i) = j
<1>1. TableSize \in Nat \ {0}
  BY SlotsFinite
<1>2. ASSUME NEW i \in Slots PROVE Slot(s, i) \in Slots
  <2>1. s + i \in Nat
    BY <1>1 DEF Slots
  <2>2. (s + i) % TableSize \in 0..(TableSize - 1)
    BY <1>1, <2>1
  <2> QED BY <2>2 DEF Slot, Slots
<1>3. ASSUME NEW j \in Slots PROVE \E i \in Slots : Slot(s, i) = j
  <2> DEFINE x == j - s
             i == x % TableSize
             q == x \div TableSize
  <2>1. x \in Int /\ j \in 0..TableSize - 1
    BY <1>1 DEF Slots
  <2>2. x = j - s
    OBVIOUS
  <2> HIDE DEF x
  <2>3. i \in 0..TableSize - 1
    BY <1>1, <2>1
  <2>4. q \in Int
    BY <1>1, <2>1
  <2>5. x = TableSize * q + i
    BY <1>1, <2>1
  <2> HIDE DEF i, q
  <2>6. s + i = (-q) * TableSize + j
    BY <1>1, <2>1, <2>2, <2>3, <2>4, <2>5
  <2>7. ((-q) * TableSize + j) % TableSize = j
    BY <1>1, <2>1, <2>4, Remainder
  <2> QED BY <2>3, <2>6, <2>7 DEF Slot, Slots
<1> QED BY <1>2, <1>3

\* A search that can stop does, at the first slot it can.
LEMMA ProbeStops ==
  ASSUME NEW t, NEW s \in Nat, \E j \in Slots : t[j].sym \in {0, s}
  PROVE  \E i \in Slots : /\ Stops(t, s, i) /\ \A j \in 0..(i - 1) : ~Stops(t, s, j)
                          /\ Probe(t, s) = Slot(s, i)
<1> DEFINE S == {i \in Slots : Stops(t, s, i)}
<1>1. Slots \in SUBSET Nat
  BY KeymapAssumption DEF Slots
<1>2. S # {} /\ S \in SUBSET Nat
  BY <1>1, SlotsReached DEF Stops
<1>3. PICK n \in S : \A m \in S : n <= m
  <2> HIDE DEF S
  <2> QED BY <1>2, LowestExists
<1>4. \A j \in 0..(n - 1) : j \in Slots /\ ~(n <= j)
  BY <1>3, KeymapAssumption DEF Slots
<1>5. n \in Slots /\ Stops(t, s, n) /\ \A j \in 0..(n - 1) : ~Stops(t, s, j)
  BY <1>3, <1>4
<1> QED BY <1>5 DEF Probe

\* It stops nowhere else.
LEMMA ProbeAt ==
  ASSUME NEW t, NEW s \in Nat, NEW i \in Slots,
         Stops(t, s, i), \A j \in 0..(i - 1) : ~Stops(t, s, j)
  PROVE  Probe(t, s) = Slot(s, i)
<1> DEFINE n == CHOOSE k \in Slots : Stops(t, s, k) /\ \A j \in 0..(k - 1) : ~Stops(t, s, j)
<1>1. n \in Slots /\ Stops(t, s, n) /\ \A j \in 0..(n - 1) : ~Stops(t, s, j)
  OBVIOUS
<1>2. Probe(t, s) = Slot(s, n)
  BY DEF Probe
<1> HIDE DEF n
<1>3. n = i
  BY <1>1, KeymapAssumption DEF Slots
<1> QED BY <1>2, <1>3

Tables == [Slots -> [sym : Nat, sc : Nat]]
Taken(t) == {j \in Slots : t[j].sym # 0}
HasRoom(t) == \E j \in Slots : t[j].sym = 0
\* The search for a symbol of the table finds its slot.
Findable(t) == \A j \in Taken(t) : Probe(t, t[j].sym) = j

\* A symbol that is put in is in one slot, the others are as they were, and all
\* are found.
LEMMA PutFinds ==
  ASSUME NEW t \in Tables, HasRoom(t), Findable(t), NEW s \in Nat \ {0}, NEW c \in Nat
  PROVE  /\ SymtabPut(t, s, c) \in Tables /\ Findable(SymtabPut(t, s, c))
         /\ \E p \in Slots : /\ SymtabPut(t, s, c)[p] = [sym |-> s, sc |-> c] /\ t[p].sym \in {0, s}
                             /\ \A j \in Slots \ {p} : SymtabPut(t, s, c)[j] = t[j] /\ t[j].sym # s
<1> DEFINE p == Probe(t, s)
           u == SymtabPut(t, s, c)
<1>1. PICK i \in Slots : /\ Stops(t, s, i) /\ \A j \in 0..(i - 1) : ~Stops(t, s, j)
                         /\ p = Slot(s, i)
  BY ProbeStops DEF HasRoom
<1>2. p \in Slots /\ t[p].sym \in {0, s}
  BY <1>1, SlotsReached DEF Stops
<1>3. u = [t EXCEPT ![p] = [sym |-> s, sc |-> c]]
  BY DEF SymtabPut
<1>4. \A j \in Slots \ {p} : t[j].sym # s
  BY DEF Findable, Taken
<1> HIDE DEF p, u
<1>5. u \in Tables /\ u[p] = [sym |-> s, sc |-> c] /\ \A j \in Slots \ {p} : u[j] = t[j]
  BY <1>2, <1>3 DEF Tables
<1>6. u[p].sym = s
  BY <1>5
<1>7. ASSUME NEW j \in Taken(u) PROVE Probe(u, u[j].sym) = j
  <2> DEFINE r == u[j].sym
  <2>1. j \in Slots /\ r # 0 /\ r \in Nat
    BY <1>5 DEF Tables, Taken
  <2>2. CASE j = p
    <3>1. r = s
      BY <1>6, <2>2
    <3>2. Stops(u, s, i)
      BY <1>1, <1>6 DEF Stops
    <3>3. ASSUME NEW k \in 0..(i - 1) PROVE ~Stops(u, s, k)
      <4>1. k \in Slots
        BY <1>1, KeymapAssumption DEF Slots
      <4>2. Slot(s, k) \in Slots /\ t[Slot(s, k)].sym \notin {0, s}
        BY <1>1, <4>1, SlotsReached DEF Stops
      <4>3. u[Slot(s, k)] = t[Slot(s, k)]
        BY <1>2, <1>5, <4>2
      <4> QED BY <4>2, <4>3 DEF Stops
    <3> HIDE DEF r
    <3>4. Probe(u, s) = Slot(s, i)
      BY <1>1, <3>2, <3>3, ProbeAt
    <3> QED BY <1>1, <2>2, <3>1, <3>4 DEF r
  <2>3. CASE j # p
    <3>1. u[j] = t[j] /\ r = t[j].sym /\ r # s /\ j \in Taken(t) /\ Probe(t, r) = j
      BY <1>4, <1>5, <2>1, <2>3 DEF Taken, Findable
    <3> HIDE DEF r
    <3>2. PICK k \in Slots : /\ Stops(t, r, k) /\ \A m \in 0..(k - 1) : ~Stops(t, r, m)
                             /\ Probe(t, r) = Slot(r, k)
      <4>1. \E m \in Slots : t[m].sym \in {0, r}
        BY DEF HasRoom
      <4> QED BY <2>1, <4>1, ProbeStops
    <3>3. Stops(u, r, k)
      BY <3>1, <3>2 DEF Stops
    <3>4. ASSUME NEW m \in 0..(k - 1) PROVE ~Stops(u, r, m)
      <4>1. m \in Slots
        BY <3>2, KeymapAssumption DEF Slots
      <4>2. Slot(r, m) \in Slots /\ t[Slot(r, m)].sym \notin {0, r}
        BY <2>1, <3>2, <4>1, SlotsReached DEF Stops
      <4>3. u[Slot(r, m)].sym \in {s, t[Slot(r, m)].sym}
        BY <1>5, <1>6, <4>2
      <4> QED BY <3>1, <4>2, <4>3 DEF Stops
    <3>5. Probe(u, r) = Slot(r, k)
      BY <2>1, <3>3, <3>4, ProbeAt
    <3> QED BY <3>1, <3>2, <3>5 DEF r
  <2> QED BY <2>2, <2>3
<1>8. Findable(u)
  BY <1>7 DEF Findable
<1>9. \E q \in Slots : /\ u[q] = [sym |-> s, sc |-> c] /\ t[q].sym \in {0, s}
                       /\ \A j \in Slots \ {q} : u[j] = t[j] /\ t[j].sym # s
  BY <1>2, <1>4, <1>5
<1> QED BY <1>5, <1>8, <1>9 DEF u

\* What is found of a symbol is what its slot has, and nothing if none has it.
LEMMA GetFinds ==
  ASSUME NEW t \in Tables, HasRoom(t), Findable(t), NEW s \in Nat \ {0}
  PROVE  /\ \A j \in Slots : t[j].sym = s => SymtabGet(t, s) = t[j].sc
         /\ SymtabGet(t, s) # 0 => \E j \in Slots : t[j].sym = s /\ t[j].sc = SymtabGet(t, s)
<1> DEFINE p == Probe(t, s)
<1>1. p \in Slots
  BY ProbeStops, SlotsReached DEF HasRoom
<1>2. SymtabGet(t, s) = IF t[p].sym = s THEN t[p].sc ELSE 0
  BY DEF SymtabGet
<1>3. \A j \in Slots : t[j].sym = s => p = j
  BY DEF Findable, Taken
<1> HIDE DEF p
<1> QED BY <1>1, <1>2, <1>3

\* A table that is not full has room.
LEMMA RoomLeft ==
  ASSUME NEW t, Cardinality(Taken(t)) < TableSize
  PROVE  HasRoom(t)
<1>1. TableSize \in Nat /\ IsFiniteSet(Slots) /\ Cardinality(Slots) = TableSize
  BY SlotsFinite
<1>2. Taken(t) # Slots
  BY <1>1
<1> QED BY <1>2 DEF Taken, HasRoom

\* A symbol that is put in takes one more slot at most.
LEMMA PutTakes ==
  ASSUME NEW t \in Tables, HasRoom(t), Findable(t), NEW s \in Nat \ {0}, NEW c \in Nat
  PROVE  /\ Cardinality(Taken(t)) \in Nat
         /\ Cardinality(Taken(SymtabPut(t, s, c))) \in Nat
         /\ Cardinality(Taken(SymtabPut(t, s, c))) <= Cardinality(Taken(t)) + 1
<1> DEFINE u == SymtabPut(t, s, c)
<1>1. \E p \in Slots : /\ u[p] = [sym |-> s, sc |-> c] /\ t[p].sym \in {0, s}
                       /\ \A j \in Slots \ {p} : u[j] = t[j] /\ t[j].sym # s
  BY PutFinds
<1> HIDE DEF u
<1>2a. PICK p \in Slots : \A j \in Slots \ {p} : u[j] = t[j]
  BY <1>1
<1>2. Taken(u) \subseteq Taken(t) \cup {p}
  BY <1>2a DEF Taken
<1>3. IsFiniteSet(Slots) /\ Taken(t) \subseteq Slots
  BY SlotsFinite DEF Taken
<1>4. IsFiniteSet(Taken(t))
  BY <1>3, FS_Subset
<1>5. /\ IsFiniteSet(Taken(t) \cup {p})
      /\ Cardinality(Taken(t) \cup {p}) = Cardinality(Taken(t)) \/ Cardinality(Taken(t) \cup {p}) = Cardinality(Taken(t)) + 1
  BY <1>4, FS_AddElement
<1>6. IsFiniteSet(Taken(u)) /\ Cardinality(Taken(u)) <= Cardinality(Taken(t) \cup {p})
  BY <1>2, <1>5, FS_Subset
<1>7. Cardinality(Taken(u)) \in Nat /\ Cardinality(Taken(t)) \in Nat
  BY <1>4, <1>6, FS_CardinalityType
<1> QED BY <1>5, <1>6, <1>7 DEF u

Has(t, s) == \E j \in Slots : t[j].sym = s

\* What a table has after a symbol is put in.
LEMMA PutKeeps ==
  ASSUME NEW t \in Tables, HasRoom(t), Findable(t), NEW s \in Nat \ {0}, NEW c \in Nat,
         NEW u, u = SymtabPut(t, s, c)
  PROVE  /\ \A j \in Taken(u) : u[j] = [sym |-> s, sc |-> c] \/ (j \in Taken(t) /\ u[j] = t[j])
         /\ \A x \in Nat \ {0} : Has(t, x) \/ x = s => Has(u, x)
<1>1. \E p \in Slots : /\ u[p] = [sym |-> s, sc |-> c] /\ t[p].sym \in {0, s}
                       /\ \A j \in Slots \ {p} : u[j] = t[j] /\ t[j].sym # s
  BY PutFinds
<1>2. PICK p \in Slots : /\ u[p] = [sym |-> s, sc |-> c] /\ t[p].sym \in {0, s}
                         /\ \A j \in Slots \ {p} : u[j] = t[j]
  BY <1>1
<1>3. u[p].sym = s
  BY <1>2
<1> QED BY <1>2, <1>3 DEF Taken, Has

\* Code d enters symbol s.
Enters(l, d, s) ==
  /\ Evdev[d] # 0 /\ Base(l, d) # 0
  /\ s = Base(l, d) \/ (Base(l, d) \in 65..90 /\ s = Base(l, d) + 32)
Keyed(e) == {d \in 1..e : Evdev[d] # 0}

\* What the table has after the codes up to e.
Holds(t, l, e) ==
  /\ t \in Tables /\ Findable(t)
  /\ Cardinality(Taken(t)) <= 2 * Cardinality(Keyed(e))
  /\ \A j \in Taken(t) : \E d \in 1..e : Enters(l, d, t[j].sym) /\ t[j].sc = Evdev[d]
  /\ \A d \in 1..e, s \in Nat : Enters(l, d, s) => Has(t, s)

LEMMA KeyedFinite ==
  ASSUME NEW e \in 0..KeyMax
  PROVE  /\ IsFiniteSet(Keyed(e)) /\ Cardinality(Keyed(e)) \in Nat
         /\ 2 * Cardinality(Keyed(e)) < TableSize
<1>1. KeyMax \in Nat /\ IsFiniteSet(1..KeyMax)
  BY KeymapAssumption, FS_Interval
<1>2. Keyed(KeyMax) \subseteq 1..KeyMax /\ Keyed(e) \subseteq Keyed(KeyMax)
  BY <1>1 DEF Keyed
<1>3. IsFiniteSet(Keyed(KeyMax))
  BY <1>1, <1>2, FS_Subset
<1>4. IsFiniteSet(Keyed(e)) /\ Cardinality(Keyed(e)) <= Cardinality(Keyed(KeyMax))
  BY <1>2, <1>3, FS_Subset
<1>5. Cardinality(Keyed(e)) \in Nat /\ Cardinality(Keyed(KeyMax)) \in Nat
  BY <1>3, <1>4, FS_CardinalityType
<1>6. TableSize \in Nat /\ TableSize > 2 * Cardinality(Keyed(KeyMax))
  BY KeymapAssumption DEF Keyed
<1> QED BY <1>4, <1>5, <1>6

LEMMA KeyedGrows ==
  ASSUME NEW e \in 1..KeyMax
  PROVE  Cardinality(Keyed(e)) = Cardinality(Keyed(e - 1)) + (IF Evdev[e] # 0 THEN 1 ELSE 0)
<1>1. KeyMax \in Nat /\ e - 1 \in 0..KeyMax
  BY KeymapAssumption
<1>2. IsFiniteSet(Keyed(e - 1))
  BY <1>1, KeyedFinite
<1>3. CASE Evdev[e] # 0
  <2>1. Keyed(e) = Keyed(e - 1) \cup {e} /\ e \notin Keyed(e - 1)
    BY <1>1, <1>3 DEF Keyed
  <2> QED BY <1>2, <1>3, <2>1, FS_AddElement
<1>4. CASE Evdev[e] = 0
  <2>1. Keyed(e) = Keyed(e - 1)
    BY <1>1, <1>4 DEF Keyed
  <2>2. Cardinality(Keyed(e - 1)) \in Nat
    BY <1>1, KeyedFinite
  <2> QED BY <1>4, <2>1, <2>2
<1> QED BY <1>3, <1>4

LEMMA BaseSymbol ==
  ASSUME NEW l \in DOMAIN Layouts, NEW e \in Nat
  PROVE  OneSym(StateOf(l), e) = Base(l, e) /\ Base(l, e) \in Nat
<1>1. StateOf(l).layout = l /\ StateOf(l).mods = {}
  BY DEF StateOf
<1>2. "shift" \notin StateOf(l).mods /\ "caps" \notin StateOf(l).mods
  BY <1>1
<1> QED BY <1>1, <1>2, KeymapAssumption DEF OneSym, Base

\* One code more.
LEMMA EnterFinds ==
  ASSUME NEW l \in DOMAIN Layouts, NEW e \in 1..KeyMax, NEW t, Holds(t, l, e - 1)
  PROVE  Holds(EnterKey(t, StateOf(l), e), l, e)
<1> DEFINE sym == Base(l, e)
           sc == Evdev[e]
           u == SymtabPut(t, sym, sc)
           v == SymtabPut(u, sym + 32, sc)
           more == EnterKey(t, StateOf(l), e)
<1>1. KeyMax \in Nat /\ e - 1 \in 0..KeyMax /\ e \in 0..KeyMax /\ e \in Nat
  BY KeymapAssumption
<1>2. sym \in Nat /\ sc \in Nat
  BY <1>1, BaseSymbol, KeymapAssumption
<1>3. more = IF sc = 0 \/ sym = 0 THEN t ELSE IF sym \in 65..90 THEN v ELSE u
  BY <1>1, BaseSymbol DEF EnterKey
<1>4. \A d \in 1..e : d = e \/ d \in 1..e - 1
  BY <1>1
<1>5. \A d \in 1..e - 1 : d \in 1..e
  BY <1>1
<1>6. \A s : Enters(l, e, s) <=> sc # 0 /\ sym # 0 /\ (s = sym \/ (sym \in 65..90 /\ s = sym + 32))
  BY DEF Enters
<1>7. /\ Cardinality(Keyed(e)) \in Nat /\ Cardinality(Keyed(e - 1)) \in Nat /\ TableSize \in Nat
      /\ 2 * Cardinality(Keyed(e)) < TableSize /\ 2 * Cardinality(Keyed(e - 1)) < TableSize
      /\ Cardinality(Keyed(e)) = Cardinality(Keyed(e - 1)) + (IF sc # 0 THEN 1 ELSE 0)
  BY <1>1, KeyedFinite, KeyedGrows, SlotsFinite
<1>8. /\ t \in Tables /\ Findable(t)
      /\ Cardinality(Taken(t)) <= 2 * Cardinality(Keyed(e - 1))
      /\ \A j \in Taken(t) : \E d \in 1..e - 1 : Enters(l, d, t[j].sym) /\ t[j].sc = Evdev[d]
      /\ \A d \in 1..e - 1, s \in Nat : Enters(l, d, s) => Has(t, s)
  BY DEF Holds
<1>9. Cardinality(Taken(t)) \in Nat
  BY <1>8, SlotsFinite, FS_Subset, FS_CardinalityType DEF Taken
<1>10. HasRoom(t)
  BY <1>7, <1>8, <1>9, RoomLeft
<1> HIDE DEF more, sym, sc
<1>11. CASE sc = 0 \/ sym = 0
  <2>1. more = t /\ \A s : ~Enters(l, e, s)
    BY <1>3, <1>6, <1>11
  <2>2. Cardinality(Taken(t)) <= 2 * Cardinality(Keyed(e))
    BY <1>7, <1>8, <1>9
  <2>3. \A j \in Taken(t) : \E d \in 1..e : Enters(l, d, t[j].sym) /\ t[j].sc = Evdev[d]
    BY <1>5, <1>8
  <2>4. \A d \in 1..e, s \in Nat : Enters(l, d, s) => Has(t, s)
    BY <1>4, <1>8, <2>1
  <2>5. Holds(t, l, e)
    BY <1>8, <2>2, <2>3, <2>4, Zenon DEF Holds
  <2> QED BY <2>1, <2>5 DEF more
<1>12. CASE sc # 0 /\ sym # 0
  <2>1. /\ u \in Tables /\ Findable(u)
        /\ Cardinality(Taken(u)) \in Nat /\ Cardinality(Taken(u)) <= Cardinality(Taken(t)) + 1
        /\ \A j \in Taken(u) : u[j] = [sym |-> sym, sc |-> sc] \/ (j \in Taken(t) /\ u[j] = t[j])
        /\ \A x \in Nat \ {0} : Has(t, x) \/ x = sym => Has(u, x)
    <3>1. sym \in Nat \ {0} /\ sc \in Nat /\ t \in Tables /\ Findable(t)
      BY <1>2, <1>8, <1>12
    <3>2. u \in Tables /\ Findable(u)
      BY <1>10, <3>1, PutFinds
    <3>3. Cardinality(Taken(u)) \in Nat /\ Cardinality(Taken(u)) <= Cardinality(Taken(t)) + 1
      BY <1>10, <3>1, PutTakes
    <3>4. /\ \A j \in Taken(u) : u[j] = [sym |-> sym, sc |-> sc] \/ (j \in Taken(t) /\ u[j] = t[j])
          /\ \A x \in Nat \ {0} : Has(t, x) \/ x = sym => Has(u, x)
      BY <1>10, <3>1, PutKeeps
    <3> QED BY <3>2, <3>3, <3>4
  <2> HIDE DEF u
  <2>2. \A j \in Taken(u) : \E d \in 1..e : Enters(l, d, u[j].sym) /\ u[j].sc = Evdev[d]
    BY <1>1, <1>5, <1>6, <1>8, <1>12, <2>1 DEF sc
  <2>3. \A d \in 1..e, s \in Nat : Enters(l, d, s) => s # 0
    BY <1>1, BaseSymbol DEF Enters
  <2>4. \A d \in 1..e - 1, s \in Nat : Enters(l, d, s) => Has(u, s)
    BY <1>5, <1>8, <2>1, <2>3
  <2>5. CASE sym \notin 65..90
    <3>1. \A d \in 1..e, s \in Nat : Enters(l, d, s) => Has(u, s)
      BY <1>2, <1>4, <1>6, <1>12, <2>1, <2>4, <2>5
    <3>2. Cardinality(Taken(u)) <= 2 * Cardinality(Keyed(e))
      BY <1>7, <1>8, <1>9, <1>12, <2>1
    <3>3. Holds(u, l, e)
      BY <2>1, <2>2, <3>1, <3>2 DEF Holds
    <3> QED BY <1>3, <1>12, <2>5, <3>3 DEF more
  <2>6. CASE sym \in 65..90
    <3>1. HasRoom(u)
      <4>1. Cardinality(Taken(u)) < TableSize
        BY <1>7, <1>8, <1>9, <1>12, <2>1
      <4> QED BY <4>1, RoomLeft
    <3>2. sym + 32 \in Nat \ {0}
      BY <2>6
    <3>3. /\ v \in Tables /\ Findable(v)
          /\ Cardinality(Taken(v)) \in Nat /\ Cardinality(Taken(v)) <= Cardinality(Taken(u)) + 1
          /\ \A j \in Taken(v) : v[j] = [sym |-> sym + 32, sc |-> sc] \/ (j \in Taken(u) /\ v[j] = u[j])
          /\ \A x \in Nat \ {0} : Has(u, x) \/ x = sym + 32 => Has(v, x)
      BY <1>2, <2>1, <3>1, <3>2, PutFinds, PutTakes, PutKeeps
    <3> HIDE DEF v
    <3>4. \A j \in Taken(v) : \E d \in 1..e : Enters(l, d, v[j].sym) /\ v[j].sc = Evdev[d]
      <4>1. Enters(l, e, sym + 32) /\ e \in 1..e
        BY <1>1, <1>6, <1>12, <2>6
      <4> QED BY <2>2, <3>3, <4>1 DEF sc
    <3>5. \A d \in 1..e, s \in Nat : Enters(l, d, s) => Has(v, s)
      <4>1. Has(v, sym) /\ Has(v, sym + 32)
        BY <1>2, <1>12, <2>1, <3>2, <3>3
      <4> QED BY <1>4, <1>5, <1>6, <2>3, <2>4, <3>3, <4>1
    <3>6. Cardinality(Taken(v)) <= 2 * Cardinality(Keyed(e))
      BY <1>7, <1>8, <1>9, <1>12, <2>1, <3>3
    <3>7. Holds(v, l, e)
      BY <3>3, <3>4, <3>5, <3>6 DEF Holds
    <3> QED BY <1>3, <1>12, <2>6, <3>7 DEF more
  <2> QED BY <2>5, <2>6
<1> QED BY <1>11, <1>12

\* The recursion of build_symtab is one that a function meets.
LEMMA BuildExists ==
  ASSUME NEW state, NEW n \in 0..KeyMax
  PROVE  \E g : g = [e \in 0..n |-> IF e = 0 THEN EmptyTable ELSE EnterKey(g[e - 1], state, e)]
<1> DEFINE Met(m) ==
             \E g : g = [e \in 0..m |-> IF e = 0 THEN EmptyTable ELSE EnterKey(g[e - 1], state, e)]
           S == {m \in 0..KeyMax : ~Met(m)}
<1>1. KeyMax \in Nat
  BY KeymapAssumption
<1>2. Met(0)
  <2> DEFINE g == [e \in 0..0 |-> EmptyTable]
  <2>1. g = [e \in 0..0 |-> IF e = 0 THEN EmptyTable ELSE EnterKey(g[e - 1], state, e)]
    OBVIOUS
  <2> QED BY <2>1
<1>3. ASSUME NEW m \in 1..KeyMax, Met(m - 1) PROVE Met(m)
  <2>1. PICK g : g = [e \in 0..m - 1 |-> IF e = 0 THEN EmptyTable ELSE EnterKey(g[e - 1], state, e)]
    BY <1>3
  <2> DEFINE h == [e \in 0..m |-> IF e = m THEN EnterKey(g[m - 1], state, m) ELSE g[e]]
  <2>2. \A e \in 0..m - 1 : h[e] = g[e]
    BY <1>1
  <2>3. \A e \in 0..m : h[e] = IF e = 0 THEN EmptyTable ELSE EnterKey(h[e - 1], state, e)
    <3>1. ASSUME NEW e \in 0..m PROVE h[e] = IF e = 0 THEN EmptyTable ELSE EnterKey(h[e - 1], state, e)
      <4>1. CASE e = m
        <5>1. h[e] = EnterKey(g[m - 1], state, m) /\ m - 1 \in 0..m - 1 /\ e # 0
          BY <4>1
        <5> HIDE DEF h
        <5> QED BY <2>2, <4>1, <5>1
      <4>2. CASE e # m
        <5>1. e \in 0..m - 1 /\ (e # 0 => e - 1 \in 0..m - 1)
          BY <1>1, <4>2
        <5>2. g[e] = IF e = 0 THEN EmptyTable ELSE EnterKey(g[e - 1], state, e)
          BY <2>1, <5>1
        <5> HIDE DEF h
        <5> QED BY <2>2, <5>1, <5>2
      <4> QED BY <4>1, <4>2
    <3> QED BY <3>1
  <2>4. h = [e \in 0..m |-> h[e]]
    OBVIOUS
  <2> HIDE DEF h
  <2>5. h = [e \in 0..m |-> IF e = 0 THEN EmptyTable ELSE EnterKey(h[e - 1], state, e)]
    BY <2>3, <2>4
  <2> QED BY <2>5
<1> HIDE DEF Met
<1>4. S = {}
  <2> SUFFICES ASSUME S # {} PROVE FALSE
    OBVIOUS
  <2>1. S \in SUBSET Nat
    BY <1>1
  <2>2. PICK m \in S : \A k \in S : m <= k
    <3> HIDE DEF S
    <3> QED BY <2>1, LowestExists
  <2>3. m \in 0..KeyMax /\ ~Met(m) /\ m # 0
    BY <1>2, <2>2
  <2>4. m \in 1..KeyMax /\ m - 1 \in 0..KeyMax /\ m - 1 \notin S
    BY <1>1, <2>2, <2>3
  <2> QED BY <1>3, <2>3, <2>4
<1> QED BY <1>4 DEF Met

\* The table of a layout has what its codes enter.
LEMMA BuildFinds ==
  ASSUME NEW l \in DOMAIN Layouts
  PROVE  Holds(BuildSymtab(StateOf(l)), l, KeyMax)
<1> DEFINE state == StateOf(l)
           f == CHOOSE g : g = [e \in 0..KeyMax |->
                                  IF e = 0 THEN EmptyTable ELSE EnterKey(g[e - 1], state, e)]
           S == {e \in 0..KeyMax : ~Holds(f[e], l, e)}
<1>1. KeyMax \in Nat
  BY KeymapAssumption
<1>2. BuildSymtab(state) = f[KeyMax]
  BY DEF BuildSymtab
<1>3. f = [e \in 0..KeyMax |-> IF e = 0 THEN EmptyTable ELSE EnterKey(f[e - 1], state, e)]
  <2>1. KeyMax \in 0..KeyMax
    BY <1>1
  <2>2. \E g : g = [e \in 0..KeyMax |-> IF e = 0 THEN EmptyTable ELSE EnterKey(g[e - 1], state, e)]
    BY <2>1, BuildExists, Zenon
  <2> QED BY <2>2, Zenon
<1> HIDE DEF f
<1>4. f[0] = EmptyTable /\ \A e \in 1..KeyMax : f[e] = EnterKey(f[e - 1], state, e)
  BY <1>1, <1>3
<1>5. Holds(f[0], l, 0)
  <2>1. f[0] \in Tables /\ Taken(f[0]) = {}
    BY <1>4 DEF EmptyTable, Tables, Taken
  <2>2. Keyed(0) = {} /\ Cardinality({}) = 0 /\ 1..0 = {}
    BY FS_EmptySet DEF Keyed
  <2> QED BY <2>1, <2>2 DEF Holds, Findable
<1>6. ASSUME NEW e \in 1..KeyMax, Holds(f[e - 1], l, e - 1) PROVE Holds(f[e], l, e)
  BY <1>4, <1>6, EnterFinds
<1>7. S = {}
  <2> SUFFICES ASSUME S # {} PROVE FALSE
    OBVIOUS
  <2>1. S \in SUBSET Nat
    BY <1>1
  <2>2. PICK m \in S : \A k \in S : m <= k
    <3> HIDE DEF S
    <3> QED BY <2>1, LowestExists
  <2>3. m \in 0..KeyMax /\ ~Holds(f[m], l, m) /\ m # 0
    BY <1>5, <2>2
  <2>4. m \in 1..KeyMax /\ m - 1 \in 0..KeyMax /\ m - 1 \notin S
    BY <1>1, <2>2, <2>3
  <2> QED BY <1>6, <2>3, <2>4
<1> QED BY <1>1, <1>2, <1>7

-----------------------------------------------------------------------------
(* Keymaps: key codes and back. *)

\* An entry of a table of rows is in one of its rows.
LEMMA RowOf ==
  ASSUME NEW rows, NEW k \in DOMAIN Table(rows)
  PROVE  \E r \in rows : r[1] = k /\ Table(rows)[k] = r[2]
BY DEF Table

LEMMA NamedPrintable ==
  ASSUME NEW k \in DOMAIN Named, Named[k] \in 33..255
  PROVE  k = \hffff /\ Named[k] = 127
BY RowOf DEF Named

LEMMA SpecialNumbers == ASSUME NEW k \in DOMAIN Special PROVE Special[k] \in Nat
<1> DEFINE keypad == {<<n, 89 + (n - \hffb1)>> : n \in \hffb1..\hffb9}
           rows == SpecialRows \cup keypad
<1>1. \A r \in SpecialRows : r[2] \in Nat
  BY DEF SpecialRows
<1>2. \A r \in keypad : r[2] \in Nat
  OBVIOUS
<1>3. Special = Table(rows)
  BY DEF Special
<1> HIDE DEF keypad
<1>4. \A r \in rows : r[2] \in Nat
  BY <1>1, <1>2
<1> HIDE DEF rows
<1>5. PICK r \in rows : Special[k] = r[2]
  BY <1>3, RowOf
<1> QED BY <1>4, <1>5

LEMMA AsciiDelete ==
  /\ 127 \in DOMAIN Ascii /\ Ascii[127] = 76
  /\ \A k \in DOMAIN Ascii : k \in 33..255 => k = 127
<1>1. 127 \in DOMAIN Ascii
  BY DEF Ascii, Table
<1>2. \A k \in DOMAIN Ascii : /\ k = 127 => Ascii[k] = 76
                              /\ k \in 33..255 => k = 127
  BY RowOf DEF Ascii
<1> QED BY <1>1, <1>2

\* Which symbols have a printable key code.
LEMMA KeycodePrintable ==
  /\ \A s \in 33..255 \ {127} : Keycode(s) = s
  /\ \A s \in Nat : Keycode(s) \in 33..255 =>
       (Keycode(s) = s /\ s # 127) \/ (Keycode(s) = 127 /\ s = \hffff)
  /\ Keycode(\hffff) = 127
<1>1. \A s \in 33..255 \ {127} : Keycode(s) = s
  BY DEF Keycode
<1>2. ASSUME NEW s \in Nat, Keycode(s) \in 33..255
      PROVE  (Keycode(s) = s /\ s # 127) \/ (Keycode(s) = 127 /\ s = \hffff)
  <2>1. CASE s \in 33..255 \ {127}
    BY <1>1, <2>1
  <2>2. CASE s \notin 33..255 \ {127} /\ s \in DOMAIN Named
    BY <1>2, <2>2, NamedPrintable DEF Keycode
  <2>3. CASE s \notin 33..255 \ {127} /\ s \notin DOMAIN Named /\ s \in DOMAIN Special
    <3>1. Special[s] \in Nat /\ Keycode(s) = Mask + Special[s]
      BY <2>3, SpecialNumbers DEF Keycode
    <3> QED BY <1>2, <3>1 DEF Mask
  <2>4. CASE s \notin 33..255 \ {127} /\ s \notin DOMAIN Named /\ s \notin DOMAIN Special
    BY <1>2, <2>4 DEF Keycode, Mask, Unknown
  <2> QED BY <2>1, <2>2, <2>3, <2>4
<1>3. Keycode(\hffff) = 127
  <2>1. \hffff \in DOMAIN Named
    BY DEF Named, Table
  <2>2. Named[\hffff] = 127
    BY <2>1, RowOf DEF Named
  <2> QED BY <2>1, <2>2 DEF Keycode
<1> QED BY <1>1, <1>2, <1>3

\* The first code of a scancode is one of its codes.
LEMMA EvdevOfScancode ==
  ASSUME NEW sc \in Scancodes
  PROVE  EvdevOf(sc) \in 1..KeyMax /\ Evdev[EvdevOf(sc)] = sc /\ sc # 0
<1> DEFINE S == {e \in 1..KeyMax : Evdev[e] = sc}
<1>1. S \in SUBSET Nat /\ S # {} /\ sc # 0
  BY KeymapAssumption DEF Scancodes
<1>2. PICK n \in S : \A m \in S : n <= m
  <2> HIDE DEF S
  <2> QED BY <1>1, LowestExists
<1>3. n \in 1..KeyMax /\ Evdev[n] = sc /\ \A f \in 1..KeyMax : Evdev[f] = sc => n <= f
  BY <1>2
<1> QED BY <1>1, <1>3 DEF EvdevOf

\* What is found in the table that is in use.
LEMMA TableInUse ==
  ASSUME NEW l \in DOMAIN Layouts, NEW t, t = BuildSymtab(StateOf(l)), NEW s \in Nat \ {0}
  PROVE  /\ SymtabGet(t, s) # 0 => \E d \in 1..KeyMax : Enters(l, d, s) /\ Evdev[d] = SymtabGet(t, s)
         /\ \A d \in 1..KeyMax : Enters(l, d, s) => SymtabGet(t, s) # 0
<1>1. Holds(t, l, KeyMax)
  BY BuildFinds
<1>2. KeyMax \in 0..KeyMax
  BY KeymapAssumption
<1>3. Cardinality(Taken(t)) \in Nat
  BY SlotsFinite, FS_Subset, FS_CardinalityType DEF Taken
<1>4. Cardinality(Taken(t)) < TableSize
  BY <1>1, <1>2, <1>3, KeyedFinite, SlotsFinite DEF Holds
<1>5. t \in Tables /\ HasRoom(t) /\ Findable(t)
  BY <1>1, <1>4, RoomLeft DEF Holds
<1>6. ASSUME NEW j \in Slots, t[j].sym = s
      PROVE  \E d \in 1..KeyMax : Enters(l, d, s) /\ Evdev[d] = t[j].sc
  BY <1>1, <1>6 DEF Holds, Taken
<1>7. SymtabGet(t, s) # 0 => \E d \in 1..KeyMax : Enters(l, d, s) /\ Evdev[d] = SymtabGet(t, s)
  BY <1>5, <1>6, GetFinds
<1>8. ASSUME NEW d \in 1..KeyMax, Enters(l, d, s) PROVE SymtabGet(t, s) # 0
  <2>1. PICK j \in Slots : t[j].sym = s
    BY <1>1, <1>8 DEF Holds, Has
  <2>2. t[j].sc # 0
    <3>1. PICK c \in 1..KeyMax : Enters(l, c, s) /\ Evdev[c] = t[j].sc
      BY <1>6, <2>1
    <3> QED BY <3>1 DEF Enters
  <2> QED BY <1>5, <2>1, <2>2, GetFinds
<1> QED BY <1>7, <1>8

LEMMA UsualKeys ==
  ASSUME LayoutsUsual, NEW l \in DOMAIN Layouts, NEW d \in 1..KeyMax, Evdev[d] # 0
  PROVE  /\ Base(l, d) \in 33..255 => EvdevOf(Evdev[d]) = d
         /\ Base(l, d) = \hffff => EvdevOf(Evdev[d]) = d /\ Evdev[d] = 76
         /\ Base(l, d) # 127
         /\ Base(l, d) \in 65..90 => \A e \in 1..KeyMax : Evdev[e] # 0 => Base(l, e) # Base(l, d) + 32
BY DEF LayoutsUsual

LEMMA InvLeadsBack == ASSUME LayoutsUsual, KeymapInv PROVE KeycodeLeadsBack
<1> DEFINE has(sc, key) == KeyFromScancode(sc) \in {key, IF key \in 97..122 THEN key - 32 ELSE key}
<1> SUFFICES ASSUME xkb.keymap # NoObject
             PROVE  /\ \A sc \in Scancodes : KeyFromScancode(sc) \in 33..255 =>
                         KeyFromScancode(ScancodeFromKey(KeyFromScancode(sc))) = KeyFromScancode(sc)
                    /\ \A key \in 33..255 : SymtabGet(symtab, key) # 0 => has(SymtabGet(symtab, key), key)
  BY DEF KeycodeLeadsBack
<1>1. PICK l \in DOMAIN Layouts : InUse(l)
  BY DEF KeymapInv, NoObjects
<1>2. objects[xkb.clean] = StateOf(l) /\ symtab = BuildSymtab(StateOf(l)) /\ xkb.st # NoObject
  BY <1>1 DEF InUse
<1>3. ASSUME NEW d \in 1..KeyMax, Evdev[d] # 0
      PROVE  Evdev[d] \in Scancodes
  BY <1>3 DEF Scancodes
<1>4. ASSUME NEW sc \in Scancodes
      PROVE  /\ EvdevOf(sc) \in 1..KeyMax /\ Evdev[EvdevOf(sc)] = sc /\ sc # 0
             /\ Base(l, EvdevOf(sc)) \in Nat /\ KeyFromScancode(sc) = Keycode(Base(l, EvdevOf(sc)))
  <2>1. EvdevOf(sc) \in 1..KeyMax /\ Evdev[EvdevOf(sc)] = sc /\ sc # 0
    BY EvdevOfScancode
  <2>2. EvdevOf(sc) \in Nat /\ EvdevOf(sc) # 0
    BY <2>1, KeymapAssumption
  <2>3. OneSym(StateOf(l), EvdevOf(sc)) = Base(l, EvdevOf(sc)) /\ Base(l, EvdevOf(sc)) \in Nat
    BY <2>2, BaseSymbol
  <2> QED BY <1>2, <2>1, <2>2, <2>3 DEF KeyFromScancode
\* The key of a character that is entered has it, or its capital.
<1>5. ASSUME NEW d \in 1..KeyMax, NEW key \in 33..255, Enters(l, d, key)
      PROVE  /\ Evdev[d] \in Scancodes /\ Base(l, d) # 127
             /\ KeyFromScancode(Evdev[d]) = Base(l, d)
             /\ Base(l, d) = key \/ (Base(l, d) \in 65..90 /\ key = Base(l, d) + 32)
  <2>1. /\ Evdev[d] # 0 /\ Base(l, d) \in 33..255
        /\ Base(l, d) = key \/ (Base(l, d) \in 65..90 /\ key = Base(l, d) + 32)
    BY <1>5 DEF Enters
  <2>2. Base(l, d) # 127 /\ EvdevOf(Evdev[d]) = d
    BY <2>1, UsualKeys
  <2> QED BY <1>3, <1>4, <2>1, <2>2, KeycodePrintable
<1>6. ASSUME NEW key \in 33..255, SymtabGet(symtab, key) # 0
      PROVE  has(SymtabGet(symtab, key), key)
  <2>1. PICK d \in 1..KeyMax : Enters(l, d, key) /\ Evdev[d] = SymtabGet(symtab, key)
    BY <1>2, <1>6, TableInUse
  <2>2. /\ KeyFromScancode(Evdev[d]) = Base(l, d)
        /\ Base(l, d) = key \/ (Base(l, d) \in 65..90 /\ key = Base(l, d) + 32)
    BY <1>5, <2>1
  <2> QED BY <2>1, <2>2
<1>7. ASSUME NEW sc \in Scancodes, KeyFromScancode(sc) \in 33..255
      PROVE  KeyFromScancode(ScancodeFromKey(KeyFromScancode(sc))) = KeyFromScancode(sc)
  <2> DEFINE e == EvdevOf(sc)
             key == KeyFromScancode(sc)
  <2>1. /\ e \in 1..KeyMax /\ Evdev[e] = sc /\ sc # 0 /\ Base(l, e) \in Nat
        /\ key = Keycode(Base(l, e)) /\ key \in 33..255
    BY <1>4, <1>7
  <2> HIDE DEF e, key
  <2>2. (key = Base(l, e) /\ Base(l, e) # 127) \/ (key = 127 /\ Base(l, e) = \hffff)
    BY <2>1, KeycodePrintable
  <2>3. CASE key = 127 /\ Base(l, e) = \hffff
    <3>1. sc = 76
      BY <2>1, <2>3, UsualKeys
    <3>2. ScancodeFromKey(key) = 76
      BY <2>3, AsciiDelete DEF ScancodeFromKey, Mask
    <3> QED BY <3>1, <3>2 DEF key
  <2>4. CASE key = Base(l, e) /\ Base(l, e) # 127
    <3> DEFINE found == SymtabGet(symtab, key)
    <3>1. Enters(l, e, key) /\ key \in Nat \ {0}
      BY <2>1, <2>4 DEF Enters
    <3>2. found # 0 /\ \E d \in 1..KeyMax : Enters(l, d, key) /\ Evdev[d] = found
      BY <1>2, <2>1, <3>1, TableInUse
    <3>3. ScancodeFromKey(key) = found
      BY <2>1, <2>4, <3>2, AsciiDelete DEF ScancodeFromKey, Mask
    <3> HIDE DEF found
    <3>4. PICK d \in 1..KeyMax : Enters(l, d, key) /\ Evdev[d] = found
      BY <3>2
    <3>5. /\ KeyFromScancode(found) = Base(l, d) /\ Evdev[d] # 0
          /\ Base(l, d) = key \/ (Base(l, d) \in 65..90 /\ key = Base(l, d) + 32)
      BY <1>5, <2>1, <3>2, <3>4
    <3>6. ~(Base(l, d) \in 65..90 /\ key = Base(l, d) + 32)
      BY <2>1, <2>4, <3>5, UsualKeys
    <3> QED BY <3>3, <3>5, <3>6 DEF key
  <2> QED BY <2>2, <2>3, <2>4
<1> QED BY <1>6, <1>7

\* And whatever the layouts are, if their characters are where layouts have them:
\* the scancode SDL_GetScancodeFromKey finds in the table for a key's printable
\* code is that of a key with the same code, and build_symtab never loses a symbol
\* or keeps one that no key has, in a table with two slots for each key or more.
THEOREM KeymapAlwaysSound == LayoutsUsual => (KeymapSpec => []KeymapSound)
<1> SUFFICES ASSUME LayoutsUsual PROVE KeymapSpec => []KeymapSound
  OBVIOUS
<1>1. KeymapSpec => []KeymapInv
  BY KeymapInvInit, KeymapStep, PTL DEF KeymapSpec
<1>2. KeymapInv => KeymapSound
  BY InvMeansOwned, InvLeadsBack DEF KeymapSound
<1> QED BY <1>1, <1>2, PTL
=============================================================================
