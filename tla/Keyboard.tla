------------------------------- MODULE Keyboard -------------------------------
(***************************************************************************)
(* The keyboard state of src/SDL_keyboard.c and the two streams that feed  *)
(* it: the raw events the evdev worker put in its ring, and the events of  *)
(* wl_keyboard.  Both report the same keys, each with its own delay.  When *)
(* the raw worker sees a keyboard the keys of wl_keyboard are ignored, but *)
(* its modifiers, focus changes and repeat information are not.            *)
(*                                                                         *)
(* A scancode is a key.  A modifier key has a group (shift, control, ...), *)
(* the unit in which the compositor reports modifiers; the lock bits,      *)
(* copied from xkb, are left out.  There is one window at a time, which     *)
(* the application may destroy while it has the focus.                     *)
(***************************************************************************)
EXTENDS Integers, Sequences

CONSTANTS
  Keys,
  Repeating,  \* keys the keymap says repeat
  Group,      \* the group of each modifier key
  Alt,        \* the group of the alt keys
  RingSize,   \* SDLOP_SDL_RING_SIZE
  WireSize,   \* bound: messages of the compositor not dispatched
  NoKey

ModKeys == DOMAIN Group

ASSUME KeyAssumption ==
  /\ ModKeys \subseteq Keys /\ Repeating \subseteq Keys
  /\ ModKeys \cap Repeating = {}
  /\ NoKey \notin Keys
  /\ RingSize \in Nat \ {0} /\ WireSize \in Nat

VARIABLES
  held,       \* keys physically down
  raw_active, \* SDLOP_RawInputKeyboardActive()
  ring,       \* raw.sdl_ring
  wire,       \* messages of the compositor on their way
  seat,       \* what the compositor thinks: "none", "keyboard" or "focus"
  window,     \* "none"; "open"; "destroyed": the compositor has not noticed yet
  kb,         \* sdlop.keystate, modstate, repeat_scancode, repeat_active
  focus,      \* sdlop.keyboard_focus is the window
  excused     \* history: a report of a key was lost, or its reset with the window
              \* in focus, and no reset has followed once the ring was drained

vars == <<held, raw_active, ring, wire, seat, window, kb, focus, excused>>

Up == [keystate |-> {}, modstate |-> {}, repeat_scancode |-> NoKey, repeat_active |-> FALSE]

Init ==
  /\ held = {} /\ raw_active \in BOOLEAN
  /\ ring = <<>> /\ wire = <<>> /\ seat = "none" /\ window = "none"
  /\ kb = Up /\ focus = FALSE /\ excused = FALSE

-----------------------------------------------------------------------------
(* SDL_keyboard.c, as functions of the keyboard state. *)

KeyState(k, down, key) ==
  IF down
  THEN [k EXCEPT !.keystate = @ \cup {key}, !.modstate = @ \cup ({key} \cap ModKeys)]
  ELSE [k EXCEPT !.keystate = @ \ {key}, !.modstate = @ \ {key}]

\* Mutant: the key up of the repeating key leaves the repeat running.
SendKeyboardKeyNoStop(k, down, repeat, key) ==
  LET s == KeyState(k, down, key) IN
  IF down /\ ~repeat /\ key \in Repeating
  THEN [s EXCEPT !.repeat_scancode = key, !.repeat_active = TRUE]
  ELSE s

\* SDLOP_SendKeyboardKey
SendKeyboardKey(k, down, repeat, key) ==
  LET s == KeyState(k, down, key) IN
  IF down /\ ~repeat /\ key \in Repeating
  THEN [s EXCEPT !.repeat_scancode = key, !.repeat_active = TRUE]
  ELSE IF ~down /\ key = s.repeat_scancode
  THEN [s EXCEPT !.repeat_active = FALSE]
  ELSE s

\* Mutant: the keys are cleared without their key ups.
ResetKeyboardSilently(k) == [k EXCEPT !.keystate = {}, !.repeat_active = FALSE]

\* SDL_ResetKeyboard: a key up for every key in keystate, and no repeat.
ResetKeyboard(k) ==
  [k EXCEPT !.keystate = {}, !.modstate = @ \ k.keystate, !.repeat_active = FALSE]

\* Mutant: a group in effect sets the bits of all its keys.
UpdateXkbModifiersSets(k, groups) ==
  [k EXCEPT !.modstate = {m \in ModKeys : Group[m] \in groups}]

\* SDLOP_KeyboardUpdateXkbModifiers: a group that is not in effect clears the
\* bits of its keys, except alt's.
UpdateXkbModifiers(k, groups) ==
  [k EXCEPT !.modstate = {m \in @ : Group[m] \in groups \cup {Alt}}]

-----------------------------------------------------------------------------
(* The user, the kernel and the compositor. *)

Effective(keys) == {Group[m] : m \in keys \cap ModKeys}

\* Mutant: the capacity test off by one.
ToRingLate(key, value) ==
  IF raw_active /\ Len(ring) <= RingSize
  THEN ring' = Append(ring, [key |-> key, value |-> value]) /\ UNCHANGED excused
  ELSE excused' = (excused \/ raw_active) /\ UNCHANGED ring

\* The worker's SDLOP_RingPush, or the loss of the event.
ToRing(key, value) ==
  IF raw_active /\ Len(ring) < RingSize
  THEN ring' = Append(ring, [key |-> key, value |-> value]) /\ UNCHANGED excused
  ELSE excused' = (excused \/ raw_active) /\ UNCHANGED ring

\* A key goes down or up.  A compositor reports it to the window in focus,
\* followed by the modifiers when they are concerned.
Report(key, down, keys) ==
  IF seat # "focus" THEN UNCHANGED wire
  ELSE wire' = wire \o <<[kind |-> "key", key |-> key, down |-> down]>>
                    \o IF key \in ModKeys
                       THEN <<[kind |-> "modifiers", groups |-> Effective(keys)]>> ELSE <<>>

Press(key) ==
  /\ key \notin held /\ Len(wire) + 2 <= WireSize
  /\ held' = held \cup {key}
  /\ ToRing(key, 1) /\ Report(key, TRUE, held')
  /\ UNCHANGED <<raw_active, seat, window, kb, focus>>

Release(key) ==
  /\ key \in held /\ Len(wire) + 2 <= WireSize
  /\ held' = held \ {key}
  /\ ToRing(key, 0) /\ Report(key, FALSE, held')
  /\ UNCHANGED <<raw_active, seat, window, kb, focus>>

\* The kernel's own autorepeat, which wl_keyboard does not pass on.
Autorepeat(key) ==
  /\ raw_active /\ key \in held
  /\ ToRing(key, 2)
  /\ UNCHANGED <<held, raw_active, wire, seat, window, kb, focus>>

SeatMessage(new, messages) ==
  /\ Len(wire) + Len(messages) <= WireSize
  /\ seat' = new
  /\ wire' = wire \o messages
  /\ UNCHANGED <<held, raw_active, ring, kb, focus, excused>>

\* The same, of no window's coming or going.
SeatAlone(new, messages) == SeatMessage(new, messages) /\ UNCHANGED window

SeatGainsKeyboard ==
  seat = "none" /\ SeatAlone("keyboard", <<[kind |-> "capability", on |-> TRUE]>>)
SeatLosesKeyboard ==
  seat # "none" /\ SeatAlone("none", <<[kind |-> "capability", on |-> FALSE]>>)
FocusIn ==
  /\ seat = "keyboard" /\ window # "none"
  /\ SeatAlone("focus", <<[kind |-> "enter"],
                          [kind |-> "modifiers", groups |-> Effective(held)]>>)
FocusOut == seat = "focus" /\ SeatAlone("keyboard", <<[kind |-> "leave"]>>)

\* The compositor reads that the surface was destroyed: the focus leaves it.
SurfaceGone ==
  /\ window = "destroyed"
  /\ window' = "none"
  /\ IF seat = "focus" THEN SeatMessage("keyboard", <<[kind |-> "leave"]>>)
     ELSE UNCHANGED <<held, raw_active, ring, wire, seat, kb, focus, excused>>

-----------------------------------------------------------------------------
(* The main thread. *)

\* Mutant: focus is lost with the keys of the window still down.
LeaveKeepsKeys(message) ==
  /\ focus' = FALSE
  /\ UNCHANGED <<kb, excused>>

\* keyboard_enter: the surface of a window that was destroyed is nobody's.
Enter(message) ==
  /\ focus' = (focus \/ window = "open")
  /\ UNCHANGED <<kb, excused>>

\* keyboard_leave.  Without a focus it resets nothing: the keys that were down
\* when the window in focus was destroyed stay down.
Leave(message) ==
  /\ focus' = FALSE
  /\ kb' = IF focus THEN ResetKeyboard(kb) ELSE kb
  /\ excused' = IF focus THEN excused /\ ring # <<>>
                ELSE excused \/ (window # "open" /\ ~raw_active /\ kb.keystate # {})

\* keyboard_key: the raw worker's keyboard has precedence.
Key(message) ==
  /\ kb' = IF raw_active THEN kb ELSE SendKeyboardKey(kb, message.down, FALSE, message.key)
  /\ UNCHANGED <<focus, excused>>

\* seat_capabilities.  The keyboard goes without a leave: focus and keys stay
\* as they are, and no key up will come for those that are down.
Capability(message) ==
  /\ excused' = (excused \/ (~message.on /\ ~raw_active /\ kb.keystate # {}))
  /\ UNCHANGED <<kb, focus>>

\* The next message of wl_keyboard or wl_seat.
Dispatch ==
  /\ wire # <<>>
  /\ LET message == Head(wire) IN
       \/ message.kind = "enter" /\ Enter(message)
       \/ message.kind = "leave" /\ Leave(message)
       \/ message.kind = "key" /\ Key(message)
       \/ /\ message.kind = "modifiers"
          /\ kb' = UpdateXkbModifiers(kb, message.groups)
          /\ UNCHANGED <<focus, excused>>
       \/ message.kind = "capability" /\ Capability(message)
  /\ wire' = Tail(wire)
  /\ UNCHANGED <<held, raw_active, ring, seat, window>>

\* pump_event for an event of type EV_KEY
PumpKey ==
  /\ ring # <<>>
  /\ kb' = SendKeyboardKey(kb, Head(ring).value # 0, Head(ring).value = 2, Head(ring).key)
  /\ ring' = Tail(ring)
  /\ UNCHANGED <<held, raw_active, wire, seat, window, focus, excused>>

\* SDLOP_KeyboardProcessRepeats, with a repeat that is due
ProcessRepeats ==
  /\ kb.repeat_active
  /\ kb' = SendKeyboardKey(kb, TRUE, TRUE, kb.repeat_scancode)
  /\ UNCHANGED <<held, raw_active, ring, wire, seat, window, focus, excused>>

\* SDL_ResetKeyboard called by the application
Reset ==
  /\ kb' = ResetKeyboard(kb)
  /\ excused' = (excused /\ ring # <<>>)
  /\ UNCHANGED <<held, raw_active, ring, wire, seat, window, focus>>

\* SDL_CreateWindow: its roundtrip has every message on the way handled.
OpenWindow ==
  /\ window = "none" /\ wire = <<>>
  /\ window' = "open"
  /\ UNCHANGED <<held, raw_active, ring, wire, seat, kb, focus, excused>>

\* SDL_DestroyWindow, SDLOP_RemoveWindow: the focus goes, the keys stay.
RemoveWindow ==
  /\ window = "open"
  /\ window' = "destroyed" /\ focus' = FALSE
  /\ UNCHANGED <<held, raw_active, ring, wire, seat, kb, excused>>

Next ==
  \/ \E key \in Keys : Press(key) \/ Release(key) \/ Autorepeat(key)
  \/ SeatGainsKeyboard \/ SeatLosesKeyboard \/ FocusIn \/ FocusOut
  \/ OpenWindow \/ RemoveWindow \/ SurfaceGone
  \/ Dispatch \/ PumpKey \/ ProcessRepeats \/ Reset

Spec == Init /\ [][Next]_vars

-----------------------------------------------------------------------------
RawKeys == [key : Keys, value : 0..2]

\* What wl_keyboard and wl_seat can send.
Messages ==
  [kind : {"enter", "leave"}] \cup [kind : {"capability"}, on : BOOLEAN]
  \cup [kind : {"key"}, key : Keys, down : BOOLEAN]
  \cup [kind : {"modifiers"}, groups : SUBSET {Group[m] : m \in ModKeys}]

TypeOK ==
  /\ held \subseteq Keys /\ raw_active \in BOOLEAN
  /\ ring \in Seq(RawKeys) /\ Len(ring) <= RingSize
  /\ wire \in Seq(Messages) /\ Len(wire) <= WireSize
  /\ seat \in {"none", "keyboard", "focus"} /\ window \in {"none", "open", "destroyed"}
  /\ kb \in [keystate : SUBSET Keys, modstate : SUBSET ModKeys,
             repeat_scancode : Keys \cup {NoKey}, repeat_active : BOOLEAN]
  /\ focus \in BOOLEAN /\ excused \in BOOLEAN

(* Only a key the application was told is down repeats: no key up, reset,   *)
(* loss of focus or autorepeat of another key leaves a repeat running that   *)
(* would report a key it has been told is up.                               *)
RepeatHeld == kb.repeat_active => kb.repeat_scancode \in kb.keystate

(* A modifier bit is never left behind by its key.                          *)
ModBitHeld == kb.modstate \subseteq kb.keystate

Quiet == ring = <<>> /\ wire = <<>>

(* Once everything on the way has been handled, no key is down for the       *)
(* application that is up on the keyboard, over losses of focus and resets   *)
(* with keys held, unless no reset has followed the loss of a report, or the *)
(* end of the window that had the focus with keys down (DestroyedLetsGo).   *)
NoStuckKey == Quiet /\ ~excused => kb.keystate \subseteq held

(* src/include/SDL3/SDL_keyboard.h:36: the keys are released when the focus  *)
(* is lost.  When it is lost with its window, which src/SDL_video.c:87 takes *)
(* out of keyboard_focus, keyboard_leave finds no focus and releases none.   *)
DestroyedLetsGo ==
  Quiet /\ ~raw_active /\ window = "none" /\ seat = "keyboard" => kb.keystate = {}

(* With wl_keyboard the bit of each synchronized modifier is that of its     *)
(* key, with the same two exceptions; what the raw stream and modifiers     *)
(* messages make of each other is ModsTrackKeys below.                      *)
ModsTrackSeat ==
  Quiet /\ ~raw_active /\ ~excused => kb.modstate = kb.keystate \cap ModKeys

(* src/SDL_keyboard.c:214: left and right bits are kept in sync with the     *)
(* effective state.  Once everything has been handled, in focus, a modifier  *)
(* key that is down has its bit set, whichever stream reported it.          *)
ModsTrackKeys ==
  Quiet /\ focus /\ seat = "focus" /\ ~excused => kb.keystate \cap ModKeys \subseteq kb.modstate

(* A key that repeats and a modifier in effect are keys told down and not    *)
(* up since, whichever stream, focus change or reset said so last.           *)
DownAsTold == TypeOK /\ RepeatHeld /\ ModBitHeld

-----------------------------------------------------------------------------
(***************************************************************************)
(* The inductive invariant: which keys are down once the messages on the   *)
(* way have been handled.  After is what one message does to a set of      *)
(* keys; Reaches says, without handling them one by one, that the first n  *)
(* messages of s take the keys K into the keys S.                          *)
(***************************************************************************)

\* After a leave no key is down, and after a capability that goes none or a
\* report is missing.
Clears(m) == m.kind = "leave" \/ (m.kind = "capability" /\ ~m.on)

Settles(m, key) == Clears(m) \/ (m.kind = "key" /\ m.key = key)

After(K, m) ==
  IF Clears(m) THEN {}
  ELSE IF m.kind = "key" THEN (IF m.down THEN K \cup {m.key} ELSE K \ {m.key})
  ELSE K

Reaches(s, n, K, S) ==
  /\ \A i \in 1..n :
       s[i].kind = "key" /\ s[i].down /\ (\A j \in i+1..n : ~Settles(s[j], s[i].key))
         => s[i].key \in S
  /\ \A key \in K : (\A j \in 1..n : ~Settles(s[j], key)) => key \in S

\* The keys told down, if no report of one was lost.
Trusted == IF excused THEN {} ELSE kb.keystate

\* The modifier keys of the groups in effect, and every other key.
InEffect(groups) == {key \in Keys : key \in ModKeys => Group[key] \in groups}

\* The events of the ring, as key messages.
Reports(events) ==
  [i \in DOMAIN events |-> [kind |-> "key", key |-> events[i].key, down |-> events[i].value # 0]]

\* A keyboard the raw worker sees: its reports lead to the keys held.
RawReach == raw_active /\ ~excused => Reaches(Reports(ring), Len(ring), kb.keystate, held)

\* All of s leads from K to S, and to keys in effect where a message of it says
\* what is.
Leads(s, K, S) ==
  /\ Reaches(s, Len(s), K, S)
  /\ \A p \in DOMAIN s : s[p].kind = "modifiers" => Reaches(s, p-1, K, InEffect(s[p].groups))

\* What the compositor says of the keys held: all of them to a window in focus.
Shown == IF seat = "focus" THEN held ELSE {}

\* One it does not see: the messages lead to the keys shown.
WireReach == ~raw_active => ring = <<>> /\ Leads(wire, Trusted, Shown)

\* The client has the focus after n messages of s, when f says if it has it now.
Focused(f, s, n) ==
  \/ f /\ \A j \in 1..n : s[j].kind # "leave"
  \/ \E i \in 1..n : s[i].kind = "enter" /\ \A j \in i+1..n : s[j].kind # "leave"

\* A leave finds the client in focus, whatever the seat did in between, unless
\* the window was destroyed.  A surface that is gone has no focus.
LeaveInFocus ==
  /\ window = "none" => seat # "focus"
  /\ window = "open" => \A p \in DOMAIN wire : wire[p].kind = "leave" => Focused(focus, wire, p-1)
  /\ window = "open" /\ seat = "focus" => Focused(focus, wire, Len(wire))

BitsOfKeys == ~raw_active /\ ~excused => kb.keystate \cap ModKeys \subseteq kb.modstate

KeyboardInv ==
  /\ TypeOK /\ RepeatHeld /\ ModBitHeld
  /\ RawReach /\ WireReach /\ LeaveInFocus /\ BitsOfKeys
=============================================================================
