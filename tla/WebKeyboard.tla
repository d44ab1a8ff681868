----------------------------- MODULE WebKeyboard -----------------------------
(***************************************************************************)
(* The keyboard of the web build: key_cb and focus_cb of                   *)
(* src/video/emscripten/sdlop_emscripten.c and the static keymap of        *)
(* src/SDL_keyboard_web.c.  The browser tells a page of a key only while   *)
(* the page has the focus, and tells with each key which modifiers are     *)
(* down, but not on which side.  It knows which locks are on, and could be *)
(* asked.                                                                  *)
(*                                                                         *)
(* The tables have one row of each kind of row in the code: a letter, a    *)
(* digit and its copy on the keypad, a key with a name of its own, a key   *)
(* without one, a key missing from the keymap, and the modifiers.  A       *)
(* modifier bit is a side and a group.                                     *)
(***************************************************************************)
EXTENDS Integers, Sequences, FiniteSets

CONSTANT Codes  \* the DOM codes of the keys the user has

VARIABLES
  held,      \* browser: codes of the keys physically down
  page,      \* browser: the page has the focus
  locks,     \* browser: the locks that are on, Caps and Num
  keystate,  \* sdlop.keystate
  modstate,  \* sdlop.modstate
  repeat,    \* repeat_scancode while repeat_active, else NoScancode
  typing,    \* text input is active in the window in focus
  event,     \* the key event pushed by the step just taken, with its text and
             \* the modifiers and locks there were
  unheard,   \* history: keys down the program was not told of
  missed     \* history: keys in keystate whose release the page did not hear

keyVars == <<held, page, locks, keystate, modstate, repeat, typing, event, unheard, missed>>

-----------------------------------------------------------------------------
(* The tables. *)

\* code_table
CodeTable ==
  [KeyA |-> "A", Digit1 |-> "D1", Numpad1 |-> "KP_1", Enter |-> "RETURN",
   CapsLock |-> "CAPSLOCK", PrintScreen |-> "PRINTSCREEN",
   ShiftLeft |-> "LSHIFT", ShiftRight |-> "RSHIFT",
   ControlLeft |-> "LCTRL", ControlRight |-> "RCTRL"]

Scancodes == {CodeTable[c] : c \in DOMAIN CodeTable}
NoScancode == "UNKNOWN"

\* key_table: the characters of a key, if any, and whether it repeats
NoText == "none"
Row(base, shifted, repeats) == [base |-> base, shifted |-> shifted, repeats |-> repeats]
KeyTable ==
  [A |-> Row("a", "A", TRUE), D1 |-> Row("1", "!", TRUE), KP_1 |-> Row("1", "1", TRUE),
   RETURN |-> Row(NoText, NoText, TRUE), CAPSLOCK |-> Row(NoText, NoText, FALSE),
   LSHIFT |-> Row(NoText, NoText, FALSE), RSHIFT |-> Row(NoText, NoText, FALSE),
   LCTRL |-> Row(NoText, NoText, FALSE), RCTRL |-> Row(NoText, NoText, FALSE)]

Letters == {"a"}
Keypad == {"KP_1"}
Groups == {"SHIFT", "CTRL", "ALT", "GUI"}
Caps == <<"lock", "CAPS">>
Num == <<"lock", "NUM">>
Mods == ({"L", "R"} \X Groups) \cup {Caps, Num}
GroupsOf(mod) == {b[2] : b \in mod} \cap Groups

\* modifier_bit_for
ModifierBit(sc) ==
  CASE sc = "LSHIFT" -> {<<"L", "SHIFT">>} [] sc = "RSHIFT" -> {<<"R", "SHIFT">>}
    [] sc = "LCTRL" -> {<<"L", "CTRL">>} [] sc = "RCTRL" -> {<<"R", "CTRL">>}
    [] OTHER -> {}

\* scancode_from_code
ScancodeFromCode(code) == IF code \in DOMAIN CodeTable THEN CodeTable[code] ELSE NoScancode

ASSUME CodesAssumption == Codes \subseteq DOMAIN CodeTable \cup {"Unidentified", "Process"}

-----------------------------------------------------------------------------
(* Keycodes and text. *)

Character(e, mod, shifted) ==
  IF (e.base \in Letters /\ Caps \in mod) # shifted THEN e.shifted ELSE e.base

\* Mutant: the modifiers that suppress text are forgotten.
ResolveTextAlways(sc, mod) ==
  IF sc \notin DOMAIN KeyTable THEN [key |-> <<"scancode", sc>>, text |-> NoText]
  ELSE LET ch == Character(KeyTable[sc], mod, "SHIFT" \in GroupsOf(mod))
       IN [key |-> IF ch # NoText THEN <<"char", ch>>
                   ELSE IF sc = "RETURN" THEN <<"char", "return">> ELSE <<"scancode", sc>>,
           text |-> IF sc \in Keypad /\ Num \notin mod THEN NoText ELSE ch]

\* resolve, for a key event
Resolve(sc, mod) ==
  IF sc \notin DOMAIN KeyTable THEN [key |-> <<"scancode", sc>>, text |-> NoText]
  ELSE LET ch == Character(KeyTable[sc], mod, "SHIFT" \in GroupsOf(mod))
       IN [key |-> IF ch # NoText THEN <<"char", ch>>
                   ELSE IF sc = "RETURN" THEN <<"char", "return">> ELSE <<"scancode", sc>>,
           text |-> IF (sc \in Keypad /\ Num \notin mod) \/ GroupsOf(mod) \cap {"CTRL", "ALT", "GUI"} # {}
                    THEN NoText ELSE ch]

\* Mutant: only the unshifted characters are looked up.
GetScancodeFromBase(key) ==
  IF key[1] = "scancode" THEN key[2]
  ELSE IF key[2] = "return" THEN "RETURN"
  ELSE IF \E sc \in {"A", "D1"} : KeyTable[sc].base = key[2]
  THEN CHOOSE sc \in {"A", "D1"} : KeyTable[sc].base = key[2]
  ELSE NoScancode

\* SDL_GetScancodeFromKey: the first row of the table, in which the keypad
\* comes last, with the character as one of its two.
GetScancodeFromKey(key) ==
  IF key[1] = "scancode" THEN key[2]
  ELSE IF key[2] = "return" THEN "RETURN"
  ELSE IF \E sc \in {"A", "D1"} : key[2] \in {KeyTable[sc].base, KeyTable[sc].shifted}
  THEN CHOOSE sc \in {"A", "D1"} : key[2] \in {KeyTable[sc].base, KeyTable[sc].shifted}
  ELSE NoScancode

-----------------------------------------------------------------------------
(* SDLOP_SendKeyboardKey, with the modifiers key_cb set just before. *)

NoEvent == [down |-> FALSE, scancode |-> NoScancode, mod |-> {}, flags |-> {}, locks |-> {},
            text |-> NoText, typing |-> FALSE, key |-> <<"scancode", NoScancode>>]

\* Mutant: a repeat is not stopped by the release of its key.
SendKeyboardKeyNoStop(down, repeated, sc, mods, flags) ==
  LET mod == IF down THEN mods \cup ModifierBit(sc) ELSE mods \ ModifierBit(sc)
      r == Resolve(sc, mod)
  IN /\ keystate' = IF down THEN keystate \cup {sc} ELSE keystate \ {sc}
     /\ modstate' = mod
     /\ event' = [down |-> down, scancode |-> sc, mod |-> mod, flags |-> flags, locks |-> locks,
                  key |-> r.key, typing |-> typing,
                  text |-> IF down /\ typing THEN r.text ELSE NoText]
     /\ repeat' = IF down /\ ~repeated /\ sc \in DOMAIN KeyTable /\ KeyTable[sc].repeats
                  THEN sc ELSE repeat

SendKeyboardKey(down, repeated, sc, mods, flags) ==
  LET mod == IF down THEN mods \cup ModifierBit(sc) ELSE mods \ ModifierBit(sc)
      r == Resolve(sc, mod)
  IN /\ keystate' = IF down THEN keystate \cup {sc} ELSE keystate \ {sc}
     /\ modstate' = mod
     /\ event' = [down |-> down, scancode |-> sc, mod |-> mod, flags |-> flags, locks |-> locks,
                  key |-> r.key, typing |-> typing,
                  text |-> IF down /\ typing THEN r.text ELSE NoText]
     /\ repeat' = IF down /\ ~repeated /\ sc \in DOMAIN KeyTable /\ KeyTable[sc].repeats
                  THEN sc
                  ELSE IF ~down /\ sc = repeat THEN NoScancode ELSE repeat

\* The modifiers the browser reports: the groups with a key down.
Flags(keys) == UNION {GroupsOf(ModifierBit(ScancodeFromCode(c))) : c \in keys}

\* DOM_KEY_LOCATION_RIGHT
Right(code) == code \in {"ShiftRight", "ControlRight"}

Quiet == event' = NoEvent /\ UNCHANGED <<keystate, repeat>>

\* Mutant: the modifiers reported are added to those remembered.
KeyCbKeepsMods(down, repeated, code) ==
  LET sc == ScancodeFromCode(code)
      mods == {IF Right(code) THEN "R" ELSE "L"} \X Flags(held')
  IN IF code = "Process" THEN Quiet /\ UNCHANGED modstate
     ELSE IF sc = NoScancode THEN Quiet /\ modstate' = mods
     ELSE SendKeyboardKey(down, repeated, sc, modstate \cup mods, Flags(held'))

\* key_cb.  "Process" is the code of a key the input method takes (229).
KeyCb(down, repeated, code) ==
  LET sc == ScancodeFromCode(code)
      mods == {IF Right(code) THEN "R" ELSE "L"} \X Flags(held')
  IN IF code = "Process" THEN Quiet /\ UNCHANGED modstate
     ELSE IF sc = NoScancode THEN Quiet /\ modstate' = mods
     ELSE SendKeyboardKey(down, repeated, sc, mods, Flags(held'))

-----------------------------------------------------------------------------
(* The user and the browser. *)

KeyInit ==
  /\ held = {} /\ page = TRUE /\ locks \in SUBSET {Caps, Num} /\ keystate = {} /\ modstate = {}
  /\ repeat = NoScancode /\ typing \in BOOLEAN /\ event = NoEvent
  /\ unheard = {} /\ missed = {}

Press(c) ==
  /\ c \notin held
  /\ held' = held \cup {c}
  /\ IF page
     THEN /\ KeyCb(TRUE, FALSE, c)
          /\ missed' = missed \ {ScancodeFromCode(c)}
          /\ UNCHANGED unheard
     ELSE /\ unheard' = unheard \cup {c}
          /\ Quiet /\ UNCHANGED <<modstate, missed>>
  /\ UNCHANGED <<page, locks, typing>>

\* The browser repeats a key that is down, also one pressed before the page
\* got the focus.
Autorepeat(c) ==
  /\ c \in held /\ page
  /\ UNCHANGED <<held, page, locks, typing>>
  /\ KeyCb(TRUE, TRUE, c)
  /\ unheard' = unheard \ {c}
  /\ missed' = missed \ {ScancodeFromCode(c)}

Release(c) ==
  /\ c \in held
  /\ held' = held \ {c}
  /\ unheard' = unheard \ {c}
  /\ IF page
     THEN /\ KeyCb(FALSE, FALSE, c)
          /\ missed' = missed \ {ScancodeFromCode(c)}
     ELSE /\ missed' = missed \cup ({ScancodeFromCode(c)} \cap keystate)
          /\ Quiet /\ UNCHANGED modstate
  /\ UNCHANGED <<page, locks, typing>>

\* focus_cb: an event for the window in focus, and no more.
FocusCb ==
  /\ page' = ~page
  /\ Quiet /\ UNCHANGED <<held, locks, modstate, typing, unheard, missed>>

\* A lock key takes effect, on this page or elsewhere.
ToggleLock(lock) ==
  /\ locks' = IF lock \in locks THEN locks \ {lock} ELSE locks \cup {lock}
  /\ Quiet /\ UNCHANGED <<held, page, modstate, typing, unheard, missed>>

-----------------------------------------------------------------------------
(* The program. *)

\* Mutant: the keys are cleared, but the one that repeats goes on.
ForgetKeysNotRepeat ==
  /\ keystate' = {} /\ UNCHANGED repeat
  /\ event' = NoEvent
  /\ missed' = {}
  /\ unheard' = {c \in held : c \in unheard \/ ScancodeFromCode(c) \in keystate}
  /\ UNCHANGED <<held, page, locks>>

\* SDL_ResetKeyboard: a key up for every key in keystate, and no repeat.
ForgetKeys ==
  /\ keystate' = {} /\ repeat' = NoScancode
  /\ event' = NoEvent
  /\ missed' = {}
  /\ unheard' = {c \in held : c \in unheard \/ ScancodeFromCode(c) \in keystate}
  /\ UNCHANGED <<held, page, locks>>

ResetKeyboard ==
  /\ ForgetKeys
  /\ modstate' = modstate \ UNION {ModifierBit(sc) : sc \in keystate}
  /\ UNCHANGED typing

\* SDLOP_KeyboardQuit: the windows are gone by then.
KeyboardQuit == ForgetKeys /\ modstate' = {} /\ typing' = FALSE

\* SDL_SetModState
SetModState(mods) ==
  /\ modstate' = mods
  /\ Quiet /\ UNCHANGED <<held, page, locks, typing, unheard, missed>>

\* SDL_StartTextInput, SDL_StopTextInput
SetTextInput ==
  /\ typing' = ~typing
  /\ Quiet /\ UNCHANGED <<held, page, locks, modstate, unheard, missed>>

KeyNext ==
  \/ \E c \in Codes : Press(c) \/ Autorepeat(c) \/ Release(c)
  \/ FocusCb \/ \E lock \in {Caps, Num} : ToggleLock(lock)
  \/ ResetKeyboard \/ KeyboardQuit \/ SetTextInput
  \/ \E mods \in {{}, {Caps}, {Num}} : SetModState(mods)

KeySpec == KeyInit /\ [][KeyNext]_keyVars

-----------------------------------------------------------------------------
KeyTypeOK ==
  /\ held \subseteq Codes /\ page \in BOOLEAN /\ locks \subseteq {Caps, Num} /\ typing \in BOOLEAN
  /\ keystate \subseteq Scancodes /\ modstate \subseteq Mods
  /\ repeat \in Scancodes \cup {NoScancode}
  /\ unheard \subseteq held /\ missed \subseteq keystate

\* The keys the program reads as down are the keys that are down and it was
\* told of, and those whose release the page did not hear: nothing else gets
\* stuck, and no key that is held goes missing.  A key that repeats is down.
\* (key_cb, SDLOP_SendKeyboardKey, SDL_ResetKeyboard)
KeysAccounted ==
  /\ keystate = ({ScancodeFromCode(c) : c \in held \ unheard} \ {NoScancode}) \cup missed
  /\ repeat # NoScancode => repeat \in keystate

\* The text SDL_keyboard_web.c says a key has (lines 68 and 104-112): shift XOR
\* caps for letters, the keypad when NumLock is on, and none with control, alt or
\* gui held.
TypedText(sc, flags, on) ==
  IF \/ sc \notin DOMAIN KeyTable
     \/ sc \in Keypad /\ Num \notin on
     \/ flags \cap {"CTRL", "ALT", "GUI"} # {}
  THEN NoText
  ELSE Character(KeyTable[sc], on, "SHIFT" \in flags)

\* A lock that is on and changes what this key means.
LockMatters(sc, on) ==
  \/ sc \in Keypad /\ Num \in on
  \/ sc \in DOMAIN KeyTable /\ KeyTable[sc].base \in Letters /\ Caps \in on

Typing == event # NoEvent /\ event.down /\ event.typing
TextIsTyped == event.text = TypedText(event.scancode, event.flags, event.locks)

\* An ordinary key carries the modifiers that are held when it is told, and
\* is typed accordingly, whatever releases were lost while the page had no
\* focus and whatever the program set, where no lock that is on concerns it
\* (LocksCount).  (key_cb rebuilds modstate from each event; resolve)
TextAsHeld ==
  /\ event # NoEvent /\ ModifierBit(event.scancode) = {} => GroupsOf(event.mod) = event.flags
  /\ Typing /\ ~LockMatters(event.scancode, event.locks) => TextIsTyped

\* src/SDL_keyboard_web.c:68 and 107: the keypad is text when NumLock is on, and
\* letters are shift XOR caps.  key_cb asks the browser for neither lock, and
\* drops those the program set (sdlop_emscripten.c:157-185).
LocksCount == Typing => TextIsTyped

\* The keycode of an event leads back to its key, or for the keypad to the
\* key of the same character.  (resolve, SDL_GetScancodeFromKey)
KeycodeLeadsBack ==
  event # NoEvent =>
    GetScancodeFromKey(event.key) = IF event.scancode = "KP_1" THEN "D1" ELSE event.scancode

\* What an event means: the character typed and the keycode, each as the other
\* side of the program, text input and bindings, will read it.
KeysMean == TextAsHeld /\ KeycodeLeadsBack
=============================================================================
