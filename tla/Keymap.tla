-------------------------------- MODULE Keymap --------------------------------
(***************************************************************************)
(* The xkb side of src/SDL_keyboard.c: the context, keymap and states it   *)
(* owns, the keymap it makes in SDL_Init and the ones a compositor sends,  *)
(* and the resolution of scancodes to key codes and back through the       *)
(* keymap, with the library loaded by src/sdlop_xkb_dyn.c.                 *)
(*                                                                         *)
(* A scancode, a key symbol and a key code are the numbers they have in    *)
(* the headers; a layout gives the two symbols, without and with shift, of *)
(* each evdev code it knows.                                               *)
(***************************************************************************)
EXTENDS Integers, FiniteSets

CONSTANTS
  KeyMax,     \* SDLOP_EVDEV_KEY_MAX
  Evdev,      \* sdlop_evdev_to_scancode, from 1 on
  Layouts,    \* the layouts a keymap can have
  Default,    \* the one of no rule names
  TableSize   \* SYMTAB_SIZE

ASSUME KeymapAssumption ==
  /\ KeyMax \in Nat /\ Evdev \in [1..KeyMax -> Nat]
  /\ Default \in DOMAIN Layouts
  /\ \A l \in DOMAIN Layouts : \A e \in DOMAIN Layouts[l] : Layouts[l][e] \in Nat \X Nat
  /\ TableSize \in Nat /\ TableSize > 2 * Cardinality({e \in 1..KeyMax : Evdev[e] # 0})

NoObject == 0
Scancodes == {Evdev[e] : e \in 1..KeyMax} \ {0}

VARIABLES
  started,   \* the video subsystem is initialised
  xkb_lib,   \* libxkbcommon is loaded
  objects,   \* xkb's objects: their kind, and the layout and modifiers of a state
  xkb,       \* xkb_ctx, keymap, xkb_st, xkb_st_clean
  symtab     \* key symbol and scancode of each slot

keymapVars == <<started, xkb_lib, objects, xkb, symtab>>

NoObjects == [ctx |-> NoObject, keymap |-> NoObject, st |-> NoObject, clean |-> NoObject]
Slots == 0..(TableSize - 1)
EmptyTable == [i \in Slots |-> [sym |-> 0, sc |-> 0]]

KeymapInit ==
  /\ started = FALSE /\ xkb_lib = FALSE
  /\ objects = << >> /\ xkb = NoObjects /\ symtab = EmptyTable

-----------------------------------------------------------------------------
(* libxkbcommon *)

FreshId(objs) == CHOOSE n \in 1..(Cardinality(DOMAIN objs) + 1) :
                   n \notin DOMAIN objs /\ \A k \in 1..(n - 1) : k \in DOMAIN objs
New(objs, object) ==
  [n \in DOMAIN objs \cup {FreshId(objs)} |-> IF n = FreshId(objs) THEN object ELSE objs[n]]
Unref(objs, ids) == [n \in DOMAIN objs \ ids |-> objs[n]]
Context == [kind |-> "context"]
KeymapOf(layout) == [kind |-> "keymap", layout |-> layout]
StateOf(layout) == [kind |-> "state", layout |-> layout, mods |-> {}]

IsLetter(sym) == sym \in 97..122
\* xkb_state_key_get_one_sym: caps lock is a shift for letters.
OneSym(state, evdev) ==
  LET syms == IF evdev \in DOMAIN Layouts[state.layout] THEN Layouts[state.layout][evdev] ELSE <<0, 0>>
      caps == "caps" \in state.mods /\ IsLetter(syms[1])
  IN  IF "shift" \in state.mods <=> caps THEN syms[1] ELSE syms[2]

-----------------------------------------------------------------------------
(* The table of symbols. *)

\* The first slot from the symbol's own, round the table, that is free or has
\* the symbol.
Slot(sym, i) == (sym + i) % TableSize
Stops(table, sym, i) == table[Slot(sym, i)].sym \in {0, sym}
Probe(table, sym) ==
  Slot(sym, CHOOSE i \in Slots : Stops(table, sym, i) /\ \A j \in 0..(i - 1) : ~Stops(table, sym, j))

SymtabPut(table, sym, sc) == [table EXCEPT ![Probe(table, sym)] = [sym |-> sym, sc |-> sc]]

\* Mutant: the search stops at the symbol's own slot.
SymtabGetOwn(table, sym) ==
  LET slot == table[sym % TableSize] IN IF slot.sym = sym THEN slot.sc ELSE 0

SymtabGet(table, sym) ==
  LET slot == table[Probe(table, sym)] IN IF slot.sym = sym THEN slot.sc ELSE 0

\* What build_symtab does for one code: a capital is entered as its small
\* letter too.
EnterKey(table, state, e) ==
  LET sym == OneSym(state, e)
      sc == Evdev[e]
      with == SymtabPut(table, sym, sc)
  IN  IF sc = 0 \/ sym = 0 THEN table
      ELSE IF sym \in 65..90 THEN SymtabPut(with, sym + 32, sc) ELSE with

\* Mutant: the table still has the symbols of the keymap before.
BuildSymtabOver(state) ==
  LET built[e \in 0..KeyMax] == IF e = 0 THEN symtab ELSE EnterKey(built[e - 1], state, e)
  IN  built[KeyMax]

\* build_symtab: the evdev codes in order, so the last key of a symbol stays.
BuildSymtab(state) ==
  LET built[e \in 0..KeyMax] == IF e = 0 THEN EmptyTable ELSE EnterKey(built[e - 1], state, e)
  IN  built[KeyMax]

-----------------------------------------------------------------------------
(* The keymap in use. *)

\* Mutant: the state for key resolution is not released.
SetKeymapKeepsClean(objs, ctx, layout, stated) ==
  LET km == FreshId(objs)
      withKm == New(objs, KeymapOf(layout))
      st == FreshId(withKm)
      withSt == New(withKm, StateOf(layout))
      clean == FreshId(withSt)
      withAll == New(withSt, StateOf(layout))
  IN  IF ~stated
      THEN objects' = objs /\ xkb' = [xkb EXCEPT !.ctx = ctx] /\ UNCHANGED symtab
      ELSE /\ objects' = Unref(withAll, {xkb.st, xkb.keymap})
           /\ xkb' = [ctx |-> ctx, keymap |-> km, st |-> st, clean |-> clean]
           /\ symtab' = BuildSymtab(withAll[clean])

\* set_keymap, `stated` if both states could be made.  The new objects are
\* made before the old ones are released.
SetKeymap(objs, ctx, layout, stated) ==
  LET km == FreshId(objs)
      withKm == New(objs, KeymapOf(layout))
      st == FreshId(withKm)
      withSt == New(withKm, StateOf(layout))
      clean == FreshId(withSt)
      withAll == New(withSt, StateOf(layout))
  IN  IF ~stated
      THEN objects' = objs /\ xkb' = [xkb EXCEPT !.ctx = ctx] /\ UNCHANGED symtab
      ELSE /\ objects' = Unref(withAll, {xkb.st, xkb.clean, xkb.keymap})
           /\ xkb' = [ctx |-> ctx, keymap |-> km, st |-> st, clean |-> clean]
           /\ symtab' = BuildSymtab(withAll[clean])

\* SDLOP_KeyboardSetKeymapString and SDLOP_KeyboardSetDefaultKeymap, as far
\* as they get: the library, the context, the keymap, the states.
Reached == {"nothing", "library", "context", "keymap", "states"}
Install(layout, reached) ==
  /\ xkb_lib' = (xkb_lib \/ reached # "nothing")
  /\ LET ctx == IF xkb.ctx # NoObject THEN xkb.ctx ELSE FreshId(objects)
         objs == IF xkb.ctx # NoObject THEN objects ELSE New(objects, Context)
     IN  CASE ~xkb_lib' \/ (reached \in {"nothing", "library"} /\ xkb.ctx = NoObject) ->
                UNCHANGED <<objects, xkb, symtab>>
           [] reached \in {"keymap", "states"} -> SetKeymap(objs, ctx, layout, reached = "states")
           [] OTHER -> objects' = objs /\ xkb' = [xkb EXCEPT !.ctx = ctx] /\ UNCHANGED symtab

\* SDL_Init: an application runs without a keymap if none can be made.
StartKeyboard(reached) ==
  /\ ~started /\ started' = TRUE
  /\ IF xkb.keymap # NoObject THEN UNCHANGED <<xkb_lib, objects, xkb, symtab>>
     ELSE Install(Default, reached)

\* keyboard_keymap: format, mapping and parse can fail too.
CompositorKeymap(layout, reached) ==
  /\ started /\ Install(layout, reached)
  /\ UNCHANGED started

\* SDLOP_KeyboardQuit: the table of symbols stays.
StopKeyboard ==
  /\ started /\ started' = FALSE
  /\ objects' = Unref(objects, {xkb.st, xkb.clean, xkb.keymap, xkb.ctx})
  /\ xkb' = NoObjects
  /\ UNCHANGED <<xkb_lib, symtab>>

\* wl_keyboard.modifiers: xkb_state_update_mask of the live state.
UpdateModifiers(mods) ==
  /\ started /\ xkb.st # NoObject
  /\ objects' = [objects EXCEPT ![xkb.st].mods = mods]
  /\ UNCHANGED <<started, xkb_lib, xkb, symtab>>

-----------------------------------------------------------------------------
(* Key codes. *)

Mask == 1073741824 \* SDLK_SCANCODE_MASK
Unknown == Mask

\* The rows of a table, its key first.
Table(rows) == [k \in {r[1] : r \in rows} |-> (CHOOSE r \in rows : r[1] = k)[2]]

Named == Table({<<\hff0d, 13>>, <<\hff8d, 13>>, <<\hff1b, 27>>, <<\hff08, 8>>, <<\hff09, 9>>,
                <<\hfe20, 9>>, <<\hff89, 9>>, <<\hffff, 127>>})

\* The rows of `special` that Named leaves, of the keys but KP_1 to KP_9, which
\* are in order.
SpecialRows ==
  {<<\hff63, 73>>, <<\hff50, 74>>, <<\hff57, 77>>, <<\hff55, 75>>, <<\hff56, 78>>, <<\hff51, 80>>,
   <<\hff53, 79>>, <<\hff52, 82>>, <<\hff54, 81>>, <<\hffe5, 57>>, <<\hff7f, 83>>, <<\hff14, 71>>,
   <<\hff61, 70>>, <<\hff13, 72>>, <<\hff67, 101>>, <<\h20, 44>>, <<\hffe1, 225>>, <<\hffe2, 229>>,
   <<\hffe3, 224>>, <<\hffe4, 228>>, <<\hffe9, 226>>, <<\hffea, 230>>, <<\hffeb, 227>>,
   <<\hffec, 231>>, <<\hff80, 44>>, <<\hffaa, 85>>, <<\hffab, 87>>, <<\hffad, 86>>, <<\hffae, 99>>,
   <<\hffaf, 84>>, <<\hffbd, 103>>, <<\hffac, 133>>, <<\hffb0, 98>>}
Special == Table(SpecialRows \cup {<<k, 89 + (k - \hffb1)>> : k \in \hffb1..\hffb9})

\* keysym_to_keycode
Keycode(sym) ==
  IF sym \in 33..255 \ {127} THEN sym
  ELSE IF sym \in DOMAIN Named THEN Named[sym]
  ELSE IF sym \in DOMAIN Special THEN Mask + Special[sym]
  ELSE IF sym \in \hffbe..\hffd5 THEN Mask + 58 + (sym - \hffbe)
  ELSE Unknown

\* evdev_from_scancode: the first evdev code of a scancode.
EvdevOf(sc) ==
  IF sc \in Scancodes
  THEN CHOOSE e \in 1..KeyMax : Evdev[e] = sc /\ \A f \in 1..KeyMax : Evdev[f] = sc => e <= f
  ELSE 0

\* SDLOP_KeyboardTranslateKey without text, through SDL_GetKeyFromScancode
\* without modifiers
KeyFromScancode(sc) ==
  IF xkb.st = NoObject \/ EvdevOf(sc) = 0 THEN Unknown
  ELSE Keycode(OneSym(objects[xkb.clean], EvdevOf(sc)))

ShiftedUs ==
  Table({<<33, 30>>, <<64, 31>>, <<35, 32>>, <<36, 33>>, <<37, 34>>, <<94, 35>>, <<38, 36>>,
         <<42, 37>>, <<40, 38>>, <<41, 39>>, <<95, 45>>, <<43, 46>>, <<123, 47>>, <<125, 48>>,
         <<124, 49>>, <<58, 51>>, <<34, 52>>, <<126, 53>>, <<60, 54>>, <<62, 55>>, <<63, 56>>})

\* Keys whose scancode does not depend on the layout.
Ascii == Table({<<13, 40>>, <<27, 41>>, <<8, 42>>, <<9, 43>>, <<127, 76>>})

\* SDL_GetScancodeFromKey
ScancodeFromKey(key) ==
  LET found == SymtabGet(symtab, key)
  IN  IF key >= Mask THEN key - Mask
      ELSE IF key \in DOMAIN Ascii THEN Ascii[key]
      ELSE IF found # 0 THEN found
      ELSE IF key \in 65..90 THEN 4 + (key - 65)
      ELSE IF key % 256 \in DOMAIN ShiftedUs THEN ShiftedUs[key % 256] ELSE 0

\* Mutant: the modifiers asked about stay in the state.
AskKeyLeaves(sc, mods) ==
  /\ started /\ xkb.keymap # NoObject
  /\ objects' = [objects EXCEPT ![xkb.clean].mods = mods]
  /\ UNCHANGED <<started, xkb_lib, xkb, symtab>>

\* SDL_GetKeyFromScancode with modifiers sets them in the state for key
\* resolution, and clears them once it has the symbol.
AskKey(sc, mods) ==
  /\ started /\ xkb.keymap # NoObject
  /\ objects' = [objects EXCEPT ![xkb.clean].mods = {}]
  /\ UNCHANGED <<started, xkb_lib, xkb, symtab>>

KeymapNext ==
  \/ \E reached \in Reached : StartKeyboard(reached)
  \/ \E layout \in DOMAIN Layouts, reached \in Reached : CompositorKeymap(layout, reached)
  \/ StopKeyboard
  \/ \E mods \in SUBSET {"shift", "caps"} : UpdateModifiers(mods)
  \/ \E sc \in Scancodes, mods \in (SUBSET {"shift", "caps"}) \ {{}} : AskKey(sc, mods)

KeymapSpec == KeymapInit /\ [][KeymapNext]_keymapVars

-----------------------------------------------------------------------------
(* Every object of xkb is the one some pointer owns, over keymaps that       *)
(* replace each other, fail halfway or end with the session: none is used    *)
(* after its release and none leaks; the keymap, the live state and the      *)
(* state for key resolution agree on the layout; and xkb is there to use.   *)
ObjectsOwned ==
  LET owned == {xkb.ctx, xkb.keymap, xkb.st, xkb.clean} \ {NoObject}
      state(n) == n \in DOMAIN objects /\ objects[n].kind = "state"
                  /\ objects[n].layout = objects[xkb.keymap].layout
  IN  /\ DOMAIN objects = owned
      /\ owned # {} => started /\ xkb_lib
      /\ xkb.ctx # NoObject => objects[xkb.ctx].kind = "context"
      /\ IF xkb.keymap = NoObject THEN xkb.st = NoObject /\ xkb.clean = NoObject
         ELSE /\ xkb.ctx # NoObject /\ xkb.st # xkb.clean
              /\ objects[xkb.keymap].kind = "keymap" /\ state(xkb.st) /\ state(xkb.clean)

(* The scancode found for the printable key code of a key is that of a key   *)
(* with the same key code, and no scancode is found in the table for a key   *)
(* code that no key has, in whichever layout is in use, however many it      *)
(* replaced, and whatever was asked with modifiers before.                   *)
KeycodeLeadsBack ==
  xkb.keymap # NoObject =>
    LET has(sc, key) == KeyFromScancode(sc) \in {key, IF key \in 97..122 THEN key - 32 ELSE key}
    IN  /\ \A sc \in Scancodes : LET key == KeyFromScancode(sc) IN
            key \in 33..255 => KeyFromScancode(ScancodeFromKey(key)) = key
        /\ \A key \in 33..255 : LET sc == SymtabGet(symtab, key) IN sc # 0 => has(sc, key)

\* Keys as layouts have them: a character is on the first code of its scancode,
\* and is not 127; Delete is on the Delete key; and a layout whose keys are
\* capitals has not their small letters too.
Base(l, e) == IF e \in DOMAIN Layouts[l] THEN Layouts[l][e][1] ELSE 0
LayoutsUsual ==
  \A l \in DOMAIN Layouts : \A d \in 1..KeyMax : Evdev[d] # 0 =>
    /\ Base(l, d) \in 33..255 \cup {\hffff} => EvdevOf(Evdev[d]) = d
    /\ Base(l, d) # 127 /\ (Base(l, d) = \hffff => Evdev[d] = 76)
    /\ Base(l, d) \in 65..90 => \A e \in 1..KeyMax : Evdev[e] # 0 => Base(l, e) # Base(l, d) + 32

(* The objects of xkb and the table made from them, over every keymap that   *)
(* came and went.                                                            *)
KeymapSound == ObjectsOwned /\ KeycodeLeadsBack
=============================================================================
