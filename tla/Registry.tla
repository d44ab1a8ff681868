-------------------------------- MODULE Registry --------------------------------
(***************************************************************************)
(* The globals of the compositor that src/video/wayland/sdlop_wayland.c    *)
(* binds: the outputs, which give the windows their display scale, and the *)
(* seat with the devices SDL reports as added and removed; and the cursor, *)
(* which the first pointer that enters a window creates.                   *)
(*                                                                         *)
(* A global has a name the compositor never uses again in a session.  An   *)
(* event is dispatched when it is sent: the order of the compositor's      *)
(* events is that of one connection.                                       *)
(***************************************************************************)
EXTENDS Integers, Sequences, FiniteSets, SequencesExt

CONSTANTS
  Frames,      \* windows of the application
  MaxOutputs,  \* SDLOP_MAX_OUTPUTS
  MaxNames,    \* bound: globals announced in a session
  Scales,      \* factors an output can have
  MaxIds       \* bound: devices reported

ASSUME RegistryAssumption ==
  /\ {MaxOutputs, MaxNames, MaxIds} \subseteq Nat
  /\ Scales \subseteq Nat \ {0} /\ 1 \in Scales

VARIABLES
  connected, \* wl_data.display
  names,     \* globals announced, and what those still there are
  outputs,   \* wl_data.outputs, up to num_outputs; pending until wl_output.done
  seat,      \* wl_data.seat: its global's name, or 0
  devs,      \* wl_data.keyboard and pointer: SDL's ids, 0 when there is none
  next_id,   \* next_id of sdlop_device_next_id
  frames,    \* output (a name, or 0) and display_scale of each window there is
  on,        \* outputs each window is on, for the compositor
  cursor,    \* cursor_surface and cursor_buffer: "none", "made", or "stale" when
             \* they are of an earlier connection
  seen       \* history: scale and devices as the events told them

registryVars == <<connected, names, outputs, seat, devs, next_id, frames, on, cursor, seen>>

NoDevs == [keyboard |-> 0, pointer |-> 0]
Announced == [last |-> 0, live |-> << >>]

RegistryInit ==
  /\ connected = FALSE /\ names = Announced
  /\ outputs = <<>> /\ seat = 0 /\ devs = NoDevs /\ next_id = 0
  /\ frames = << >> /\ on = [f \in Frames |-> {}] /\ cursor = "none"
  /\ seen = [scale |-> [f \in Frames |-> 1], devs |-> NoDevs]

Names == DOMAIN names.live
Bound == {outputs[i].name : i \in DOMAIN outputs}
Output(name) == outputs[CHOOSE i \in DOMAIN outputs : outputs[i].name = name]

\* wayland_output_scale
OutputScale(outs, name) ==
  IF \E i \in DOMAIN outs : outs[i].name = name
  THEN outs[CHOOSE i \in DOMAIN outs : outs[i].name = name].scale ELSE 1

-----------------------------------------------------------------------------
(* The connection. *)

\* wayland_Init with every required global: wl_data is cleared.
Open ==
  /\ ~connected /\ connected' = TRUE
  /\ names' = Announced /\ outputs' = <<>> /\ seat' = 0 /\ devs' = NoDevs
  /\ seen' = [seen EXCEPT !.devs = NoDevs]
  /\ UNCHANGED <<next_id, frames, on, cursor>>

\* SDLOP_VideoQuit, wayland_Quit: the windows go first; the cursor stays.
Close ==
  /\ connected /\ connected' = FALSE
  /\ cursor' = IF cursor = "made" THEN "stale" ELSE cursor
  /\ frames' = << >> /\ on' = [f \in Frames |-> {}]
  /\ outputs' = <<>> /\ seat' = 0 /\ devs' = NoDevs
  /\ seen' = [seen EXCEPT !.devs = NoDevs]
  /\ UNCHANGED <<names, next_id>>

\* Mutant: the seat is bound again when another one is announced.
GlobalRebinds(kind) ==
  LET name == names.last + 1 IN
  /\ connected /\ names.last < MaxNames
  /\ names' = [last |-> name, live |-> [n \in Names \cup {name} |-> IF n = name THEN kind ELSE names.live[n]]]
  /\ IF kind = "output" /\ Len(outputs) <= MaxOutputs
     THEN outputs' = Append(outputs, [name |-> name, scale |-> 1, pending |-> FALSE])
     ELSE UNCHANGED outputs
  /\ seat' = IF kind = "seat" THEN name ELSE seat
  /\ UNCHANGED <<connected, devs, next_id, frames, on, cursor, seen>>

\* registry_global of an output or a seat: the first seat is the only one.
Global(kind) ==
  LET name == names.last + 1 IN
  /\ connected /\ names.last < MaxNames
  /\ names' = [last |-> name, live |-> [n \in Names \cup {name} |-> IF n = name THEN kind ELSE names.live[n]]]
  /\ IF kind = "output" /\ Len(outputs) < MaxOutputs
     THEN outputs' = Append(outputs, [name |-> name, scale |-> 1, pending |-> FALSE])
     ELSE UNCHANGED outputs
  /\ seat' = IF kind = "seat" /\ seat = 0 THEN name ELSE seat
  /\ UNCHANGED <<connected, devs, next_id, frames, on, cursor, seen>>

\* The table without an output: those behind it move up.
Compacted(name) ==
  IF name \notin Bound THEN outputs
  ELSE LET gone == CHOOSE i \in DOMAIN outputs : outputs[i].name = name
       IN  [i \in 1..(Len(outputs) - 1) |-> outputs[IF i < gone THEN i ELSE i + 1]]

\* Mutant: the windows keep the output.
GlobalRemoveKeeps(name) ==
  /\ connected /\ name \in Names
  /\ names' = [names EXCEPT !.live = [n \in Names \ {name} |-> names.live[n]]]
  /\ outputs' = Compacted(name)
  /\ on' = [f \in Frames |-> on[f] \ {name}]
  /\ UNCHANGED <<connected, seat, devs, next_id, frames, cursor, seen>>

\* registry_global_remove: of an output, which the windows forget; a seat
\* stays, and with it the devices it had.
GlobalRemove(name) ==
  /\ connected /\ name \in Names
  /\ names' = [names EXCEPT !.live = [n \in Names \ {name} |-> names.live[n]]]
  /\ outputs' = Compacted(name)
  /\ frames' = [f \in DOMAIN frames |->
                  IF frames[f].output = name THEN [frames[f] EXCEPT !.output = 0] ELSE frames[f]]
  /\ on' = [f \in Frames |-> on[f] \ {name}]
  /\ UNCHANGED <<connected, seat, devs, next_id, cursor, seen>>

-----------------------------------------------------------------------------
(* Outputs and windows. *)

\* wl_output.scale takes effect with wl_output.done.
ScaleOutput(name, factor) ==
  /\ name \in Bound /\ Output(name).scale # factor
  /\ outputs' = [i \in DOMAIN outputs |->
                   IF outputs[i].name = name THEN [name |-> name, scale |-> factor, pending |-> TRUE]
                   ELSE outputs[i]]
  /\ UNCHANGED <<connected, names, seat, devs, next_id, frames, on, cursor, seen>>

\* The windows of a set get a scale, and those that had another an event.
Rescale(fs, s) ==
  /\ frames' = [f \in DOMAIN frames |-> IF f \in fs THEN [frames[f] EXCEPT !.scale = s] ELSE frames[f]]
  /\ seen' = [seen EXCEPT !.scale =
                [f \in Frames |-> IF f \in fs /\ frames[f].scale # s THEN s ELSE @[f]]]

\* output_done
OutputDone(name) ==
  /\ name \in Bound /\ Output(name).pending
  /\ outputs' = [i \in DOMAIN outputs |->
                   IF outputs[i].name = name
                   THEN [name |-> name, scale |-> outputs[i].scale, pending |-> FALSE] ELSE outputs[i]]
  /\ Rescale({f \in DOMAIN frames : frames[f].output = name}, OutputScale(outputs, name))
  /\ UNCHANGED <<connected, names, seat, devs, next_id, on, cursor>>

\* surface_enter
Enter(f, name) ==
  /\ f \in DOMAIN frames /\ name \in Bound \ on[f]
  /\ on' = [on EXCEPT ![f] = @ \cup {name}]
  /\ LET s == OutputScale(outputs, name) IN
       /\ frames' = [frames EXCEPT ![f] = [output |-> name, scale |-> s]]
       /\ seen' = [seen EXCEPT !.scale[f] = IF frames[f].scale # s THEN s ELSE @]
  /\ UNCHANGED <<connected, names, outputs, seat, devs, next_id, cursor>>

\* surface_leave, whichever output the window leaves: the scale stays.
Leave(f, name) ==
  /\ f \in DOMAIN frames /\ name \in on[f]
  /\ on' = [on EXCEPT ![f] = @ \ {name}]
  /\ frames' = [frames EXCEPT ![f].output = 0]
  /\ UNCHANGED <<connected, names, outputs, seat, devs, next_id, cursor, seen>>

CreateFrame(f) ==
  /\ connected /\ f \notin DOMAIN frames
  /\ frames' = [g \in DOMAIN frames \cup {f} |->
                  IF g = f THEN [output |-> 0, scale |-> 1] ELSE frames[g]]
  /\ seen' = [seen EXCEPT !.scale[f] = 1]
  /\ UNCHANGED <<connected, names, outputs, seat, devs, next_id, on, cursor>>

DestroyFrame(f) ==
  /\ f \in DOMAIN frames
  /\ frames' = [g \in DOMAIN frames \ {f} |-> frames[g]]
  /\ on' = [on EXCEPT ![f] = {}]
  /\ UNCHANGED <<connected, names, outputs, seat, devs, next_id, cursor, seen>>

-----------------------------------------------------------------------------
(* The seat. *)

\* Mutant: both devices are reported with the id given last.
CapabilitiesOneId(caps) ==
  /\ seat # 0 /\ next_id + 2 <= MaxIds
  /\ LET added == {d \in caps : devs[d] = 0} IN
       /\ next_id' = IF added = {} THEN next_id ELSE next_id + 1
       /\ devs' = [d \in DOMAIN devs |-> IF d \notin caps THEN 0
                                          ELSE IF d \in added THEN next_id + 1 ELSE devs[d]]
       /\ seen' = [seen EXCEPT !.devs = devs']
  /\ UNCHANGED <<connected, names, outputs, seat, frames, on, cursor>>

\* seat_capabilities: a keyboard first, then a pointer, each with an id of
\* its own and an event; without the capability the device goes.
Capabilities(caps) ==
  /\ seat # 0 /\ next_id + 2 <= MaxIds
  /\ LET id(d) == IF d \notin caps THEN 0
                  ELSE IF devs[d] # 0 THEN devs[d]
                  ELSE next_id + (IF d = "pointer" /\ "keyboard" \in caps /\ devs["keyboard"] = 0 THEN 2 ELSE 1)
     IN  /\ devs' = [d \in DOMAIN devs |-> id(d)]
         /\ next_id' = next_id + Cardinality({d \in caps : devs[d] = 0})
         /\ seen' = [seen EXCEPT !.devs =
                       [d \in DOMAIN devs |-> IF d \in caps /\ devs[d] = 0 THEN id(d)
                                               ELSE IF d \notin caps /\ devs[d] # 0 THEN 0 ELSE @[d]]]
  /\ UNCHANGED <<connected, names, outputs, seat, frames, on, cursor>>

\* pointer_enter, set_default_cursor, ensure_cursor, if memory can be had
ShowCursor ==
  /\ devs["pointer"] # 0 /\ frames # << >>
  /\ cursor' = IF cursor = "none" THEN "made" ELSE cursor
  /\ UNCHANGED <<connected, names, outputs, seat, devs, next_id, frames, on, seen>>

ConnectionNext ==
  \/ Open \/ Close
  \/ \E name \in 1..MaxNames : GlobalRemove(name)
  \/ \E f \in Frames : CreateFrame(f)
OutputsNext ==
  \/ Global("output")
  \/ \E name \in 1..MaxNames :
       \/ OutputDone(name)
       \/ \E factor \in Scales : ScaleOutput(name, factor)
       \/ \E f \in Frames : Enter(f, name) \/ Leave(f, name)
  \/ \E f \in Frames : DestroyFrame(f)
SeatNext ==
  \/ Global("seat") \/ ShowCursor
  \/ \E caps \in SUBSET {"keyboard", "pointer"} : Capabilities(caps)

RegistryNext == ConnectionNext \/ OutputsNext \/ SeatNext
RegistrySpec == RegistryInit /\ [][RegistryNext]_registryVars

-----------------------------------------------------------------------------
(* Every output bound is one the compositor has, once, within the table; no  *)
(* window names one that is gone, over outputs removed from anywhere in the  *)
(* table; and a window that names one has its scale, once the output is done *)
(* changing, and was told of it.                                             *)
OutputsFollow ==
  /\ Len(outputs) <= MaxOutputs /\ Cardinality(Bound) = Len(outputs)
  /\ \A name \in Bound : name \in Names /\ names.live[name] = "output"
  /\ \A f \in DOMAIN frames :
       /\ seen.scale[f] = frames[f].scale
       /\ frames[f].output # 0 =>
            /\ frames[f].output \in Bound \cap on[f]
            /\ Output(frames[f].output).pending \/ frames[f].scale = Output(frames[f].output).scale

(* The application knows the devices of the seat by the ids of their ADDED   *)
(* events, no two have one id, and a removed one is reported with the id it  *)
(* had, over seats that gain and lose both at once.                          *)
DevicesPaired ==
  /\ seen.devs = devs
  /\ \A d, e \in DOMAIN devs : devs[d] # 0 /\ devs[d] = devs[e] => d = e
  /\ \A d \in DOMAIN devs : devs[d] <= next_id /\ (devs[d] # 0 => connected /\ seat # 0)

(* What the program knows of outputs and devices is what the registry has    *)
(* told, over names that come and go, until the connection is closed.        *)
RegistryTold == OutputsFollow /\ DevicesPaired

(* src/src/video/wayland/sdlop_wayland.c:49: the window's output is the one  *)
(* the surface currently intersects.                                         *)
OutputIntersects == \A f \in DOMAIN frames : on[f] # {} => frames[f].output \in on[f]

(* SDL_Quit leaves nothing of the connection behind for the next one: the    *)
(* cursor a pointer is given is not of a connection that has been closed.    *)
CursorOfSession == cursor # "stale"
==============================================================================
