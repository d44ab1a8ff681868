------------------------------- MODULE Libraries -------------------------------
(***************************************************************************)
(* The libraries SDLop opens while it runs: libwayland-client, counted,    *)
(* with src/video/wayland/sdlop_wayland_dyn.c, while the drivers of        *)
(* src/SDL_video.c are tried in turn; and the Vulkan loader, not counted,  *)
(* with src/SDL_vulkan.c, which the application opens and closes and the   *)
(* surfaces of the windows open by themselves.                             *)
(*                                                                         *)
(* A call through a pointer into a library that is not open is a fault.    *)
(***************************************************************************)
EXTENDS Naturals

CONSTANT MaxPinned \* bound: attempts to connect that fail with the library open

ASSUME LibrariesAssumption == MaxPinned \in Nat

VARIABLES
  driver,   \* sdlop.video: "none", "wayland" or "dummy"
  display,  \* wl_data.display
  wl,       \* wayland_lib, and wayland_load_refcount
  vk,       \* vulkan_handle, and vk_get_instance_proc_addr
  mapped,   \* there is a window with a Wayland surface
  pinned,   \* history: attempts to connect that left a count behind
  fault

librariesVars == <<driver, display, wl, vk, mapped, pinned, fault>>

NotLoaded == [lib |-> FALSE, refs |-> 0]

LibrariesInit ==
  /\ driver = "none" /\ display = FALSE /\ mapped = FALSE
  /\ wl = NotLoaded /\ vk = [handle |-> FALSE, gipa |-> FALSE]
  /\ pinned = 0 /\ fault = FALSE

-----------------------------------------------------------------------------
\* Mutant: the second load is not counted.
LoadSymbolsUncounted(found) == IF wl.lib THEN wl ELSE IF found THEN [lib |-> TRUE, refs |-> 1] ELSE wl

\* SDLOP_Wayland_LoadSymbols; a library without all the symbols is closed.
LoadSymbols(found) ==
  IF wl.lib THEN [lib |-> TRUE, refs |-> wl.refs + 1] ELSE IF found THEN [lib |-> TRUE, refs |-> 1] ELSE wl

\* SDLOP_Wayland_UnloadSymbols
UnloadSymbols ==
  IF ~wl.lib THEN wl ELSE IF wl.refs > 1 THEN [lib |-> TRUE, refs |-> wl.refs - 1] ELSE NotLoaded

\* wayland_Init: `asked` by name, with a WAYLAND_DISPLAY or not, as far as it
\* gets: the library, the display and its globals.
WaylandConnects(asked, named, reached) == (asked \/ named) /\ reached = "globals"

Connect(asked, named, reached) ==
  LET loaded == LoadSymbols(reached # "nothing") IN
  IF ~(asked \/ named) \/ ~loaded.lib
  THEN UNCHANGED <<wl, display, pinned>>
  ELSE /\ wl' = loaded
       /\ display' = (reached = "globals")
       /\ pinned' = IF reached = "globals" THEN pinned ELSE pinned + 1

\* SDLOP_VideoInit: the driver SDL_VIDEODRIVER names, or the first that
\* starts, and the dummy driver always does.
InitVideo(hint, named, reached) ==
  /\ driver = "none" /\ pinned < MaxPinned
  /\ IF hint = "dummy" THEN driver' = "dummy" /\ UNCHANGED <<wl, display, pinned>>
     ELSE /\ Connect(hint = "wayland", named, reached)
          /\ driver' = IF WaylandConnects(hint = "wayland", named, reached) THEN "wayland"
                       ELSE IF hint = "wayland" THEN "none" ELSE "dummy"
  /\ UNCHANGED <<vk, mapped, fault>>

\* SDLOP_VideoQuit, wayland_Quit: the proxies and the display go, through the
\* library, before its count does.
QuitVideo ==
  /\ driver # "none" /\ driver' = "none"
  /\ IF driver = "wayland"
     THEN wl' = UnloadSymbols /\ display' = FALSE /\ fault' = (fault \/ ~wl.lib)
     ELSE UNCHANGED <<wl, display, fault>>
  /\ mapped' = FALSE
  /\ UNCHANGED <<vk, pinned>>

\* SDL_CreateWindow or SDL_ShowWindow, and SDL_HideWindow or SDL_DestroyWindow
MapWindow ==
  /\ driver = "wayland"
  /\ mapped' = ~mapped
  /\ fault' = (fault \/ ~wl.lib)
  /\ UNCHANGED <<driver, display, wl, vk, pinned>>

-----------------------------------------------------------------------------
(* SDL_vulkan.c *)

\* Mutant: a loader without the entry point stays open.
LoadVulkanKeepsOpen(reached) ==
  IF vk.handle THEN vk ELSE [handle |-> reached # "nothing", gipa |-> reached = "entry"]

\* SDL_Vulkan_LoadLibrary: a loader is found, and it has the entry point.
LoadVulkan(reached) ==
  IF vk.handle THEN vk
  ELSE [handle |-> reached = "entry", gipa |-> reached = "entry"]

LoadLibrary(reached) ==
  /\ vk' = LoadVulkan(reached)
  /\ UNCHANGED <<driver, display, wl, mapped, pinned, fault>>

UnloadLibrary ==
  /\ vk' = [handle |-> FALSE, gipa |-> FALSE]
  /\ UNCHANGED <<driver, display, wl, mapped, pinned, fault>>

\* SDL_Vulkan_CreateSurface, which loads the library itself, with
\* SDLOP_Wayland_Vulkan_CreateSurface; SDL_Vulkan_GetPresentationSupport is
\* the first step of it.
VulkanCreateSurface(reached) ==
  /\ vk' = LoadVulkan(reached)
  /\ fault' = (fault \/ (vk'.handle /\ driver = "wayland" /\ mapped /\ ~(display /\ vk'.gipa)))
  /\ UNCHANGED <<driver, display, wl, mapped, pinned>>

\* SDL_Vulkan_DestroySurface asks the entry point whenever the library is open.
VulkanDestroySurface ==
  /\ vk.handle
  /\ fault' = (fault \/ ~vk.gipa)
  /\ UNCHANGED <<driver, display, wl, vk, mapped, pinned>>

Steps == {"nothing", "library", "globals"}
LibrariesNext ==
  \/ \E hint \in {"unset", "wayland", "dummy"}, named \in BOOLEAN, reached \in Steps :
       InitVideo(hint, named, reached)
  \/ QuitVideo \/ MapWindow
  \/ \E reached \in {"nothing", "library", "entry"} : LoadLibrary(reached) \/ VulkanCreateSurface(reached)
  \/ UnloadLibrary \/ VulkanDestroySurface

LibrariesSpec == LibrariesInit /\ [][LibrariesNext]_librariesVars

-----------------------------------------------------------------------------
(* The library a driver works through stays open until the driver is gone,   *)
(* over sessions of which some failed to connect: its count is the session   *)
(* and the failures, which are never taken back; and no call goes through a  *)
(* pointer that is not there, of Wayland's or of Vulkan's.                   *)
OpenWhileUsed ==
  /\ ~fault
  /\ driver = "wayland" => wl.lib /\ display
  /\ wl.lib <=> wl.refs > 0
  /\ wl.refs = pinned + (IF driver = "wayland" THEN 1 ELSE 0)
=============================================================================
