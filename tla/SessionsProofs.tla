---------------------------- MODULE SessionsProofs ----------------------------
(***************************************************************************)
(* Proofs about what a session opens and gives back: the libraries under a *)
(* driver, the descriptors, devices and callbacks of raw input, the        *)
(* outputs and devices of the compositor, the windows with the events that *)
(* tell of them, and the surfaces they are painted on, for tables, queues  *)
(* and images of any size.                                                 *)
(***************************************************************************)
EXTENDS RawDevices, Libraries, Registry, Windows, Surfaces, SequenceTheorems, FiniteSetTheorems,
        WellFoundedInduction, TLAPS

-----------------------------------------------------------------------------
(* Libraries. *)

\* The library with n references.
Loaded(n) == IF n = 0 THEN NotLoaded ELSE [lib |-> TRUE, refs |-> n]

References == pinned + (IF driver = "wayland" THEN 1 ELSE 0)

\* References are those of failed attempts, and the driver's.
WaylandCounted ==
  /\ driver \in {"none", "wayland", "dummy"} /\ pinned \in Nat
  /\ wl = Loaded(References)
  /\ driver = "wayland" => display

\* The entry point of Vulkan's is there as long as its library is open.
LibrariesInv == WaylandCounted /\ (vk.gipa <=> vk.handle) /\ ~fault

LEMMA LibrariesInvInit == LibrariesInit => LibrariesInv
<1> SUFFICES ASSUME LibrariesInit PROVE LibrariesInv
  OBVIOUS
<1>1. References = 0 /\ pinned \in Nat /\ driver = "none"
  BY DEF LibrariesInit, References
<1>2. WaylandCounted
  BY <1>1, Zenon DEF LibrariesInit, WaylandCounted, Loaded
<1> QED
  BY <1>2, Zenon DEF LibrariesInit, LibrariesInv

LEMMA ReferencesNat == ASSUME WaylandCounted PROVE References \in Nat
BY DEF WaylandCounted, References

\* The count of a library that is loaded, and of one that is given back.
LEMMA LoadedCounts ==
  ASSUME NEW n \in Nat, wl = Loaded(n)
  PROVE  /\ wl.lib <=> n > 0
         /\ wl.refs = n
         /\ LoadSymbols(TRUE) = Loaded(n + 1)
         /\ n > 0 => LoadSymbols(FALSE) = Loaded(n + 1) /\ UnloadSymbols = Loaded(n - 1)
         /\ n = 0 => LoadSymbols(FALSE) = wl
<1>1. Loaded(n + 1) = [lib |-> TRUE, refs |-> n + 1]
  <2>1. n + 1 # 0
    OBVIOUS
  <2> QED
    BY <2>1, Zenon DEF Loaded
<1>2. CASE n = 0
  <2>1. ~wl.lib /\ wl.refs = n
    BY <1>2 DEF Loaded, NotLoaded
  <2>2. LoadSymbols(TRUE) = [lib |-> TRUE, refs |-> 1] /\ LoadSymbols(FALSE) = wl
    BY <2>1, Zenon DEF LoadSymbols
  <2>3. LoadSymbols(TRUE) = Loaded(n + 1)
    <3>1. n + 1 = 1
      BY <1>2
    <3> QED
      BY <1>1, <2>2, <3>1, Zenon
  <2>4. ~(n > 0)
    BY <1>2
  <2> QED
    BY <2>1, <2>2, <2>3, <2>4, Zenon
<1>3. CASE n # 0
  <2>1. wl.lib /\ wl.refs = n
    BY <1>3, Zenon DEF Loaded
  <2>2. LoadSymbols(TRUE) = Loaded(n + 1) /\ LoadSymbols(FALSE) = Loaded(n + 1)
    BY <1>1, <2>1, Zenon DEF LoadSymbols
  <2>3. UnloadSymbols = Loaded(n - 1)
    <3>1. CASE n > 1
      <4>1. Loaded(n - 1) = [lib |-> TRUE, refs |-> n - 1]
        <5>1. n - 1 # 0
          BY <3>1
        <5> QED
          BY <5>1, Zenon DEF Loaded
      <4> QED
        BY <2>1, <3>1, <4>1, Zenon DEF UnloadSymbols
    <3>2. CASE ~(n > 1)
      <4>1. n - 1 = 0
        BY <1>3, <3>2
      <4> QED
        BY <2>1, <3>2, <4>1, Zenon DEF Loaded, UnloadSymbols
    <3> QED
      BY <3>1, <3>2
  <2>4. n > 0
    BY <1>3
  <2> QED
    BY <1>3, <2>1, <2>2, <2>3, <2>4, Zenon
<1> QED
  BY <1>2, <1>3

\* A driver that connects holds one reference more; an attempt that fails with
\* the library open is the reference it leaves.
LEMMA InitVideoKeeps ==
  ASSUME LibrariesInv, NEW hint \in {"unset", "wayland", "dummy"}, NEW named \in BOOLEAN,
         NEW reached \in Steps, InitVideo(hint, named, reached)
  PROVE  LibrariesInv'
<1>1. driver = "none" /\ pinned \in Nat /\ wl = Loaded(References) /\ vk' = vk /\ fault' = fault
  BY Zenon DEF InitVideo, LibrariesInv, WaylandCounted
<1>2. References = pinned
  BY <1>1 DEF References
<1> DEFINE loaded == LoadSymbols(reached # "nothing")
           tried == hint = "wayland" \/ named
<1>4. ASSUME hint = "dummy" \/ ~tried \/ ~loaded.lib PROVE WaylandCounted'
  <2>1. /\ wl' = wl /\ pinned' = pinned
        /\ driver' \in {"none", "dummy"} \/ (reached = "globals" /\ tried)
    BY <1>4, Zenon DEF InitVideo, Connect, WaylandConnects
  <2>2. driver' \in {"none", "dummy"}
    <3>1. CASE reached = "globals" /\ tried
      <4>1. loaded = Loaded(pinned + 1)
        BY <1>1, <1>2, <3>1, LoadedCounts, Zenon
      <4>2. pinned + 1 # 0
        BY <1>1
      <4>3. loaded.lib
        <5>1. Loaded(pinned + 1) = [lib |-> TRUE, refs |-> pinned + 1]
          BY <4>2, Zenon DEF Loaded
        <5>2. loaded = [lib |-> TRUE, refs |-> pinned + 1]
          BY <4>1, <5>1, Zenon
        <5> HIDE DEF loaded
        <5> QED
          BY <5>2, Zenon
      <4>4. hint = "dummy"
        BY <1>4, <3>1, <4>3, Zenon
      <4> HIDE DEF loaded, tried
      <4>5. driver' = "dummy"
        BY <4>4, Zenon DEF InitVideo
      <4> QED
        BY <4>5
    <3> QED
      BY <2>1, <3>1, Zenon
  <2>3. References' = pinned /\ driver' # "wayland"
    BY <1>1, <2>1, <2>2 DEF References
  <2>4. driver' \in {"none", "wayland", "dummy"} /\ pinned' \in Nat
    BY <1>1, <2>1, <2>2
  <2>5. wl' = Loaded(References')
    BY <1>1, <1>2, <2>1, <2>3, Zenon
  <2> QED
    BY <2>3, <2>4, <2>5, Zenon DEF WaylandCounted
<1>5. ASSUME hint # "dummy" /\ tried /\ loaded.lib PROVE WaylandCounted'
  <2>1. loaded = Loaded(pinned + 1)
    <3>1. CASE reached # "nothing"
      BY <1>1, <1>2, <3>1, LoadedCounts, Zenon
    <3>2. CASE reached = "nothing" /\ pinned > 0
      BY <1>1, <1>2, <3>2, LoadedCounts, Zenon
    <3>3. CASE reached = "nothing" /\ pinned = 0
      BY <1>1, <1>2, <1>5, <3>3, LoadedCounts, Zenon DEF Loaded, NotLoaded
    <3>4. pinned > 0 \/ pinned = 0
      BY <1>1
    <3> QED
      BY <3>1, <3>2, <3>3, <3>4, Zenon
  <2>2. wl' = Loaded(pinned + 1)
    BY <1>5, <2>1, Zenon DEF InitVideo, Connect
  <2>3. CASE reached = "globals"
    <3>1. driver' = "wayland" /\ pinned' = pinned /\ display' = TRUE
      BY <1>5, <2>3, Zenon DEF InitVideo, Connect, WaylandConnects
    <3>2. References' = pinned + 1
      BY <3>1 DEF References
    <3>3. driver' \in {"none", "wayland", "dummy"} /\ pinned' \in Nat
      BY <1>1, <3>1
    <3>4. wl' = Loaded(References')
      BY <2>2, <3>2, Zenon
    <3> QED
      BY <3>1, <3>3, <3>4, Zenon DEF WaylandCounted
  <2>4. CASE reached # "globals"
    <3>1. driver' \in {"none", "dummy"} /\ pinned' = pinned + 1
      BY <1>5, <2>4, Zenon DEF InitVideo, Connect, WaylandConnects
    <3>2. References' = pinned + 1 /\ pinned' \in Nat
      BY <1>1, <3>1 DEF References
    <3>3. driver' \in {"none", "wayland", "dummy"} /\ driver' # "wayland"
      BY <3>1
    <3>4. wl' = Loaded(References')
      BY <2>2, <3>2, Zenon
    <3> QED
      BY <3>2, <3>3, <3>4, Zenon DEF WaylandCounted
  <2> QED
    BY <2>3, <2>4
<1> HIDE DEF loaded, tried
<1>6. WaylandCounted'
  BY <1>4, <1>5, Zenon
<1> QED
  BY <1>1, <1>6, Zenon DEF LibrariesInv

LEMMA QuitVideoKeeps == ASSUME LibrariesInv, QuitVideo PROVE LibrariesInv'
<1>1. WaylandCounted /\ References \in Nat /\ driver' = "none" /\ pinned' = pinned /\ vk' = vk
  BY ReferencesNat, Zenon DEF QuitVideo, LibrariesInv
<1>2. References' = pinned
  BY <1>1 DEF References, WaylandCounted
<1>3. CASE driver = "wayland"
  <2>1. References = pinned + 1 /\ References > 0 /\ References - 1 = pinned
    BY <1>1, <1>3 DEF References, WaylandCounted
  <2>2. wl.lib /\ UnloadSymbols = Loaded(pinned)
    BY <1>1, <2>1, LoadedCounts, Zenon DEF WaylandCounted
  <2>3. wl' = Loaded(pinned) /\ ~fault'
    BY <1>3, <2>2, Zenon DEF QuitVideo, LibrariesInv
  <2> QED
    BY <1>1, <1>2, <2>3, Zenon DEF LibrariesInv, WaylandCounted
<1>4. CASE driver # "wayland"
  <2>1. References = pinned
    BY <1>1, <1>4 DEF References, WaylandCounted
  <2>2. wl' = wl /\ fault' = fault
    BY <1>4, Zenon DEF QuitVideo
  <2> QED
    BY <1>1, <1>2, <2>1, <2>2, Zenon DEF LibrariesInv, WaylandCounted
<1> QED
  BY <1>3, <1>4

\* A driver that runs has its library.
LEMMA DriverHasLibrary == ASSUME LibrariesInv, driver = "wayland" PROVE wl.lib /\ display
<1>1. WaylandCounted /\ References \in Nat
  BY ReferencesNat, Zenon DEF LibrariesInv
<1>2. References > 0
  BY <1>1 DEF References, WaylandCounted
<1> QED
  BY <1>1, <1>2, LoadedCounts, Zenon DEF WaylandCounted

LEMMA LibrariesInvStep == LibrariesInv /\ [LibrariesNext]_librariesVars => LibrariesInv'
<1> SUFFICES ASSUME LibrariesInv, [LibrariesNext]_librariesVars PROVE LibrariesInv'
  OBVIOUS
<1>0. ASSUME UNCHANGED <<driver, display, wl, pinned>> PROVE WaylandCounted'
  BY <1>0, Zenon DEF LibrariesInv, WaylandCounted, References
<1>1. ASSUME NEW hint \in {"unset", "wayland", "dummy"}, NEW named \in BOOLEAN, NEW reached \in Steps,
             InitVideo(hint, named, reached)
      PROVE  LibrariesInv'
  BY <1>1, InitVideoKeeps
<1>2. CASE QuitVideo
  BY <1>2, QuitVideoKeeps
<1>3. CASE MapWindow
  BY <1>0, <1>3, DriverHasLibrary, Zenon DEF MapWindow, LibrariesInv
<1>4. ASSUME NEW reached, LoadVulkan(reached) = vk' PROVE vk'.gipa <=> vk'.handle
  BY <1>4, Zenon DEF LoadVulkan, LibrariesInv
<1>5. ASSUME NEW reached, LoadLibrary(reached) PROVE LibrariesInv'
  BY <1>0, <1>4, <1>5, Zenon DEF LoadLibrary, LibrariesInv
<1>6. ASSUME NEW reached, VulkanCreateSurface(reached) PROVE LibrariesInv'
  BY <1>0, <1>4, <1>6, DriverHasLibrary, Zenon DEF VulkanCreateSurface, LibrariesInv
<1>7. CASE UnloadLibrary
  BY <1>0, <1>7, Zenon DEF UnloadLibrary, LibrariesInv
<1>8. CASE VulkanDestroySurface
  BY <1>0, <1>8, Zenon DEF VulkanDestroySurface, LibrariesInv
<1>9. CASE UNCHANGED librariesVars
  BY <1>0, <1>9, Zenon DEF librariesVars, LibrariesInv
<1> QED
  BY <1>1, <1>2, <1>3, <1>5, <1>6, <1>7, <1>8, <1>9 DEF LibrariesNext

(* No call of SDLop goes through a library that was closed, and libwayland is *)
(* counted once for a driver that runs and once for each that failed to start *)
(* with it (sdlop_wayland_dyn.c, SDL_vulkan.c, SDLOP_VideoInit).              *)
THEOREM LibrariesAlwaysOpenWhileUsed == LibrariesSpec => []OpenWhileUsed
<1>1. ASSUME LibrariesInv PROVE OpenWhileUsed
  <2>1. WaylandCounted /\ References \in Nat
    BY <1>1, ReferencesNat, Zenon DEF LibrariesInv
  <2>2. (wl.lib <=> wl.refs > 0) /\ wl.refs = References
    BY <2>1, LoadedCounts, Zenon DEF WaylandCounted
  <2> QED
    BY <1>1, <2>2, DriverHasLibrary, Zenon DEF LibrariesInv, OpenWhileUsed, References
<1> QED
  BY <1>1, LibrariesInvInit, LibrariesInvStep, PTL DEF LibrariesSpec
-----------------------------------------------------------------------------
(* Descriptors and devices. *)

\* There is a lowest free descriptor, and it is free.
LEMMA LowestIsFree ==
  ASSUME NEW S \in SUBSET Nat, IsFiniteSet(S)
  PROVE  Lowest(S) \in Nat \ S
<1> DEFINE free == (0..Cardinality(S)) \ S
<1>1. Cardinality(S) \in Nat
  BY FS_CardinalityType
<1>2. free # {}
  <2>1. Cardinality(0..Cardinality(S)) = Cardinality(S) + 1
    BY <1>1, FS_Interval
  <2>2. ~(0..Cardinality(S) \subseteq S)
    <3>1. ASSUME 0..Cardinality(S) \subseteq S
          PROVE  Cardinality(0..Cardinality(S)) <= Cardinality(S)
      BY <3>1, FS_Subset, Zenon
    <3> QED
      BY <1>1, <2>1, <3>1
  <2> QED
    BY <2>2
<1>3. free \subseteq Nat
  BY <1>1
<1>4. PICK n \in free : \A m \in free : ~(<<m, n>> \in OpToRel(<, Nat))
  <2> HIDE DEF free
  <2> QED
    BY <1>2, <1>3, NatLessThanWellFounded, WFMin, Zenon
<1>5. n \in 0..Cardinality(S) /\ n \notin S
  BY <1>4
<1>6. ASSUME NEW k \in 0..(n - 1) PROVE k \in S
  <2>1. k \in Nat /\ n \in Nat /\ k < n /\ k \in 0..Cardinality(S)
    BY <1>1, <1>5
  <2>2. <<k, n>> \in OpToRel(<, Nat)
    BY <2>1 DEF OpToRel
  <2> QED
    BY <1>4, <2>1, <2>2, Zenon
<1> QED
  BY <1>1, <1>5, <1>6 DEF Lowest

DeviceFds == {devices[i].fd : i \in DOMAIN devices}
Kept == lost \cup ({fds.wake} \ {NoFd})

DevicesTyped ==
  /\ devices \in Seq([fd : Nat, can : Abilities])
  /\ fds \in [wake : Nat \cup {NoFd}, epoll : Nat \cup {NoFd}, control : Nat \cup {NoFd}]
  /\ files \subseteq Nat /\ IsFiniteSet(files)

\* No descriptor is used for two things.
FdsApart ==
  /\ fds.wake \notin lost
  /\ main # "off" =>
       /\ fds.epoll \in Nat \ Kept /\ fds.control \in Nat \ Kept /\ fds.epoll # fds.control
       /\ DeviceFds \cap (Kept \cup {fds.epoll, fds.control}) = {}

\* What the devices can do is noted from the first one opened.
HaveNoted ==
  main \in {"opening", "on"} => have = unwatched \cup UNION {devices[i].can : i \in DOMAIN devices}

DevicesInv ==
  /\ DevicesTyped /\ FdsApart /\ FdsAccounted /\ HaveNoted
  /\ TagNamesDevice /\ IsFiniteSet(watched)

LEMMA DevicesInvInit == DevicesInit => DevicesInv
<1> SUFFICES ASSUME DevicesInit PROVE DevicesInv
  OBVIOUS
<1>1. DevicesTyped /\ IsFiniteSet(watched)
  BY FS_EmptySet DEF DevicesInit, DevicesTyped, NoFd
<1>2. FdsApart /\ HaveNoted /\ TagNamesDevice
  BY DEF DevicesInit, FdsApart, HaveNoted, TagNamesDevice
<1>3. FdsAccounted
  BY DEF DevicesInit, FdsAccounted
<1> QED
  BY <1>1, <1>2, <1>3 DEF DevicesInv

\* Init takes descriptors that are free.
LEMMA StartInitKeeps ==
  ASSUME DevicesInv, NEW created \in 0..3, NEW woken \in BOOLEAN, StartInit(created, woken)
  PROVE  DevicesInv'
<1> DEFINE wake == IF fds.wake # NoFd THEN fds.wake ELSE IF woken THEN Lowest(files) ELSE NoFd
           held == files \cup ({wake} \ {NoFd})
           epoll == Lowest(held)
           control == Lowest(held \cup {epoll})
<1>1. files \subseteq Nat /\ IsFiniteSet(files) /\ files = Kept /\ fds.wake \notin lost
  BY DEF DevicesInv, DevicesTyped, FdsAccounted, FdsApart, StartInit, Kept
<1>2. /\ wake \in Nat \cup {NoFd} /\ wake \notin lost
      /\ held = lost \cup ({wake} \ {NoFd})
  BY <1>1, LowestIsFree DEF DevicesInv, DevicesTyped, Kept, NoFd
<1>3. held \subseteq Nat /\ IsFiniteSet(held)
  <2>1. wake # NoFd => IsFiniteSet(files \cup {wake})
    BY <1>1, FS_AddElement
  <2> QED
    BY <1>1, <1>2, <2>1
<1> HIDE DEF wake, held
<1>4. epoll \in Nat \ held
  BY <1>3, LowestIsFree
<1> HIDE DEF epoll
<1>5. IsFiniteSet(held \cup {epoll}) /\ held \cup {epoll} \subseteq Nat
  BY <1>3, <1>4, FS_AddElement
<1>6. control \in Nat \ (held \cup {epoll})
  BY <1>5, LowestIsFree
<1> HIDE DEF control
<1>7. IsFiniteSet(held \cup {epoll, control})
  <2>1. held \cup {epoll, control} = (held \cup {epoll}) \cup {control}
    OBVIOUS
  <2> QED
    BY <1>5, <2>1, FS_AddElement
<1>8. /\ devices' = <<>> /\ have' = {} /\ unwatched' = {} /\ lost' = lost /\ main = "off"
  BY DEF StartInit
<1>9. CASE created = 3
  <2>1. /\ files' = held \cup {epoll, control} /\ watched' = {<<control, Control>>}
        /\ fds' = [wake |-> wake, epoll |-> epoll, control |-> control] /\ main' = "opening"
    BY <1>9 DEF StartInit, wake, held, epoll, control
  <2>2. DevicesTyped'
    BY <1>2, <1>3, <1>4, <1>6, <1>7, <1>8, <2>1 DEF DevicesTyped
  <2>3. Kept' = held /\ DeviceFds' = {}
    BY <1>2, <1>8, <2>1 DEF Kept, DeviceFds
  <2>4. FdsApart'
    BY <1>2, <1>4, <1>6, <1>8, <2>1, <2>3 DEF FdsApart
  <2>5. FdsAccounted'
    BY <1>2, <1>8, <2>1 DEF FdsAccounted
  <2>6. HaveNoted'
    BY <1>8 DEF HaveNoted
  <2>7. IsFiniteSet(watched') /\ Cardinality(watched') = 1
    BY <2>1, FS_Singleton
  <2>8. TagNamesDevice'
    BY <1>8, <2>1, <2>7 DEF TagNamesDevice
  <2> QED
    BY <2>2, <2>4, <2>5, <2>6, <2>7, <2>8 DEF DevicesInv
<1>10. CASE created # 3
  <2>1. /\ files' = held /\ watched' = watched /\ main' = "off"
        /\ fds' = [wake |-> wake, epoll |-> NoFd, control |-> NoFd]
    BY <1>8, <1>10 DEF StartInit, wake, held
  <2>2. DevicesTyped'
    BY <1>2, <1>3, <1>8, <2>1 DEF DevicesTyped
  <2>3. FdsApart' /\ HaveNoted' /\ TagNamesDevice'
    BY <1>2, <1>8, <2>1 DEF FdsApart, HaveNoted, TagNamesDevice
  <2>4. FdsAccounted'
    BY <1>2, <1>8, <2>1 DEF FdsAccounted
  <2> QED
    BY <2>1, <2>2, <2>3, <2>4 DEF DevicesInv
<1> QED
  BY <1>9, <1>10

\* What is registered and called changes nothing here.
LEMMA NothingOpened ==
  ASSUME DevicesInv, UNCHANGED <<main, openVars, unwatched, lost>> PROVE DevicesInv'
BY DEF DevicesInv, DevicesTyped, FdsApart, FdsAccounted, HaveNoted, TagNamesDevice,
       openVars, Kept, DeviceFds

\* A device that is added gets a free descriptor, and the tag of its slot.
LEMMA OpenDeviceKeeps ==
  ASSUME DevicesInv, NEW can \in Abilities, NEW outcome \in Outcomes, OpenDevice(can, outcome)
  PROVE  DevicesInv'
<1> DEFINE fd == Lowest(files)
<1>1. main = "opening" /\ main' = main /\ fds' = fds /\ lost' = lost /\ fd \in Nat \ files
  BY LowestIsFree DEF OpenDevice, DevicesInv, DevicesTyped
<1> HIDE DEF fd
<1>2. CASE outcome \in {"denied", "mute"} \/ can = {}
  <2>1. UNCHANGED <<main, openVars, unwatched, lost>>
    BY <1>2, Zenon DEF OpenDevice
  <2> QED
    BY <2>1, NothingOpened
<1>3. CASE outcome = "refused" /\ can # {}
  <2>1. /\ UNCHANGED <<main, files, watched, fds, devices, lost>>
        /\ have' = have \cup can /\ unwatched' = unwatched \cup can
    BY <1>3 DEF OpenDevice
  <2>2. HaveNoted'
    BY <1>1, <2>1 DEF HaveNoted, DevicesInv
  <2> QED
    BY <2>1, <2>2 DEF DevicesInv, DevicesTyped, FdsApart, FdsAccounted, TagNamesDevice, Kept, DeviceFds
<1>4. CASE outcome = "added" /\ can # {}
  <2>1. /\ files' = files \cup {fd} /\ watched' = watched \cup {<<fd, Len(devices)>>}
        /\ devices' = Append(devices, [fd |-> fd, can |-> can])
        /\ have' = have \cup can /\ unwatched' = unwatched
    BY <1>4 DEF OpenDevice, fd
  <2>2. DevicesTyped'
    <3>1. IsFiniteSet(files \cup {fd})
      BY FS_AddElement DEF DevicesInv, DevicesTyped
    <3> QED
      BY <1>1, <2>1, <3>1 DEF DevicesInv, DevicesTyped
  <2>3. /\ Len(devices') = Len(devices) + 1 /\ Len(devices) \in Nat
        /\ DOMAIN devices = 1..Len(devices) /\ DOMAIN devices' = 1..(Len(devices) + 1)
        /\ \A i \in DOMAIN devices : devices'[i] = devices[i]
        /\ devices'[Len(devices) + 1] = [fd |-> fd, can |-> can]
    BY <2>1 DEF DevicesInv, DevicesTyped
  <2>4. DeviceFds' = DeviceFds \cup {fd} /\ Kept' = Kept
    BY <1>1, <2>3 DEF DeviceFds, Kept
  <2>5. files = Kept \cup {fds.epoll, fds.control} \cup DeviceFds
    BY <1>1 DEF DevicesInv, FdsAccounted, Kept, DeviceFds
  <2>6. FdsApart'
    BY <1>1, <2>4, <2>5 DEF DevicesInv, FdsApart
  <2>7. FdsAccounted'
    <3>1. files' = Kept' \cup {fds'.epoll, fds'.control} \cup DeviceFds'
      BY <1>1, <2>1, <2>4, <2>5
    <3> QED
      BY <1>1, <3>1 DEF FdsAccounted, Kept, DeviceFds
  <2>8. HaveNoted'
    <3>1. UNION {devices'[i].can : i \in DOMAIN devices'}
            = can \cup UNION {devices[i].can : i \in DOMAIN devices}
      BY <2>3
    <3> QED
      BY <1>1, <2>1, <3>1 DEF DevicesInv, HaveNoted
  <2>9. TagNamesDevice' /\ IsFiniteSet(watched')
    <3>1. /\ watched = {<<fds.control, Control>>} \cup {<<devices[i].fd, i - 1>> : i \in DOMAIN devices}
          /\ {w[1] : w \in watched} \subseteq files /\ Cardinality(watched) = Len(devices) + 1
          /\ IsFiniteSet(watched)
      BY <1>1 DEF DevicesInv, TagNamesDevice
    <3>2. <<fd, Len(devices)>> \notin watched
      <4>1. ASSUME <<fd, Len(devices)>> \in watched PROVE <<fd, Len(devices)>>[1] \in files
        BY <3>1, <4>1
      <4> QED
        BY <1>1, <4>1
    <3>3. IsFiniteSet(watched') /\ Cardinality(watched') = Len(devices') + 1
      <4>1. /\ IsFiniteSet(watched \cup {<<fd, Len(devices)>>})
            /\ Cardinality(watched \cup {<<fd, Len(devices)>>}) = Cardinality(watched) + 1
        BY <3>1, <3>2, FS_AddElement, Zenon
      <4> QED
        BY <2>1, <2>3, <3>1, <4>1
    <3>4. watched' = {<<fds.control, Control>>} \cup {<<devices'[i].fd, i - 1>> : i \in DOMAIN devices'}
      <4>1. {<<devices'[i].fd, i - 1>> : i \in DOMAIN devices'}
              = {<<devices[i].fd, i - 1>> : i \in DOMAIN devices} \cup {<<fd, Len(devices)>>}
        BY <2>3
      <4> QED
        BY <2>1, <3>1, <4>1
    <3>5. {w[1] : w \in watched'} \subseteq files'
      BY <2>1, <3>1
    <3> QED
      BY <1>1, <3>3, <3>4, <3>5 DEF TagNamesDevice
  <2> QED
    BY <2>2, <2>6, <2>7, <2>8, <2>9 DEF DevicesInv
<1>5. outcome \in {"denied", "mute", "refused", "added"}
  BY DEF Outcomes
<1> QED
  BY <1>2, <1>3, <1>4, <1>5

\* What is off owes nothing: an end that closes all it opened, but for what is lost.
LEMMA ClosingKeeps ==
  ASSUME DevicesInv, main' = "off", IsFiniteSet(watched'), devices' \in {devices, <<>>},
         fds' \in [wake : Nat \cup {NoFd}, epoll : Nat \cup {NoFd}, control : Nat \cup {NoFd}],
         files' = Kept', files' \subseteq files, fds'.wake \notin lost'
  PROVE  DevicesInv'
<1>1. DevicesTyped'
  <2>1. IsFiniteSet(files')
    BY FS_Subset DEF DevicesInv, DevicesTyped
  <2>2. files' \subseteq Nat
    BY DEF DevicesInv, DevicesTyped
  <2>3. devices' \in Seq([fd : Nat, can : Abilities])
    <3>1. CASE devices' = devices
      BY <3>1, Zenon DEF DevicesInv, DevicesTyped
    <3>2. CASE devices' = <<>>
      BY <3>2
    <3> QED
      BY <3>1, <3>2
  <2> QED
    BY <2>1, <2>2, <2>3, Zenon DEF DevicesTyped
<1>2. FdsApart' /\ HaveNoted' /\ TagNamesDevice'
  BY DEF FdsApart, HaveNoted, TagNamesDevice
<1>3. FdsAccounted'
  BY DEF FdsAccounted, Kept
<1> QED
  BY <1>1, <1>2, <1>3 DEF DevicesInv

LEMMA WatchedStaysFinite ==
  ASSUME DevicesInv, NEW gone, Closed(gone) PROVE IsFiniteSet(watched') /\ files' \subseteq files
<1>1. watched' \subseteq watched
  BY DEF Closed
<1> QED
  BY <1>1, FS_Subset DEF DevicesInv, Closed

LEMMA DevicesInvStep == DevicesInv /\ [DevicesNext \/ CallbacksNext]_deviceVars => DevicesInv'
<1> SUFFICES ASSUME DevicesInv, [DevicesNext \/ CallbacksNext]_deviceVars PROVE DevicesInv'
  OBVIOUS
<1>a. main # "off" => files = Kept \cup {fds.epoll, fds.control} \cup DeviceFds
  BY DEF DevicesInv, FdsAccounted, Kept, DeviceFds
<1>b. fds \in [wake : Nat \cup {NoFd}, epoll : Nat \cup {NoFd}, control : Nat \cup {NoFd}]
  BY DEF DevicesInv, DevicesTyped
<1>c. /\ fds.wake \notin lost
      /\ main # "off" =>
           /\ fds.epoll \in Nat \ Kept /\ fds.control \in Nat \ Kept /\ fds.epoll # fds.control
           /\ DeviceFds \cap (Kept \cup {fds.epoll, fds.control}) = {}
  BY DEF DevicesInv, FdsApart
<1>0. ASSUME UNCHANGED <<main, openVars, unwatched, lost>> PROVE DevicesInv'
  BY <1>0, NothingOpened
<1>1. ASSUME NEW created \in 0..3, NEW woken \in BOOLEAN, StartInit(created, woken) PROVE DevicesInv'
  BY <1>1, StartInitKeeps
<1>2. ASSUME NEW can \in Abilities, NEW outcome \in Outcomes, OpenDevice(can, outcome) PROVE DevicesInv'
  BY <1>2, OpenDeviceKeeps
<1>3. CASE NoDevices
  <2>1. /\ main # "off" /\ devices = <<>> /\ devices' = devices /\ main' = "off" /\ lost' = lost
        /\ fds' = [fds EXCEPT !.control = NoFd, !.epoll = NoFd] /\ Closed({fds.control, fds.epoll})
    BY <1>3 DEF NoDevices, AllRead
  <2>2. Kept' = Kept /\ DeviceFds = {}
    BY <1>b, <2>1 DEF Kept, DeviceFds
  <2>3. files' = Kept'
    BY <1>a, <1>c, <2>1, <2>2 DEF Closed
  <2> QED
    BY <1>b, <1>c, <2>1, <2>3, ClosingKeeps, WatchedStaysFinite
<1>4. CASE WorkerFails
  <2>1. /\ main # "off" /\ devices' = <<>> /\ main' = "off" /\ lost' = lost \cup {fds.control}
        /\ fds' = [fds EXCEPT !.epoll = NoFd] /\ Closed(DeviceFds \cup {fds.epoll})
    BY <1>4 DEF WorkerFails, AllRead, DeviceFds
  <2>2. Kept' = Kept \cup {fds.control} /\ fds'.wake = fds.wake
    BY <1>b, <2>1 DEF Kept
  <2>3. files' = Kept'
    BY <1>a, <1>c, <2>1, <2>2 DEF Closed
  <2>4. fds.wake # fds.control
    BY <1>b, <1>c, <2>1 DEF Kept, NoFd
  <2> QED
    BY <1>b, <1>c, <2>1, <2>2, <2>3, <2>4, ClosingKeeps, WatchedStaysFinite
<1>5. CASE FinishQuit
  <2>1. /\ main # "off" /\ devices' = <<>> /\ main' = "off" /\ lost' = lost
        /\ fds' = [fds EXCEPT !.control = NoFd, !.epoll = NoFd]
        /\ Closed(DeviceFds \cup {fds.control, fds.epoll})
    BY <1>5 DEF FinishQuit, CloseDevices, DeviceFds
  <2>2. Kept' = Kept
    BY <1>b, <2>1 DEF Kept
  <2>3. files' = Kept'
    BY <1>a, <1>c, <2>1, <2>2 DEF Closed
  <2> QED
    BY <1>b, <1>c, <2>1, <2>3, ClosingKeeps, WatchedStaysFinite
<1>6. CASE CloseWake
  <2>1. /\ main = "off" /\ fds.wake # NoFd /\ devices' = devices /\ main' = "off" /\ lost' = lost
        /\ fds' = [fds EXCEPT !.wake = NoFd] /\ Closed({fds.wake})
    BY <1>6 DEF CloseWake
  <2>2. files = Kept /\ Kept' = lost
    BY <1>b, <2>1 DEF DevicesInv, FdsAccounted, Kept
  <2>3. files' = Kept'
    BY <1>c, <2>1, <2>2 DEF Closed, Kept
  <2>4. NoFd \notin lost
    BY <2>2 DEF DevicesInv, DevicesTyped, Kept, NoFd
  <2> QED
    BY <1>b, <2>1, <2>3, <2>4, ClosingKeeps, WatchedStaysFinite
<1>7. CASE StartWorker \/ StartQuit
  <2>1. /\ UNCHANGED <<openVars, unwatched, lost>>
        /\ main \in {"opening", "on"} /\ main' \in {"on", "quitting"}
    BY <1>7 DEF StartWorker, StartQuit, AllRead
  <2> QED
    BY <2>1 DEF DevicesInv, DevicesTyped, FdsApart, FdsAccounted, HaveNoted, TagNamesDevice,
                openVars, Kept, DeviceFds
<1>8. ASSUME NEW cb \in Callbacks, Register(cb) \/ Unregister(cb) PROVE DevicesInv'
  BY <1>0, <1>8, Zenon DEF Register, Unregister
<1>9. CASE TakeSet \/ CallNext
  BY <1>0, <1>9, Zenon DEF TakeSet, CallNext
<1>10. CASE UNCHANGED deviceVars
  BY <1>0, <1>10, Zenon DEF deviceVars, openVars
<1> QED
  BY <1>1, <1>2, <1>3, <1>4, <1>5, <1>6, <1>7, <1>8, <1>9, <1>10, Zenon DEF DevicesNext, CallbacksNext

(* Whatever step of Init fails, and however often it is started and ended,   *)
(* the descriptors open are those in use and the control eventfds of threads *)
(* that did not start; the tag under which epoll watches one is the slot of  *)
(* its device; and the seat's events are ignored only for devices that were  *)
(* there (SDLOP_RawInputInit, open_input_devices, SDLOP_RawInputQuit).       *)
THEOREM DevicesAlwaysAccounted == DevicesSpec => []DevicesAccounted
<1>1. DevicesInv => DevicesAccounted
  BY DEF DevicesInv, DevicesAccounted, HaveNoted, SeatHasReader
<1> QED
  BY <1>1, DevicesInvInit, DevicesInvStep, PTL DEF DevicesSpec
-----------------------------------------------------------------------------
(* The callback table. *)

\* A set being gone through stays allocated, and has no entry but functions
\* registered now or when the worker took it.
CallbacksInv ==
  /\ callbacks \in Nat /\ wanted \subseteq Callbacks
  /\ DOMAIN sets \subseteq Nat \ {0} /\ IsFiniteSet(DOMAIN sets)
  /\ \A id \in DOMAIN sets : sets[id] \in Seq(Callbacks)
  /\ worker \in [set : Nat, at : Nat] /\ (worker # Idle => worker.at > 0)
  /\ CallbacksSafe

LEMMA CallbacksInvInit == DevicesInit => CallbacksInv
<1> SUFFICES ASSUME DevicesInit PROVE CallbacksInv
  OBVIOUS
<1>1. sets = <<>> /\ DOMAIN sets = {}
  BY DEF DevicesInit
<1>2. IsFiniteSet(DOMAIN sets)
  BY <1>1, FS_EmptySet
<1>3. Entries(callbacks) = <<>> /\ ToSet(Entries(callbacks)) = {}
  BY DEF DevicesInit, Entries, ToSet
<1>4. CallbacksSafe
  BY <1>3 DEF DevicesInit, CallbacksSafe
<1> QED BY <1>1, <1>2, <1>4 DEF DevicesInit, CallbacksInv, Idle

\* The id of a new set is one no set has.
LEMMA NewIdIsNew ==
  ASSUME NEW ids \in SUBSET (Nat \ {0}), IsFiniteSet(ids),
         NEW new, new = CHOOSE n \in 1..(Cardinality(ids) + 1) :
                          n \notin ids /\ \A k \in 1..(n - 1) : k \in ids
  PROVE  new \in Nat \ {0} /\ new \notin ids
<1> DEFINE c == Cardinality(ids)
           free == (1..(c + 1)) \ ids
<1>1. c \in Nat
  BY FS_CardinalityType
<1>2. free # {}
  <2>1. Cardinality(1..(c + 1)) = c + 1
    <3> HIDE DEF c
    <3> QED BY <1>1, FS_Interval
  <2>2. ASSUME 1..(c + 1) \subseteq ids PROVE Cardinality(1..(c + 1)) <= Cardinality(ids)
    BY <2>2, FS_Subset, Zenon
  <2> QED BY <1>1, <2>1, <2>2
<1>3. free \subseteq Nat
  BY <1>1
<1>4. PICK n \in free : \A m \in free : ~(<<m, n>> \in OpToRel(<, Nat))
  <2> HIDE DEF free
  <2> QED BY <1>2, <1>3, NatLessThanWellFounded, WFMin, Zenon
<1>5. n \in 1..(c + 1) /\ n \notin ids
  BY <1>4
<1>6. ASSUME NEW k \in 1..(n - 1) PROVE k \in ids
  <2>1. k \in Nat /\ n \in Nat /\ k < n /\ k \in 1..(c + 1)
    BY <1>1, <1>5
  <2>2. <<k, n>> \in OpToRel(<, Nat)
    BY <2>1 DEF OpToRel
  <2> QED BY <1>4, <2>1, <2>2, Zenon
<1>7. new \in 1..(c + 1) /\ new \notin ids
  <2> HIDE DEF c
  <2>1. \E m \in 1..(c + 1) : m \notin ids /\ \A k \in 1..(m - 1) : k \in ids
    BY <1>5, <1>6
  <2>2. new = CHOOSE m \in 1..(c + 1) : m \notin ids /\ \A k \in 1..(m - 1) : k \in ids
    BY DEF c
  <2> QED BY <2>1, <2>2
<1> HIDE DEF c
<1>8. \A m \in 1..(c + 1) : m \in Nat \ {0}
  BY <1>1
<1> QED BY <1>7, <1>8, Zenon

\* A set that replaces another: the worker's own stays as it is.
LEMMA ReplaceKeeps ==
  ASSUME CallbacksInv, NEW entries \in Seq(Callbacks),
         sets' = WithSet(entries), callbacks' = NewId, worker' = worker, main' = main,
         ToSet(entries) = wanted', wanted' \subseteq Callbacks,
         wanted \cup removed \subseteq wanted' \cup removed'
  PROVE  CallbacksInv'
<1>1. NewId \in Nat \ {0} /\ NewId \notin DOMAIN sets
  <2>1. NewId = CHOOSE n \in 1..(Cardinality(DOMAIN sets) + 1) :
                   n \notin DOMAIN sets /\ \A k \in 1..(n - 1) : k \in DOMAIN sets
    BY DEF NewId
  <2>2. DOMAIN sets \in SUBSET (Nat \ {0}) /\ IsFiniteSet(DOMAIN sets)
    BY DEF CallbacksInv
  <2> HIDE DEF NewId
  <2> QED BY <2>1, <2>2, NewIdIsNew
<1>2. /\ DOMAIN sets' = DOMAIN sets \cup {NewId} /\ sets'[NewId] = entries
      /\ \A id \in DOMAIN sets : sets'[id] = sets[id]
  BY <1>1 DEF WithSet
<1>3. IsFiniteSet(DOMAIN sets')
  BY <1>1, <1>2, FS_AddElement DEF CallbacksInv
<1>4. Entries(callbacks)' = entries
  BY <1>1, <1>2 DEF Entries
<1> HIDE DEF NewId
<1>5. CallbacksSafe'
  <2>1. callbacks' # 0 => callbacks' \in DOMAIN sets'
    BY <1>2
  <2>2. ASSUME worker' # Idle
        PROVE  /\ worker'.set \in DOMAIN sets' /\ main' \in {"on", "quitting"}
               /\ \A i \in worker'.at..Len(sets'[worker'.set]) :
                    sets'[worker'.set][i] \in wanted' \cup removed'
    BY <1>2, <2>2 DEF CallbacksInv, CallbacksSafe
  <2> QED BY <1>4, <2>1, <2>2 DEF CallbacksSafe
<1> QED BY <1>1, <1>2, <1>3, <1>5 DEF CallbacksInv, Idle

LEMMA EntriesTyped ==
  ASSUME CallbacksInv
  PROVE  /\ Entries(callbacks) \in Seq(Callbacks) /\ ToSet(Entries(callbacks)) = wanted
         /\ callbacks # 0 => callbacks \in DOMAIN sets
BY DEF CallbacksInv, CallbacksSafe, Entries

LEMMA RegisterKeeps ==
  ASSUME CallbacksInv, NEW cb \in Callbacks, Register(cb)
  PROVE  CallbacksInv'
<1> DEFINE old == Entries(callbacks)
           new == Append(old, cb)
<1>1. old \in Seq(Callbacks) /\ ToSet(old) = wanted
  BY EntriesTyped
<1>2. /\ sets' = WithSet(new) /\ callbacks' = NewId /\ wanted' = wanted \cup {cb}
      /\ UNCHANGED <<worker, main, removed>>
  BY DEF Register
<1> HIDE DEF old
<1>3. /\ new \in Seq(Callbacks) /\ Len(new) = Len(old) + 1 /\ Len(old) \in Nat
      /\ DOMAIN new = 1..Len(old) + 1 /\ DOMAIN old = 1..Len(old)
      /\ \A i \in 1..Len(old) + 1 : new[i] = IF i = Len(old) + 1 THEN cb ELSE old[i]
  BY <1>1, AppendProperties, LenProperties
<1> HIDE DEF new
<1>4. ToSet(new) = wanted'
  <2>1. ToSet(new) = {new[i] : i \in 1..Len(old) + 1} /\ wanted = {old[i] : i \in 1..Len(old)}
    BY <1>1, <1>3 DEF ToSet
  <2>2. ASSUME NEW c \in wanted' PROVE \E i \in 1..Len(old) + 1 : new[i] = c
    <3>1. CASE c = cb
      <4>1. Len(old) + 1 \in 1..Len(old) + 1
        BY <1>3
      <4> QED BY <1>3, <3>1, <4>1
    <3>2. CASE c # cb
      <4>1. PICK i \in 1..Len(old) : old[i] = c
        BY <1>2, <2>1, <2>2, <3>2
      <4>2. i \in 1..Len(old) + 1 /\ i # Len(old) + 1
        BY <1>3
      <4> QED BY <1>3, <4>1, <4>2
    <3> QED BY <3>1, <3>2
  <2>3. ASSUME NEW i \in 1..Len(old) + 1 PROVE new[i] \in wanted'
    <3>1. i = Len(old) + 1 \/ i \in 1..Len(old)
      BY <1>3
    <3> QED BY <1>2, <1>3, <2>1, <3>1
  <2> QED BY <2>1, <2>2, <2>3
<1>5. wanted' \subseteq Callbacks
  BY <1>2 DEF CallbacksInv
<1> QED BY <1>2, <1>3, <1>4, <1>5, ReplaceKeeps

LEMMA UnregisterKeeps ==
  ASSUME CallbacksInv, NEW cb \in Callbacks, Unregister(cb)
  PROVE  CallbacksInv'
<1> DEFINE old == sets[callbacks]
           kept == {i \in DOMAIN old : old[i] # cb}
<1>1. old \in Seq(Callbacks) /\ ToSet(old) = wanted
  BY EntriesTyped DEF Unregister, Entries
<1>2. /\ callbacks' = NewId /\ wanted' = wanted \ {cb} /\ removed' = removed \cup {cb}
      /\ UNCHANGED <<worker, main>>
  BY DEF Unregister
<1>3. PICK n \in 0..Len(old) :
        \E was \in [1..n -> kept] : /\ \A k \in kept : \E i \in 1..n : was[i] = k
                                    /\ sets' = WithSet([i \in 1..n |-> old[was[i]]])
  BY DEF Unregister
<1>8. PICK was \in [1..n -> kept] : /\ \A k \in kept : \E i \in 1..n : was[i] = k
                                    /\ sets' = WithSet([i \in 1..n |-> old[was[i]]])
  BY <1>3
<1> DEFINE left == [i \in 1..n |-> old[was[i]]]
<1>4. n \in Nat /\ DOMAIN old = 1..Len(old)
  BY <1>1, LenProperties
<1>5. left \in Seq(Callbacks) /\ DOMAIN left = 1..n
  <2>1. \A i \in 1..n : old[was[i]] \in Callbacks
    BY <1>1, <1>4, ElementOfSeq
  <2> QED BY <1>4, <2>1
<1>6. ToSet(left) = wanted'
  <2>1. wanted = {old[i] : i \in DOMAIN old} /\ ToSet(left) = {left[i] : i \in 1..n}
    BY <1>1, <1>5 DEF ToSet
  <2>2. \A i \in 1..n : left[i] \in wanted \ {cb}
    BY <2>1
  <2>3. ASSUME NEW c \in wanted \ {cb} PROVE \E i \in 1..n : left[i] = c
    <3>1. PICK k \in DOMAIN old : old[k] = c
      BY <2>1
    <3>2. k \in kept
      BY <3>1
    <3> QED BY <1>8, <3>1, <3>2
  <2> HIDE DEF left
  <2> QED BY <1>2, <2>1, <2>2, <2>3
<1>7. wanted' \subseteq Callbacks /\ wanted \cup removed \subseteq wanted' \cup removed'
  BY <1>2 DEF CallbacksInv
<1> HIDE DEF left
<1> QED BY <1>2, <1>5, <1>6, <1>7, <1>8, ReplaceKeeps DEF left

LEMMA CallbacksInvStep == CallbacksInv /\ [DevicesNext \/ CallbacksNext]_deviceVars => CallbacksInv'
<1> SUFFICES ASSUME CallbacksInv, [DevicesNext \/ CallbacksNext]_deviceVars PROVE CallbacksInv'
  OBVIOUS
<1> USE DEF Entries
<1>0. ASSUME UNCHANGED <<callbacks, sets, worker, wanted, removed>>,
             worker # Idle => main' \in {"on", "quitting"}
      PROVE  CallbacksInv'
  BY <1>0 DEF CallbacksInv, CallbacksSafe, Idle
<1>w. worker # Idle => main \in {"on", "quitting"}
  BY DEF CallbacksInv, CallbacksSafe
<1>1. ASSUME NEW created \in 0..3, NEW woken \in BOOLEAN, StartInit(created, woken) PROVE CallbacksInv'
  <2>1. /\ callbacks' = 0 /\ wanted' = {} /\ UNCHANGED <<sets, worker, removed>> /\ worker = Idle
    BY <1>w, <1>1 DEF StartInit
  <2>2. Entries(callbacks)' = <<>> /\ ToSet(<<>>) = {}
    BY <2>1 DEF ToSet
  <2>3. CallbacksSafe'
    BY <2>1, <2>2 DEF CallbacksSafe, Idle
  <2> QED BY <2>1, <2>3 DEF CallbacksInv, Idle
<1>2. ASSUME NEW can, NEW outcome, OpenDevice(can, outcome) PROVE CallbacksInv'
  BY <1>0, <1>w, <1>2 DEF OpenDevice, callbackVars
<1>3. CASE NoDevices
  BY <1>0, <1>w, <1>3 DEF NoDevices, AllRead, callbackVars
<1>4. CASE StartWorker
  BY <1>0, <1>w, <1>4 DEF StartWorker, callbackVars
<1>5. CASE WorkerFails
  BY <1>0, <1>w, <1>5 DEF WorkerFails, AllRead, callbackVars
<1>6. CASE StartQuit
  BY <1>0, <1>w, <1>6 DEF StartQuit, callbackVars
<1>7. CASE FinishQuit
  <2>1. /\ sets' = Without(callbacks) /\ callbacks' = 0 /\ wanted' = {}
        /\ worker' = worker /\ worker = Idle
    BY <1>7 DEF FinishQuit, CloseDevices
  <2>2. /\ DOMAIN sets' = DOMAIN sets \ {callbacks}
        /\ \A id \in DOMAIN sets' : sets'[id] = sets[id]
    BY <2>1 DEF Without
  <2>3. IsFiniteSet(DOMAIN sets')
    BY <2>2, FS_Subset DEF CallbacksInv
  <2>4. Entries(callbacks)' = <<>> /\ ToSet(<<>>) = {}
    BY <2>1 DEF ToSet
  <2>5. CallbacksSafe'
    BY <2>1, <2>4 DEF CallbacksSafe, Idle
  <2> QED BY <2>1, <2>2, <2>3, <2>5 DEF CallbacksInv, Idle
<1>8. CASE CloseWake
  BY <1>0, <1>w, <1>8 DEF CloseWake, callbackVars
<1>9. CASE TakeSet
  <2>1. /\ worker' = [set |-> callbacks, at |-> 1] /\ removed' = {}
        /\ UNCHANGED <<main, callbacks, sets, wanted>> /\ main \in {"on", "quitting"}
        /\ Entries(callbacks) # <<>>
    BY <1>9 DEF TakeSet
  <2>2. callbacks # 0 /\ callbacks \in DOMAIN sets /\ sets[callbacks] \in Seq(Callbacks)
    BY <2>1, EntriesTyped DEF CallbacksInv
  <2>3. \A i \in 1..Len(sets[callbacks]) : sets[callbacks][i] \in wanted
    BY <2>2, EntriesTyped, LenProperties DEF ToSet
  <2>4. CallbacksSafe'
    BY <2>1, <2>2, <2>3 DEF CallbacksInv, CallbacksSafe
  <2> QED BY <2>1, <2>4 DEF CallbacksInv
<1>10. CASE CallNext
  <2> DEFINE n == Len(sets[worker.set])
  <2>1. /\ worker # Idle /\ UNCHANGED <<main, callbacks, sets, wanted, removed>>
        /\ worker' = IF worker.at < n THEN [worker EXCEPT !.at = @ + 1] ELSE Idle
    BY <1>10 DEF CallNext, callbackVars
  <2>2. CASE worker.at < n
    <3>1. worker' = [set |-> worker.set, at |-> worker.at + 1]
      BY <2>1, <2>2 DEF CallbacksInv
    <3>2. worker.set \in DOMAIN sets /\ sets[worker.set] \in Seq(Callbacks) /\ n \in Nat /\ worker.at \in Nat
      BY <2>1, LenProperties DEF CallbacksInv, CallbacksSafe
    <3>3. worker.at + 1..n \subseteq worker.at..n
      BY <3>2
    <3>4. CallbacksSafe'
      BY <2>1, <3>1, <3>2, <3>3 DEF CallbacksInv, CallbacksSafe
    <3> QED BY <2>1, <3>1, <3>2, <3>4 DEF CallbacksInv
  <2>3. CASE ~(worker.at < n)
    BY <2>1, <2>3 DEF CallbacksInv, CallbacksSafe, Idle
  <2> QED BY <2>2, <2>3
<1>11. CASE UNCHANGED deviceVars
  BY <1>0, <1>w, <1>11 DEF deviceVars
<1> QED BY <1>1, <1>2, <1>3, <1>4, <1>5, <1>6, <1>7, <1>8, <1>9, <1>10, <1>11,
           RegisterKeeps, UnregisterKeeps DEF DevicesNext, CallbacksNext

(* The worker never goes through a freed set, whatever is registered or      *)
(* unregistered under it and through a shutdown, calls only functions that   *)
(* are registered or were when it took the set, and no registration is lost  *)
(* (SDLop_RegisterRawEventCallback, dispatch_callbacks, SDLOP_RawInputQuit). *)
THEOREM CallbacksAlwaysSafe == DevicesSpec => []CallbacksSafe
<1>1. CallbacksInv => CallbacksSafe
  BY DEF CallbacksInv
<1> QED BY <1>1, CallbacksInvInit, CallbacksInvStep, PTL DEF DevicesSpec
-----------------------------------------------------------------------------
(* Outputs and devices of the seat. *)

Devices == {"keyboard", "pointer"}
OutputRecord == [name : Nat, scale : Nat, pending : BOOLEAN]

\* The outputs are globals there are, each once; names are not used again.
OutputsBound ==
  /\ outputs \in Seq(OutputRecord) /\ Len(outputs) <= MaxOutputs
  /\ IsFiniteSet(Bound) /\ Cardinality(Bound) = Len(outputs)
  /\ \A i, j \in DOMAIN outputs : outputs[i].name = outputs[j].name => i = j
  /\ names.last \in Nat
  /\ \A name \in Names : name \in 1..names.last
  /\ \A name \in Bound : name \in Names /\ names.live[name] = "output"

\* A window has the scale of its output once that is done changing.
FramesTold ==
  /\ DOMAIN frames \subseteq Frames /\ (~connected => DOMAIN frames = {})
  /\ frames \in [DOMAIN frames -> [output : Nat, scale : Nat]]
  /\ on \in [Frames -> SUBSET Nat]
  /\ \A f \in DOMAIN frames :
       /\ seen.scale[f] = frames[f].scale
       /\ frames[f].output # 0 => frames[f].output \in Bound \cap on[f]
       /\ \A i \in DOMAIN outputs :
            outputs[i].name = frames[f].output => outputs[i].pending \/ frames[f].scale = outputs[i].scale

SeatTold ==
  /\ devs \in [Devices -> Nat] /\ next_id \in Nat
  /\ seat # 0 => connected
  /\ DevicesPaired

RegistryInv ==
  /\ seen \in [scale : [Frames -> Nat], devs : [Devices -> Nat]]
  /\ OutputsBound /\ FramesTold /\ SeatTold

LEMMA RegistryInvInit == RegistryInit => RegistryInv
<1> SUFFICES ASSUME RegistryInit PROVE RegistryInv
  OBVIOUS
<1>1. Bound = {} /\ Names = {}
  BY DEF RegistryInit, Bound, Names, Announced
<1>2. OutputsBound
  BY <1>1, FS_EmptySet, RegistryAssumption DEF RegistryInit, OutputsBound, Announced
<1>3. FramesTold
  BY DEF RegistryInit, FramesTold
<1>4. SeatTold /\ seen \in [scale : [Frames -> Nat], devs : [Devices -> Nat]]
  BY DEF RegistryInit, SeatTold, DevicesPaired, NoDevs, Devices
<1> QED
  BY <1>2, <1>3, <1>4 DEF RegistryInv

\* An output is found by its name.
LEMMA OutputAt ==
  ASSUME OutputsBound, NEW i \in DOMAIN outputs
  PROVE  /\ Output(outputs[i].name) = outputs[i]
         /\ OutputScale(outputs, outputs[i].name) = outputs[i].scale
<1> DEFINE chosen == CHOOSE j \in DOMAIN outputs : outputs[j].name = outputs[i].name
<1>1. chosen = i
  <2>1. chosen \in DOMAIN outputs /\ outputs[chosen].name = outputs[i].name
    OBVIOUS
  <2> QED
    BY <2>1 DEF OutputsBound
<1> QED
  BY <1>1 DEF Output, OutputScale

LEMMA InvImpliesTold == RegistryInv => RegistryTold
<1> SUFFICES ASSUME RegistryInv PROVE RegistryTold
  OBVIOUS
<1>1. OutputsBound /\ FramesTold /\ SeatTold
  BY DEF RegistryInv
<1>2. ASSUME NEW f \in DOMAIN frames, frames[f].output # 0
      PROVE  Output(frames[f].output).pending \/ frames[f].scale = Output(frames[f].output).scale
  <2>1. PICK i \in DOMAIN outputs : outputs[i].name = frames[f].output
    BY <1>1, <1>2 DEF FramesTold, Bound
  <2> QED
    BY <1>1, <2>1, OutputAt, Zenon DEF FramesTold
<1>3. OutputsFollow
  BY <1>1, <1>2, Zenon DEF OutputsBound, FramesTold, OutputsFollow
<1> QED
  BY <1>1, <1>3 DEF SeatTold, RegistryTold

\* Outputs that change, but not by name.
LEMMA OutputsRenewed ==
  ASSUME OutputsBound, names' = names, outputs' \in Seq(OutputRecord), Len(outputs') = Len(outputs),
         \A i \in DOMAIN outputs : outputs'[i].name = outputs[i].name
  PROVE  OutputsBound' /\ Bound' = Bound
<1>1. DOMAIN outputs' = DOMAIN outputs
  BY DEF OutputsBound
<1>2. Bound' = Bound
  BY <1>1 DEF Bound
<1> QED
  BY <1>1, <1>2 DEF OutputsBound, Names

\* A global that is new has a name that no output has.
LEMMA GlobalKeeps == ASSUME RegistryInv, NEW which \in {"output", "seat"}, Global(which) PROVE RegistryInv'
<1> DEFINE name == names.last + 1
           output == [name |-> name, scale |-> 1, pending |-> FALSE]
<1>1. OutputsBound /\ FramesTold /\ SeatTold
  BY DEF RegistryInv
<1>2. /\ UNCHANGED <<connected, devs, next_id, frames, on, seen>>
      /\ names.last \in Nat /\ name \notin Names /\ name \notin Bound
      /\ names' = [last |-> name, live |-> [n \in Names \cup {name} |-> IF n = name THEN which ELSE names.live[n]]]
  BY <1>1 DEF Global, OutputsBound
<1>3. /\ names'.last = name /\ Names' = Names \cup {name} /\ names'.live[name] = which
      /\ \A n \in Names : names'.live[n] = names.live[n]
  BY <1>2 DEF Names
<1>4. ASSUME outputs' = outputs PROVE OutputsBound' /\ FramesTold'
  <2>1. Bound' = Bound
    BY <1>4 DEF Bound
  <2>2. OutputsBound'
    BY <1>1, <1>2, <1>3, <1>4, <2>1 DEF OutputsBound
  <2>3. FramesTold'
    BY <1>1, <1>2, <1>4, <2>1, Zenon DEF FramesTold
  <2> QED
    BY <2>2, <2>3
<1>5. ASSUME which = "output" /\ Len(outputs) < MaxOutputs /\ outputs' = Append(outputs, output)
      PROVE  OutputsBound' /\ FramesTold'
  <2>1. /\ outputs' \in Seq(OutputRecord) /\ Len(outputs') = Len(outputs) + 1
        /\ DOMAIN outputs = 1..Len(outputs) /\ DOMAIN outputs' = 1..(Len(outputs) + 1)
        /\ \A i \in DOMAIN outputs : outputs'[i] = outputs[i]
        /\ outputs'[Len(outputs) + 1] = output /\ Len(outputs) \in Nat
    BY <1>1, <1>2, <1>5 DEF OutputsBound, OutputRecord
  <2>2. Bound' = Bound \cup {name}
    BY <2>1 DEF Bound
  <2>3. IsFiniteSet(Bound') /\ Cardinality(Bound') = Len(outputs')
    <3>1. IsFiniteSet(Bound \cup {name}) /\ Cardinality(Bound \cup {name}) = Cardinality(Bound) + 1
      BY <1>1, <1>2, FS_AddElement, Zenon DEF OutputsBound
    <3> QED
      BY <1>1, <2>1, <2>2, <3>1 DEF OutputsBound
  <2>4. \A i \in DOMAIN outputs : outputs[i].name # name
    BY <1>2 DEF Bound
  <2>5. \A i, j \in DOMAIN outputs' : outputs'[i].name = outputs'[j].name => i = j
    BY <1>1, <2>1, <2>4 DEF OutputsBound
  <2>6. OutputsBound'
    BY <1>1, <1>2, <1>3, <1>5, <2>1, <2>2, <2>3, <2>5, RegistryAssumption DEF OutputsBound
  <2>7. \A f \in DOMAIN frames : frames[f].output # name
    BY <1>1, <1>2 DEF FramesTold, OutputsBound
  <2>8. ASSUME NEW f \in DOMAIN frames, NEW i \in DOMAIN outputs', outputs'[i].name = frames[f].output
        PROVE  outputs'[i].pending \/ frames[f].scale = outputs'[i].scale
    <3>1. i \in DOMAIN outputs
      BY <2>1, <2>7, <2>8
    <3> QED
      BY <1>1, <2>1, <2>8, <3>1, Zenon DEF FramesTold
  <2>9. FramesTold'
    BY <1>1, <1>2, <2>2, <2>8, Zenon DEF FramesTold
  <2> QED
    BY <2>6, <2>9
<1>6. OutputsBound' /\ FramesTold'
  BY <1>4, <1>5 DEF Global
<1>7. SeatTold'
  BY <1>1, <1>2 DEF Global, SeatTold, DevicesPaired, OutputsBound
<1> QED
  BY <1>2, <1>6, <1>7, Zenon DEF RegistryInv

\* Without one output the others are still there, each once.
LEMMA CompactedTable ==
  ASSUME OutputsBound, NEW name \in Bound, outputs' = Compacted(name)
  PROVE  /\ outputs' \in Seq(OutputRecord) /\ Len(outputs') = Len(outputs) - 1
         /\ Bound' = Bound \ {name}
         /\ \A i \in DOMAIN outputs' : \E j \in DOMAIN outputs : outputs'[i] = outputs[j]
         /\ \A i, j \in DOMAIN outputs' : outputs'[i].name = outputs'[j].name => i = j
<1> DEFINE gone == CHOOSE i \in DOMAIN outputs : outputs[i].name = name
           from(i) == IF i < gone THEN i ELSE i + 1
<1>1. gone \in DOMAIN outputs /\ outputs[gone].name = name
  BY DEF Bound
<1>2. outputs' = [i \in 1..(Len(outputs) - 1) |-> outputs[from(i)]]
  BY DEF Compacted
<1> HIDE DEF gone
<1>3. /\ DOMAIN outputs = 1..Len(outputs) /\ Len(outputs) \in Nat /\ gone \in 1..Len(outputs)
      /\ \A i \in DOMAIN outputs : outputs[i] \in OutputRecord
  BY <1>1 DEF OutputsBound
<1>4. \A i \in 1..(Len(outputs) - 1) : from(i) \in 1..Len(outputs) /\ from(i) # gone
  BY <1>3
<1>5. \A i \in 1..Len(outputs) : i # gone => \E k \in 1..(Len(outputs) - 1) : from(k) = i
  <2>1. ASSUME NEW i \in 1..Len(outputs), i < gone PROVE i \in 1..(Len(outputs) - 1) /\ from(i) = i
    BY <1>3, <2>1
  <2>2. ASSUME NEW i \in 1..Len(outputs), i > gone PROVE i - 1 \in 1..(Len(outputs) - 1) /\ from(i - 1) = i
    BY <1>3, <2>2
  <2>3. \A i \in 1..Len(outputs) : i # gone => i < gone \/ i > gone
    BY <1>3
  <2> HIDE DEF from
  <2> QED
    BY <2>1, <2>2, <2>3, Zenon
<1>6. \A i, j \in 1..(Len(outputs) - 1) : from(i) = from(j) => i = j
  BY <1>3
<1> HIDE DEF from
<1>7. outputs' \in Seq(OutputRecord) /\ Len(outputs') = Len(outputs) - 1 /\ DOMAIN outputs' = 1..(Len(outputs) - 1)
  BY <1>2, <1>3, <1>4
<1>8. \A i \in DOMAIN outputs' : outputs'[i] = outputs[from(i)] /\ from(i) \in DOMAIN outputs /\ from(i) # gone
  BY <1>2, <1>3, <1>4, <1>7
<1>9. \A i \in DOMAIN outputs : i # gone => outputs[i].name # name
  BY <1>1, <1>3, Zenon DEF OutputsBound
<1>10. Bound' = Bound \ {name}
  <2>1. ASSUME NEW i \in DOMAIN outputs' PROVE outputs'[i].name \in Bound \ {name}
    BY <1>8, <1>9, <2>1 DEF Bound
  <2>2. ASSUME NEW n \in Bound \ {name} PROVE \E k \in DOMAIN outputs' : outputs'[k].name = n
    <3>1. PICK i \in DOMAIN outputs : outputs[i].name = n
      BY <2>2 DEF Bound
    <3>2. i # gone
      BY <1>1, <2>2, <3>1
    <3>3. PICK k \in DOMAIN outputs' : from(k) = i
      BY <1>3, <1>5, <1>7, <3>1, <3>2
    <3> QED
      BY <1>8, <3>1, <3>3
  <2> QED
    BY <2>1, <2>2 DEF Bound
<1>11. ASSUME NEW i \in DOMAIN outputs', NEW j \in DOMAIN outputs', outputs'[i].name = outputs'[j].name
       PROVE  i = j
  <2>1. from(i) = from(j)
    BY <1>8, <1>11, Zenon DEF OutputsBound
  <2> QED
    BY <1>6, <1>7, <2>1
<1> QED
  BY <1>7, <1>8, <1>10, <1>11, Zenon

LEMMA GlobalGoneKeeps ==
  ASSUME RegistryInv, NEW name \in 1..MaxNames, GlobalRemove(name) PROVE RegistryInv'
<1>1. OutputsBound /\ FramesTold /\ SeatTold
  BY DEF RegistryInv
<1>2. /\ UNCHANGED <<connected, seat, devs, next_id, seen>>
      /\ outputs' = Compacted(name)
      /\ on' = [f \in Frames |-> on[f] \ {name}]
      /\ frames' = [f \in DOMAIN frames |->
                      IF frames[f].output = name THEN [frames[f] EXCEPT !.output = 0] ELSE frames[f]]
  BY DEF GlobalRemove
<1>3. /\ outputs' \in Seq(OutputRecord) /\ Len(outputs') <= Len(outputs) /\ Len(outputs') \in Nat
      /\ Bound' = Bound \ {name} /\ IsFiniteSet(Bound') /\ Cardinality(Bound') = Len(outputs')
      /\ \A i \in DOMAIN outputs' : \E j \in DOMAIN outputs : outputs'[i] = outputs[j]
      /\ \A i, j \in DOMAIN outputs' : outputs'[i].name = outputs'[j].name => i = j
  <2>1. CASE name \in Bound
    <3>1. /\ outputs' \in Seq(OutputRecord) /\ Len(outputs') = Len(outputs) - 1
          /\ Bound' = Bound \ {name}
          /\ \A i \in DOMAIN outputs' : \E j \in DOMAIN outputs : outputs'[i] = outputs[j]
          /\ \A i, j \in DOMAIN outputs' : outputs'[i].name = outputs'[j].name => i = j
      BY <1>1, <1>2, <2>1, CompactedTable
    <3>2. IsFiniteSet(Bound \ {name}) /\ Cardinality(Bound \ {name}) = Cardinality(Bound) - 1
      BY <1>1, <2>1, FS_RemoveElement, Zenon DEF OutputsBound
    <3>3. Len(outputs') <= Len(outputs) /\ Len(outputs') \in Nat /\ Cardinality(Bound) = Len(outputs)
      BY <1>1, <3>1 DEF OutputsBound
    <3> QED
      BY <3>1, <3>2, <3>3
  <2>2. CASE name \notin Bound
    <3>1. outputs' = outputs
      BY <1>2, <2>2 DEF Compacted
    <3>2. Bound' = Bound
      BY <3>1 DEF Bound
    <3> QED
      BY <1>1, <2>2, <3>1, <3>2 DEF OutputsBound
  <2> QED
    BY <2>1, <2>2
<1>4. OutputsBound'
  <2>1. /\ names'.last = names.last /\ Names' = Names \ {name}
        /\ \A n \in Names' : names'.live[n] = names.live[n]
    BY DEF GlobalRemove, Names, RegistryInv, OutputsBound
  <2>2. Len(outputs') <= MaxOutputs
    BY <1>1, <1>3, RegistryAssumption DEF OutputsBound
  <2> QED
    BY <1>1, <1>3, <2>1, <2>2 DEF OutputsBound
<1>5. FramesTold'
  <2>1. ASSUME NEW f \in DOMAIN frames
        PROVE  /\ frames'[f] \in [output : Nat, scale : Nat] /\ frames'[f].scale = frames[f].scale
               /\ frames'[f].output = IF frames[f].output = name THEN 0 ELSE frames[f].output
    BY <1>1, <1>2, <2>1 DEF FramesTold
  <2>2. DOMAIN frames' = DOMAIN frames /\ on' \in [Frames -> SUBSET Nat]
    BY <1>1, <1>2 DEF FramesTold
  <2>3. ASSUME NEW f \in DOMAIN frames, frames'[f].output # 0 PROVE frames'[f].output \in Bound' \cap on'[f]
    BY <1>1, <1>2, <1>3, <2>1, <2>3 DEF FramesTold
  <2>4. ASSUME NEW f \in DOMAIN frames, NEW i \in DOMAIN outputs', outputs'[i].name = frames'[f].output
        PROVE  outputs'[i].pending \/ frames'[f].scale = outputs'[i].scale
    <3>1. PICK j \in DOMAIN outputs : outputs'[i] = outputs[j]
      BY <1>3
    <3>2. outputs[j].name # 0
      BY <1>1 DEF OutputsBound, Bound
    <3>3. frames'[f].output = frames[f].output
      BY <2>1, <2>4, <3>1, <3>2
    <3> QED
      BY <1>1, <2>1, <2>4, <3>1, <3>3, Zenon DEF FramesTold
  <2>5. frames' \in [DOMAIN frames' -> [output : Nat, scale : Nat]]
    BY <1>2, <2>1, <2>2
  <2> QED
    BY <1>1, <1>2, <2>1, <2>2, <2>3, <2>4, <2>5, Zenon DEF FramesTold
<1>6. SeatTold'
  BY <1>1, <1>2 DEF SeatTold, DevicesPaired
<1> QED
  BY <1>2, <1>4, <1>5, <1>6, Zenon DEF RegistryInv

\* One window changes, under outputs that stay.
LEMMA FrameKeeps ==
  ASSUME RegistryInv, UNCHANGED <<connected, names, outputs, seat, devs, next_id>>, FramesTold',
         seen' \in [scale : [Frames -> Nat], devs : {seen.devs}]
  PROVE  RegistryInv'
<1>1. Bound' = Bound
  BY DEF Bound
<1>2. OutputsBound'
  BY <1>1 DEF RegistryInv, OutputsBound, Names
<1>3. SeatTold' /\ seen' \in [scale : [Frames -> Nat], devs : [Devices -> Nat]]
  BY DEF RegistryInv, SeatTold, DevicesPaired
<1> QED
  BY <1>2, <1>3, Zenon DEF RegistryInv

LEMMA WindowsKeep ==
  ASSUME RegistryInv, NEW f \in Frames,
         \/ CreateFrame(f) \/ DestroyFrame(f)
         \/ \E name \in 1..MaxNames : Enter(f, name) \/ Leave(f, name)
  PROVE  RegistryInv'
<1>1. OutputsBound /\ FramesTold /\ seen \in [scale : [Frames -> Nat], devs : [Devices -> Nat]]
  BY DEF RegistryInv
<1>2. ASSUME CreateFrame(f) PROVE RegistryInv'
  <2>1. /\ UNCHANGED <<connected, names, outputs, seat, devs, next_id, on>> /\ connected
        /\ frames' = [g \in DOMAIN frames \cup {f} |-> IF g = f THEN [output |-> 0, scale |-> 1] ELSE frames[g]]
        /\ seen' = [seen EXCEPT !.scale[f] = 1]
    BY <1>2 DEF CreateFrame
  <2>2. Bound' = Bound
    BY <2>1 DEF Bound
  <2>3. \A i \in DOMAIN outputs : outputs[i].name # 0
    BY <1>1 DEF OutputsBound, Bound
  <2>4. FramesTold'
    BY <1>1, <2>1, <2>2, <2>3 DEF FramesTold
  <2> QED
    BY <1>1, <2>1, <2>4, FrameKeeps
<1>3. ASSUME DestroyFrame(f) PROVE RegistryInv'
  <2>1. /\ UNCHANGED <<connected, names, outputs, seat, devs, next_id, seen>>
        /\ frames' = [g \in DOMAIN frames \ {f} |-> frames[g]] /\ on' = [on EXCEPT ![f] = {}]
    BY <1>3 DEF DestroyFrame
  <2>2. Bound' = Bound
    BY <2>1 DEF Bound
  <2>3. FramesTold'
    BY <1>1, <2>1, <2>2 DEF FramesTold
  <2> QED
    BY <1>1, <2>1, <2>3, FrameKeeps
<1>4. ASSUME NEW name \in 1..MaxNames, Enter(f, name) PROVE RegistryInv'
  <2>1. PICK i \in DOMAIN outputs : outputs[i].name = name
    BY <1>4 DEF Enter, Bound
  <2>2. OutputScale(outputs, name) = outputs[i].scale /\ outputs[i].scale \in Nat /\ name \in Nat
    <3>1. OutputScale(outputs, name) = outputs[i].scale
      BY <1>1, <2>1, OutputAt
    <3>2. outputs[i] \in OutputRecord
      BY <1>1 DEF OutputsBound
    <3> QED
      BY <3>1, <3>2 DEF OutputRecord
  <2>3. /\ UNCHANGED <<connected, names, outputs, seat, devs, next_id>>
        /\ f \in DOMAIN frames /\ name \in Bound
        /\ on' = [on EXCEPT ![f] = @ \cup {name}]
        /\ frames' = [frames EXCEPT ![f] = [output |-> name, scale |-> outputs[i].scale]]
        /\ seen' = [seen EXCEPT !.scale[f] = IF frames[f].scale # outputs[i].scale THEN outputs[i].scale ELSE @]
    BY <1>4, <2>2, Zenon DEF Enter
  <2>4. Bound' = Bound
    BY <2>3 DEF Bound
  <2>5. \A j \in DOMAIN outputs : outputs[j].name = name => j = i
    BY <1>1, <2>1 DEF OutputsBound
  <2>6. FramesTold'
    BY <1>1, <2>1, <2>2, <2>3, <2>4, <2>5 DEF FramesTold
  <2>7. seen' \in [scale : [Frames -> Nat], devs : {seen.devs}]
    BY <1>1, <2>2, <2>3
  <2> QED
    BY <2>3, <2>6, <2>7, FrameKeeps
<1>5. ASSUME NEW name \in 1..MaxNames, Leave(f, name) PROVE RegistryInv'
  <2>1. /\ UNCHANGED <<connected, names, outputs, seat, devs, next_id, seen>>
        /\ f \in DOMAIN frames
        /\ on' = [on EXCEPT ![f] = @ \ {name}] /\ frames' = [frames EXCEPT ![f].output = 0]
    BY <1>5 DEF Leave
  <2>2. Bound' = Bound
    BY <2>1 DEF Bound
  <2>3. \A i \in DOMAIN outputs : outputs[i].name # 0
    BY <1>1 DEF OutputsBound, Bound
  <2>4. FramesTold'
    BY <1>1, <2>1, <2>2, <2>3 DEF FramesTold
  <2> QED
    BY <1>1, <2>1, <2>4, FrameKeeps
<1> QED
  BY <1>2, <1>3, <1>4, <1>5

\* While an output changes its windows need not have its scale, and then they do.
LEMMA OutputKeeps ==
  ASSUME RegistryInv, NEW name \in 1..MaxNames,
         OutputDone(name) \/ \E factor \in Scales : ScaleOutput(name, factor)
  PROVE  RegistryInv'
<1>1. OutputsBound /\ FramesTold /\ seen \in [scale : [Frames -> Nat], devs : [Devices -> Nat]]
  BY DEF RegistryInv
<1>2. PICK k \in DOMAIN outputs : outputs[k].name = name
  BY DEF OutputDone, ScaleOutput, Bound
<1>3. /\ \A i \in DOMAIN outputs : outputs[i].name = name <=> i = k
      /\ DOMAIN outputs = 1..Len(outputs) /\ Len(outputs) \in Nat
      /\ \A i \in DOMAIN outputs : outputs[i] \in OutputRecord
  BY <1>1, <1>2 DEF OutputsBound
<1>4. UNCHANGED <<connected, names, seat, devs, next_id, on>>
  BY DEF OutputDone, ScaleOutput
<1>5. ASSUME NEW factor \in Scales, ScaleOutput(name, factor) PROVE RegistryInv'
  <2>1. /\ frames' = frames /\ seen' = seen
        /\ outputs' = [i \in DOMAIN outputs |->
                         IF i = k THEN [name |-> name, scale |-> factor, pending |-> TRUE] ELSE outputs[i]]
    BY <1>3, <1>5 DEF ScaleOutput
  <2>2. /\ outputs' \in Seq(OutputRecord) /\ Len(outputs') = Len(outputs)
        /\ \A i \in DOMAIN outputs : outputs'[i].name = outputs[i].name
    BY <1>2, <1>3, <2>1, RegistryAssumption DEF OutputRecord
  <2>3. OutputsBound' /\ Bound' = Bound
    BY <1>1, <1>4, <2>2, OutputsRenewed
  <2>4. \A i \in DOMAIN outputs' : i \in DOMAIN outputs /\ (outputs'[i].pending \/ outputs'[i] = outputs[i])
    BY <1>3, <2>1
  <2>5. FramesTold'
    BY <1>1, <1>4, <2>1, <2>3, <2>4, Zenon DEF FramesTold
  <2>6. SeatTold'
    BY <1>4, <2>1 DEF RegistryInv, SeatTold, DevicesPaired
  <2> QED
    BY <1>1, <2>1, <2>3, <2>5, <2>6, Zenon DEF RegistryInv
<1>6. ASSUME OutputDone(name) PROVE RegistryInv'
  <2> DEFINE scale == outputs[k].scale
             wins == {f \in DOMAIN frames : frames[f].output = name}
  <2>1. OutputScale(outputs, name) = scale /\ scale \in Nat
    <3>1. OutputScale(outputs, name) = scale
      BY <1>1, <1>2, OutputAt
    <3> QED
      BY <1>3, <3>1 DEF OutputRecord
  <2>2. /\ outputs' = [i \in DOMAIN outputs |->
                         IF i = k THEN [name |-> name, scale |-> scale, pending |-> FALSE] ELSE outputs[i]]
        /\ Rescale(wins, scale)
    BY <1>3, <1>6, <2>1 DEF OutputDone
  <2> HIDE DEF scale
  <2>3. /\ outputs' \in Seq(OutputRecord) /\ Len(outputs') = Len(outputs)
        /\ \A i \in DOMAIN outputs : outputs'[i].name = outputs[i].name
    BY <1>2, <1>3, <2>1, <2>2 DEF OutputRecord
  <2>4. OutputsBound' /\ Bound' = Bound
    BY <1>1, <1>4, <2>3, OutputsRenewed
  <2>5. /\ DOMAIN frames' = DOMAIN frames
        /\ \A f \in DOMAIN frames : /\ frames'[f] \in [output : Nat, scale : Nat]
                                    /\ frames'[f].output = frames[f].output
                                    /\ frames'[f].scale = IF f \in wins THEN scale ELSE frames[f].scale
        /\ frames' \in [DOMAIN frames' -> [output : Nat, scale : Nat]]
    BY <1>1, <2>1, <2>2 DEF Rescale, FramesTold
  <2>6. /\ seen' \in [scale : [Frames -> Nat], devs : {seen.devs}]
        /\ \A f \in DOMAIN frames : seen'.scale[f] = frames'[f].scale
    BY <1>1, <2>1, <2>2, <2>5 DEF Rescale, FramesTold
  <2>7. ASSUME NEW f \in DOMAIN frames, NEW i \in DOMAIN outputs', outputs'[i].name = frames'[f].output
        PROVE  outputs'[i].pending \/ frames'[f].scale = outputs'[i].scale
    <3>1. i \in DOMAIN outputs
      BY <2>2
    <3>2. CASE i = k
      BY <1>2, <2>2, <2>3, <2>5, <2>7, <3>1, <3>2
    <3>3. CASE i # k
      <4>1. outputs'[i] = outputs[i] /\ outputs[i].name # name
        BY <1>3, <2>2, <3>1, <3>3
      <4>2. f \notin wins /\ frames'[f].scale = frames[f].scale /\ frames'[f].output = frames[f].output
        BY <2>5, <2>7, <4>1
      <4> QED
        BY <1>1, <2>7, <3>1, <4>1, <4>2, Zenon DEF FramesTold
    <3> QED
      BY <3>2, <3>3
  <2>8. FramesTold'
    BY <1>1, <1>4, <2>4, <2>5, <2>6, <2>7, Zenon DEF FramesTold
  <2>9. SeatTold' /\ seen' \in [scale : [Frames -> Nat], devs : [Devices -> Nat]]
    BY <1>1, <1>4, <2>6 DEF RegistryInv, SeatTold, DevicesPaired
  <2> QED
    BY <2>4, <2>8, <2>9, Zenon DEF RegistryInv
<1> QED
  BY <1>5, <1>6

\* How many devices of a set there are.
LEMMA DevicesCounted ==
  /\ Cardinality({}) = 0 /\ Cardinality({"keyboard"}) = 1 /\ Cardinality({"pointer"}) = 1
  /\ Cardinality(Devices) = 2
<1>1. Cardinality({"keyboard"} \cup {"pointer"}) = 2
  <2>1. IsFiniteSet({"keyboard"}) /\ Cardinality({"keyboard"}) = 1 /\ "pointer" \notin {"keyboard"}
    BY FS_Singleton
  <2>2. Cardinality({"keyboard"} \cup {"pointer"})
          = IF "pointer" \in {"keyboard"} THEN Cardinality({"keyboard"}) ELSE Cardinality({"keyboard"}) + 1
    BY <2>1, FS_AddElement, Zenon
  <2> QED
    BY <2>1, <2>2
<1>2. {"keyboard"} \cup {"pointer"} = Devices
  BY DEF Devices
<1> QED
  BY <1>1, <1>2, FS_EmptySet, FS_Singleton

\* What is added gets an id no device has had.
LEMMA CapabilitiesKeep ==
  ASSUME RegistryInv, NEW caps \in SUBSET {"keyboard", "pointer"}, Capabilities(caps)
  PROVE  RegistryInv'
<1> DEFINE added == {d \in caps : devs[d] = 0}
           id(d) == IF d \notin caps THEN 0
                    ELSE IF devs[d] # 0 THEN devs[d]
                    ELSE next_id + (IF d = "pointer" /\ "keyboard" \in caps /\ devs["keyboard"] = 0 THEN 2 ELSE 1)
<1>1. /\ UNCHANGED <<connected, names, outputs, seat, frames, on>> /\ seat # 0
      /\ devs' = [d \in DOMAIN devs |-> id(d)]
      /\ next_id' = next_id + Cardinality(added)
      /\ seen' = [seen EXCEPT !.devs = [d \in DOMAIN devs |-> IF d \in caps /\ devs[d] = 0 THEN id(d)
                                                     ELSE IF d \notin caps /\ devs[d] # 0 THEN 0 ELSE @[d]]]
  BY DEF Capabilities
<1>2. /\ devs \in [Devices -> Nat] /\ next_id \in Nat /\ connected
      /\ seen \in [scale : [Frames -> Nat], devs : {devs}]
      /\ \A d, e \in Devices : devs[d] # 0 /\ devs[d] = devs[e] => d = e
      /\ \A d \in Devices : devs[d] <= next_id
  BY <1>1 DEF RegistryInv, SeatTold, DevicesPaired, Devices
<1>3. /\ Cardinality(added) \in Nat
      /\ added # {} => Cardinality(added) >= 1
      /\ {"keyboard", "pointer"} \subseteq added => Cardinality(added) = 2
  <2>1. added = {} \/ added = {"keyboard"} \/ added = {"pointer"} \/ added = Devices
    BY DEF Devices
  <2> HIDE DEF added
  <2>2. {"keyboard", "pointer"} \subseteq added => added = Devices
    BY <2>1 DEF Devices
  <2> QED
    BY <2>1, <2>2, DevicesCounted
<1>4. \A d \in Devices : /\ devs'[d] = id(d) /\ id(d) \in Nat
                         /\ d \in added => id(d) > next_id
                         /\ id(d) <= next_id'
  <2>1. \A d \in Devices : d \in caps /\ devs[d] = 0 => d \in added
    OBVIOUS
  <2>2. next_id' \in Nat /\ next_id' >= next_id
    BY <1>1, <1>2, <1>3
  <2>3. ASSUME NEW d \in Devices, d \in added, d = "pointer", "keyboard" \in added PROVE next_id' = next_id + 2
    BY <1>1, <1>2, <1>3, <2>3
  <2>4. added # {} => next_id' >= next_id + 1
    BY <1>1, <1>2, <1>3
  <2> QED
    BY <1>1, <1>2, <2>1, <2>2, <2>3, <2>4 DEF Devices
<1>5. ASSUME NEW d \in Devices, NEW e \in Devices, id(d) # 0, id(d) = id(e) PROVE d = e
  BY <1>2, <1>5 DEF Devices
<1> HIDE DEF added
<1>6. /\ seen'.scale = seen.scale /\ seen' \in [scale : [Frames -> Nat], devs : [Devices -> Nat]]
      /\ seen'.devs = devs'
  BY <1>1, <1>2, <1>4 DEF Devices
<1>7. DevicesPaired'
  BY <1>1, <1>2, <1>4, <1>5, <1>6 DEF DevicesPaired
<1>8. SeatTold'
  BY <1>1, <1>2, <1>3, <1>4, <1>7 DEF SeatTold
<1>9. Bound' = Bound
  BY <1>1 DEF Bound
<1>10. OutputsBound' /\ FramesTold'
  <2>1. OutputsBound'
    BY <1>1, <1>9 DEF RegistryInv, OutputsBound, Names
  <2>2. FramesTold'
    BY <1>1, <1>6, <1>9, Zenon DEF RegistryInv, FramesTold
  <2> QED
    BY <2>1, <2>2
<1> QED
  BY <1>6, <1>8, <1>10, Zenon DEF RegistryInv

\* A connection begins and ends without anything.
LEMMA ConnectionKeeps == ASSUME RegistryInv, Open \/ Close PROVE RegistryInv'
<1>1. OutputsBound /\ FramesTold /\ SeatTold /\ seen \in [scale : [Frames -> Nat], devs : [Devices -> Nat]]
  BY DEF RegistryInv
<1>2. /\ outputs' = <<>> /\ seat' = 0 /\ devs' = NoDevs /\ next_id' = next_id
      /\ seen' = [seen EXCEPT !.devs = NoDevs] /\ names' \in {names, Announced}
      /\ frames' = << >> /\ on' \in [Frames -> SUBSET Nat]
  <2>1. CASE Open
    <3>1. DOMAIN frames = {}
      BY <1>1, <2>1 DEF Open, FramesTold
    <3> QED
      BY <1>1, <2>1, <3>1 DEF Open, FramesTold
  <2>2. CASE Close
    BY <1>1, <2>2 DEF Close, FramesTold
  <2> QED
    BY <2>1, <2>2
<1>3. Bound' = {} /\ (names'.last \in Nat /\ \A name \in Names' : name \in 1..names'.last)
  BY <1>1, <1>2 DEF Bound, OutputsBound, Names, Announced
<1>4. OutputsBound'
  BY <1>2, <1>3, FS_EmptySet, RegistryAssumption DEF OutputsBound
<1>5. FramesTold'
  BY <1>2 DEF FramesTold
<1>6. SeatTold' /\ seen' \in [scale : [Frames -> Nat], devs : [Devices -> Nat]]
  BY <1>1, <1>2 DEF SeatTold, DevicesPaired, NoDevs, Devices
<1> QED
  BY <1>4, <1>5, <1>6 DEF RegistryInv

LEMMA RegistryInvStep == RegistryInv /\ [RegistryNext]_registryVars => RegistryInv'
<1> SUFFICES ASSUME RegistryInv, [RegistryNext]_registryVars PROVE RegistryInv'
  OBVIOUS
<1>0. ASSUME UNCHANGED <<connected, names, outputs, seat, devs, next_id, frames, on, seen>>
      PROVE  RegistryInv'
  <2>1. FramesTold' /\ seen' \in [scale : [Frames -> Nat], devs : {seen.devs}]
    BY <1>0 DEF RegistryInv, FramesTold, Bound
  <2> QED
    BY <1>0, <2>1, FrameKeeps
<1>1. CASE ConnectionNext
  BY <1>1, ConnectionKeeps, GlobalGoneKeeps, WindowsKeep DEF ConnectionNext
<1>2. CASE OutputsNext
  BY <1>2, GlobalKeeps, OutputKeeps, WindowsKeep DEF OutputsNext
<1>3. CASE SeatNext
  BY <1>0, <1>3, GlobalKeeps, CapabilitiesKeep DEF SeatNext, ShowCursor
<1>4. CASE UNCHANGED registryVars
  BY <1>0, <1>4 DEF registryVars
<1> QED
  BY <1>1, <1>2, <1>3, <1>4 DEF RegistryNext

(* The windows have the scale of outputs that are there, and the application *)
(* was told of it and of the devices of the seat, each by an id of its own,  *)
(* over globals that come and go in any order, and connections               *)
(* (registry_global, output_done, surface_enter, seat_capabilities).         *)
THEOREM RegistryAlwaysTold == RegistrySpec => []RegistryTold
BY RegistryInvInit, RegistryInvStep, InvImpliesTold, PTL DEF RegistrySpec

-----------------------------------------------------------------------------
(* Windows: what a queue of events leads to.                                 *)

EventTypes == {"SHOWN", "HIDDEN", "RESIZED", "PIXEL_SIZE_CHANGED", "MOVED", "MINIMIZED", "MAXIMIZED",
               "RESTORED", "ENTER_FULLSCREEN", "LEAVE_FULLSCREEN", "DESTROYED"}
EventRecord == [type : EventTypes, id : Nat, data : Extents, of : Objects, session : Nat]
WindowRecord == [id : Nat, view : View, focused : BOOLEAN, session : Nat]

\* A program that knows window o as knew, and polls these events, knows it as to.
Tells(knew, events, o, to) ==
  \E v \in [0..Len(events) -> View] :
    /\ v[0] = knew /\ v[Len(events)] = to
    /\ \A k \in 1..Len(events) : v[k] = IF events[k].of = o THEN After(v[k-1], events[k]) ELSE v[k-1]

LEMMA NewViewIsView == \A w \in Extents : NewView(w) \in View /\ NewView(0) \in View
BY WindowsAssumption DEF NewView, View

LEMMA AfterView == ASSUME NEW view \in View, NEW e \in EventRecord PROVE After(view, e) \in View
<1>1. e.data \in Extents
  BY DEF EventRecord
<1> QED BY <1>1 DEF After, View

LEMMA TellsNothing ==
  ASSUME NEW o, NEW view \in View, NEW events \in Seq(EventRecord),
         \A k \in DOMAIN events : events[k].of # o
  PROVE  Tells(view, events, o, view)
<1> DEFINE n == Len(events)
           v == [k \in 0..n |-> view]
<1>1. n \in Nat /\ DOMAIN events = 1..n
  BY LenProperties
<1> HIDE DEF n
<1>2. v \in [0..n -> View] /\ v[0] = view /\ v[n] = view
  BY <1>1
<1>3. \A k \in 1..n : v[k] = view /\ v[k-1] = view /\ events[k].of # o
  BY <1>1
<1> HIDE DEF v
<1> QED BY <1>2, <1>3 DEF Tells, n

LEMMA TellsEmpty == ASSUME NEW o, NEW knew, NEW to, Tells(knew, <<>>, o, to) PROVE knew = to
BY EmptySeq DEF Tells

\* One event more, at the end;
LEMMA TellsOn ==
  ASSUME NEW o, NEW knew, NEW to, NEW events \in Seq(EventRecord), NEW e \in EventRecord,
         Tells(knew, events, o, to)
  PROVE  Tells(knew, Append(events, e), o, IF e.of = o THEN After(to, e) ELSE to)
<1> DEFINE n == Len(events)
           more == Append(events, e)
           next == IF e.of = o THEN After(to, e) ELSE to
<1>1. /\ n \in Nat /\ Len(more) = n + 1 /\ more[n + 1] = e
      /\ \A k \in 1..n : more[k] = events[k]
  BY LenProperties, AppendProperties
<1>2. PICK v \in [0..n -> View] :
        /\ v[0] = knew /\ v[n] = to
        /\ \A k \in 1..n : v[k] = IF events[k].of = o THEN After(v[k-1], events[k]) ELSE v[k-1]
  BY DEF Tells
<1> HIDE DEF n, more
<1>3. to \in View /\ next \in View
  BY <1>1, <1>2, AfterView
<1> DEFINE u == [k \in 0..n + 1 |-> IF k = n + 1 THEN next ELSE v[k]]
<1> HIDE DEF next
<1>4. \A k \in 0..n : k \in 0..n + 1 /\ u[k] = v[k]
  BY <1>1
<1>5. u \in [0..n + 1 -> View] /\ u[n + 1] = next
  <2>1. \A k \in 0..n + 1 : k = n + 1 \/ k \in 0..n
    BY <1>1
  <2>2. n + 1 \in 0..n + 1
    BY <1>1
  <2> QED BY <1>2, <1>3, <2>1, <2>2
<1> HIDE DEF u
<1>6. u[0] = knew
  BY <1>1, <1>2, <1>4
<1>7. ASSUME NEW k \in 1..n + 1
      PROVE  u[k] = IF more[k].of = o THEN After(u[k-1], more[k]) ELSE u[k-1]
  <2>1. CASE k = n + 1
    <3>1. k - 1 = n /\ n \in 0..n
      BY <1>1, <2>1
    <3>2. u[k-1] = to /\ more[k] = e /\ u[k] = next
      BY <1>1, <1>2, <1>4, <1>5, <2>1, <3>1
    <3> QED BY <3>2 DEF next
  <2>2. CASE k # n + 1
    <3>1. k \in 1..n /\ k \in 0..n /\ k - 1 \in 0..n
      BY <1>1, <2>2
    <3> QED BY <1>1, <1>2, <1>4, <3>1
  <2> QED BY <2>1, <2>2
<1>8. Tells(knew, more, o, next)
  BY <1>1, <1>5, <1>6, <1>7 DEF Tells
<1> QED BY <1>8 DEF more, next

\* and the first one taken.
LEMMA TellsTail ==
  ASSUME NEW o, NEW knew, NEW to, NEW events \in Seq(EventRecord), events # <<>>,
         Tells(knew, events, o, to)
  PROVE  Tells(IF Head(events).of = o THEN After(knew, Head(events)) ELSE knew, Tail(events), o, to)
<1> DEFINE n == Len(events)
           rest == Tail(events)
<1>1. /\ n \in Nat \ {0} /\ Len(rest) = n - 1 /\ Head(events) = events[1]
      /\ \A k \in 1..n-1 : rest[k] = events[k + 1]
  BY EmptySeq, LenProperties, HeadTailProperties
<1>2. PICK v \in [0..n -> View] :
        /\ v[0] = knew /\ v[n] = to
        /\ \A k \in 1..n : v[k] = IF events[k].of = o THEN After(v[k-1], events[k]) ELSE v[k-1]
  BY DEF Tells
<1> DEFINE u == [k \in 0..n-1 |-> v[k + 1]]
<1> HIDE DEF n, rest
<1>3. /\ u \in [0..n-1 -> View] /\ \A k \in 0..n-1 : u[k] = v[k + 1]
  BY <1>1, <1>2
<1> HIDE DEF u
<1>4. u[n-1] = to
  <2>1. n-1 \in 0..n-1 /\ (n-1) + 1 = n
    BY <1>1
  <2> QED BY <1>2, <1>3, <2>1
<1>5. u[0] = IF Head(events).of = o THEN After(knew, Head(events)) ELSE knew
  <2>1. 1 \in 1..n /\ 1 - 1 = 0 /\ 0 + 1 = 1 /\ 0 \in 0..n-1
    BY <1>1
  <2>2. u[0] = v[1]
    BY <1>3, <2>1
  <2>3. v[1] = IF events[1].of = o THEN After(v[0], events[1]) ELSE v[0]
    BY <1>2, <2>1
  <2> QED BY <1>1, <1>2, <2>2, <2>3
<1>6. ASSUME NEW k \in 1..n-1
      PROVE  u[k] = IF rest[k].of = o THEN After(u[k-1], rest[k]) ELSE u[k-1]
  <2>1. k + 1 \in 1..n /\ (k + 1) - 1 = k /\ k \in 0..n-1 /\ k - 1 \in 0..n-1 /\ (k - 1) + 1 = k
    BY <1>1
  <2>2. u[k] = v[k + 1] /\ u[k-1] = v[k] /\ rest[k] = events[k + 1]
    BY <1>1, <1>3, <2>1
  <2>3. v[k + 1] = IF events[k + 1].of = o THEN After(v[k], events[k + 1]) ELSE v[k]
    BY <1>2, <2>1
  <2> QED BY <2>2, <2>3
<1> QED BY <1>1, <1>3, <1>4, <1>5, <1>6 DEF Tells, rest

-----------------------------------------------------------------------------
(* The queue.                                                                *)

\* Events found room as far as there was some.
LEMMA QueuedProperties ==
  ASSUME queue \in Seq(EventRecord), Len(queue) <= QueueSize, NEW events \in Seq(EventRecord)
  PROVE  /\ Queued(events) \in Seq(EventRecord) /\ Len(Queued(events)) <= QueueSize
         /\ \A i \in DOMAIN Queued(events) :
              \/ \E j \in DOMAIN queue : Queued(events)[i] = queue[j]
              \/ \E j \in DOMAIN events : Queued(events)[i] = events[j]
         /\ \E m \in 0..Len(events) :
              /\ Len(queue) + Len(events) <= QueueSize => m = Len(events)
              /\ Len(Queued(events)) = Len(queue) + m
              /\ \A i \in 1..Len(queue) + m :
                   Queued(events)[i] = IF i <= Len(queue) THEN queue[i] ELSE events[i - Len(queue)]
<1> DEFINE n == Len(queue)
           m == IF Len(events) < QueueSize - n THEN Len(events) ELSE QueueSize - n
           some == SubSeq(events, 1, m)
<1>1. /\ n \in Nat /\ Len(events) \in Nat /\ QueueSize \in Nat
      /\ DOMAIN events = 1..Len(events) /\ DOMAIN queue = 1..n
  BY LenProperties, WindowsAssumption
<1>2. m \in 0..Len(events) /\ n + m <= QueueSize
  BY <1>1
<1>12. n + Len(events) <= QueueSize => m = Len(events)
  BY <1>1
<1> HIDE DEF n, m
<1>3. /\ some \in Seq(EventRecord) /\ Len(some) = m
      /\ \A i \in 1..m : some[i] = events[i] /\ i \in DOMAIN events
  <2>1. \A i \in 1..m : i \in 1..Len(events)
    BY <1>1, <1>2
  <2>2. \A i \in 1..m : events[i] \in EventRecord
    BY <2>1, ElementOfSeq
  <2>3. /\ some \in Seq(EventRecord) /\ Len(some) = IF 1 <= m THEN m - 1 + 1 ELSE 0
        /\ \A i \in 1..m - 1 + 1 : some[i] = events[1 + i - 1]
    BY <1>1, <1>2, <2>2, SubSeqProperties
  <2> HIDE DEF some
  <2>4. m - 1 + 1 = m /\ \A i \in 1..m : 1 + i - 1 = i
    BY <1>1, <1>2
  <2>5. Len(some) = m
    BY <1>1, <1>2, <2>3
  <2> QED BY <1>1, <2>1, <2>3, <2>4, <2>5
<1> HIDE DEF some
<1>4. Queued(events) = queue \o some
  BY DEF Queued, some, m, n
<1> DEFINE all == queue \o some
<1>5. /\ all \in Seq(EventRecord) /\ Len(all) = n + m
      /\ \A i \in 1..n + m : all[i] = IF i <= n THEN queue[i] ELSE some[i - n]
  BY <1>3, ConcatProperties DEF n
<1> HIDE DEF all
<1>6. DOMAIN all = 1..n + m
  BY <1>5, LenProperties
<1>7. ASSUME NEW i \in 1..n + m
      PROVE  \/ \E j \in DOMAIN queue : all[i] = queue[j]
             \/ \E j \in DOMAIN events : all[i] = events[j]
  <2>1. CASE i <= n
    BY <1>1, <1>5, <2>1
  <2>2. CASE ~(i <= n)
    <3>1. i - n \in 1..m
      BY <1>1, <1>2, <2>2
    <3> QED BY <1>3, <1>5, <2>2, <3>1
  <2> QED BY <2>1, <2>2
<1>8. \A i \in 1..n + m : all[i] = IF i <= n THEN queue[i] ELSE events[i - n]
  <2> TAKE i \in 1..n + m
  <2>1. ~(i <= n) => i - n \in 1..m
    BY <1>1, <1>2
  <2> QED BY <1>3, <1>5, <2>1
<1>9. Queued(events) = all
  BY <1>4 DEF all
<1>10. \E k \in 0..Len(events) :
         /\ n + Len(events) <= QueueSize => k = Len(events)
         /\ Len(all) = n + k
         /\ \A i \in 1..n + k : all[i] = IF i <= n THEN queue[i] ELSE events[i - n]
  BY <1>2, <1>5, <1>8, <1>12
<1>11. all \in Seq(EventRecord) /\ Len(all) <= QueueSize
  BY <1>2, <1>5
<1> QED BY <1>6, <1>7, <1>9, <1>10, <1>11 DEF n

LEMMA QueuedOne ==
  ASSUME queue \in Seq(EventRecord), Len(queue) <= QueueSize, NEW e \in EventRecord
  PROVE  /\ Len(queue) < QueueSize => Queued(<<e>>) = Append(queue, e)
         /\ Queued(<<e>>) \in {queue, Append(queue, e)}
<1> DEFINE n == Len(queue)
           one == <<e>>
           t == Append(queue, e)
<1>1. one \in Seq(EventRecord) /\ Len(one) = 1 /\ one[1] = e
  OBVIOUS
<1>2. /\ t \in Seq(EventRecord) /\ Len(t) = n + 1
      /\ \A i \in 1..n : t[i] = queue[i]
      /\ t[n + 1] = e
  BY AppendProperties
<1>3. n \in Nat /\ QueueSize \in Nat
  BY LenProperties, WindowsAssumption
<1> HIDE DEF one
<1>4. PICK m \in 0..Len(one) :
         /\ n + Len(one) <= QueueSize => m = Len(one)
         /\ Len(Queued(one)) = n + m
         /\ \A i \in 1..n + m : Queued(one)[i] = IF i <= n THEN queue[i] ELSE one[i - n]
  BY <1>1, QueuedProperties
<1>5. Queued(one) \in Seq(EventRecord)
  BY <1>1, QueuedProperties
<1>6. queue \in Seq(EventRecord) /\ Len(queue) = n
  OBVIOUS
<1> HIDE DEF n, t
<1>7. CASE m = 1
  <2>1. ASSUME NEW i \in 1..n + 1 PROVE Queued(one)[i] = t[i]
    <3>1. i <= n => i \in 1..n
      BY <1>3
    <3>2. ~(i <= n) => i = n + 1 /\ i - n = 1
      BY <1>3
    <3> QED BY <1>1, <1>2, <1>4, <1>7, <3>1, <3>2
  <2>2. Queued(one) = t
    BY <1>2, <1>4, <1>5, <1>7, <2>1, SeqEqual
  <2> QED BY <2>2 DEF t, one
<1>8. CASE m = 0
  <2>1. \A i \in 1..n : Queued(one)[i] = queue[i]
    BY <1>3, <1>4, <1>8
  <2>2. Len(Queued(one)) = n
    BY <1>3, <1>4, <1>8
  <2>3. Queued(one) = queue
    BY <1>5, <1>6, <2>1, <2>2, SeqEqual
  <2>4. ~(n < QueueSize)
    BY <1>1, <1>3, <1>4, <1>8
  <2> QED BY <2>3, <2>4 DEF one, n
<1>9. m \in {0, 1}
  BY <1>1, <1>4
<1> QED BY <1>7, <1>8, <1>9

\* Of two events, neither, the first or both.
LEMMA QueuedTwo ==
  ASSUME queue \in Seq(EventRecord), Len(queue) <= QueueSize, NEW d \in EventRecord, NEW e \in EventRecord
  PROVE  /\ Len(queue) + 2 <= QueueSize => Queued(<<d, e>>) = Append(Append(queue, d), e)
         /\ Queued(<<d, e>>) \in {queue, Append(queue, d), Append(Append(queue, d), e)}
<1> DEFINE n == Len(queue)
           two == <<d, e>>
           t == Append(queue, d)
           u == Append(t, e)
<1>1. two \in Seq(EventRecord) /\ Len(two) = 2 /\ two[1] = d /\ two[2] = e
  OBVIOUS
<1>2. /\ t \in Seq(EventRecord) /\ Len(t) = n + 1
      /\ \A i \in 1..n : t[i] = queue[i]
      /\ t[n + 1] = d
  BY AppendProperties
<1>3. n \in Nat /\ QueueSize \in Nat
  BY LenProperties, WindowsAssumption
<1> HIDE DEF t, n, two
<1>4. /\ u \in Seq(EventRecord) /\ Len(u) = n + 2
      /\ \A i \in 1..n + 1 : u[i] = t[i]
      /\ u[n + 2] = e
  <2>1. /\ u \in Seq(EventRecord) /\ Len(u) = Len(t) + 1
        /\ \A i \in 1..Len(t) : u[i] = t[i]
        /\ u[Len(t) + 1] = e
    BY <1>2, AppendProperties
  <2> HIDE DEF u
  <2>2. n + 1 + 1 = n + 2
    BY <1>3
  <2> QED BY <1>2, <2>1, <2>2
<1>5. PICK m \in 0..Len(two) :
         /\ n + Len(two) <= QueueSize => m = Len(two)
         /\ Len(Queued(two)) = n + m
         /\ \A i \in 1..n + m : Queued(two)[i] = IF i <= n THEN queue[i] ELSE two[i - n]
  BY <1>1, QueuedProperties DEF n
<1>6. Queued(two) \in Seq(EventRecord) /\ queue \in Seq(EventRecord) /\ Len(queue) = n
  BY <1>1, QueuedProperties DEF n
<1> HIDE DEF u
<1>7. m \in {0, 1, 2} /\ (n + 2 <= QueueSize => m = 2)
  BY <1>1, <1>5
<1>8. CASE m = 2
  <2>1. ASSUME NEW i \in 1..n + 2 PROVE Queued(two)[i] = u[i]
    <3>1. CASE i <= n
      <4>1. i \in 1..n /\ i \in 1..n + 1
        BY <1>3, <3>1
      <4> QED BY <1>2, <1>4, <1>5, <1>8, <3>1, <4>1
    <3>2. CASE i = n + 1
      <4>1. i \in 1..n + 1 /\ ~(i <= n) /\ i - n = 1
        BY <1>3, <3>2
      <4> QED BY <1>1, <1>2, <1>4, <1>5, <1>8, <3>2, <4>1
    <3>3. CASE i = n + 2
      <4>1. ~(i <= n) /\ i - n = 2
        BY <1>3, <3>3
      <4> QED BY <1>1, <1>4, <1>5, <1>8, <3>3, <4>1
    <3>4. i <= n \/ i = n + 1 \/ i = n + 2
      BY <1>3
    <3> QED BY <3>1, <3>2, <3>3, <3>4
  <2>2. Queued(two) = u
    BY <1>4, <1>5, <1>6, <1>8, <2>1, SeqEqual
  <2> QED BY <2>2 DEF two, u, t
<1>9. CASE m = 1
  <2>1. ASSUME NEW i \in 1..n + 1 PROVE Queued(two)[i] = t[i]
    <3>1. i <= n => i \in 1..n
      BY <1>3
    <3>2. ~(i <= n) => i = n + 1 /\ i - n = 1
      BY <1>3
    <3> QED BY <1>1, <1>2, <1>5, <1>9, <3>1, <3>2
  <2>2. Queued(two) = t
    BY <1>2, <1>5, <1>6, <1>9, <2>1, SeqEqual
  <2>3. ~(n + 2 <= QueueSize)
    BY <1>7, <1>9
  <2> QED BY <2>2, <2>3 DEF two, t, n
<1>10. CASE m = 0
  <2>1. \A i \in 1..n : Queued(two)[i] = queue[i]
    BY <1>3, <1>5, <1>10
  <2>2. Len(Queued(two)) = n
    BY <1>3, <1>5, <1>10
  <2>3. Queued(two) = queue
    BY <1>6, <2>1, <2>2, SeqEqual
  <2>4. ~(n + 2 <= QueueSize)
    BY <1>7, <1>10
  <2> QED BY <2>3, <2>4 DEF two, n
<1> QED BY <1>7, <1>8, <1>9, <1>10

-----------------------------------------------------------------------------
(* The invariant.                                                            *)

\* The windows are of this session, and there are none without the video
\* subsystem, whatever was initialised and shut down.
ListInv ==
  /\ windows \in Seq(Objects) /\ win \in [Objects -> WindowRecord] /\ made \in 0..MaxWindows
  /\ next_window_id \in Nat /\ quits \in Nat
  /\ \A i, j \in DOMAIN windows : windows[i] = windows[j] => i = j
  /\ \A o \in Live : o <= made /\ win[o].session = quits
  /\ Live # {} => video
  /\ ~init_done => next_window_id = 0

\* Ids grow during a session, and the next one is beyond them.
IdsInv ==
  /\ \A o \in 1..made : /\ win[o].session <= quits /\ win[o].id >= 1
                        /\ win[o].session = quits => win[o].id <= next_window_id
  /\ \A o, p \in 1..made : o < p /\ win[o].session = win[p].session => win[o].id < win[p].id

\* An event has the id and the session of its window, which may be gone.
Accounted(e) == e.of \in 1..made /\ e.id = win[e.of].id /\ e.session = win[e.of].session

EventsInv ==
  /\ queue \in Seq(EventRecord) /\ Len(queue) <= QueueSize
  /\ \A i \in DOMAIN queue : Accounted(queue[i])

RangesInv ==
  /\ next_user_event \in Nat /\ ranges \in Seq([base : Nat, n : Nat])
  /\ \A i \in DOMAIN ranges : ranges[i].base + ranges[i].n <= next_user_event
  /\ \A i, j \in DOMAIN ranges : i < j => ranges[i].base + ranges[i].n <= ranges[j].base

\* What is queued leads from what was told to what the window is like.
ToldInv ==
  /\ told \in [Objects -> View]
  /\ \A o \in Live \ refused : Tells(told[o], queue, o, win[o].view)

WindowsInv == ListInv /\ IdsInv /\ EventsInv /\ RangesInv /\ FocusIsFlagged /\ ToldInv

LEMMA LiveObjects == ASSUME ListInv, NEW o \in Live PROVE o \in Objects /\ o \in 1..made /\ made \in Nat
<1>1. Live = {windows[i] : i \in DOMAIN windows}
  BY DEF Live, ToSet
<1>2. \A i \in DOMAIN windows : windows[i] \in Objects
  BY LenProperties DEF ListInv
<1> QED BY <1>1, <1>2, WindowsAssumption DEF ListInv, Objects

LEMMA WindowsInvInit == WindowsInit => WindowsInv
<1> SUFFICES ASSUME WindowsInit PROVE WindowsInv
  OBVIOUS
<1>1. Live = {}
  BY DEF WindowsInit, Live, ToSet
<1>2. NoWin \in WindowRecord
  BY NewViewIsView, WindowsAssumption DEF NoWin, WindowRecord
<1>3. ListInv /\ IdsInv
  BY <1>1, <1>2, WindowsAssumption DEF WindowsInit, ListInv, IdsInv
<1>4. EventsInv /\ RangesInv
  BY WindowsAssumption, EmptySeq DEF WindowsInit, EventsInv, RangesInv
<1>5. FocusIsFlagged /\ ToldInv
  BY <1>1, NewViewIsView, WindowsAssumption DEF WindowsInit, FocusIsFlagged, ToldInv
<1> QED BY <1>3, <1>4, <1>5 DEF WindowsInv

\* The id of a window of the session finds it, or none once it is gone.
LEMMA IdFindsWindow ==
  ASSUME WindowsInv, NEW o \in 1..made, win[o].session = quits
  PROVE  /\ win[o].id # 0
         /\ WindowFromID(win[o].id) = IF o \in Live THEN o ELSE NoOne
<1> DEFINE at == {i \in DOMAIN windows : win[windows[i]].id = win[o].id}
<1>1. ListInv /\ IdsInv /\ o \in Nat /\ o \in Objects /\ win[o].id \in Nat
  <2>1. o \in Nat /\ o \in Objects
    BY WindowsAssumption DEF WindowsInv, ListInv, Objects
  <2> QED BY <2>1 DEF WindowsInv, ListInv, WindowRecord
<1>2. win[o].id # 0
  BY <1>1 DEF IdsInv
<1>3. ASSUME NEW i \in at PROVE windows[i] = o
  <2>1. windows[i] \in Live
    BY DEF Live, ToSet
  <2>2. windows[i] \in Objects /\ windows[i] \in 1..made /\ made \in Nat /\ win[windows[i]].session = quits
    BY <1>1, <2>1, LiveObjects DEF ListInv
  <2>3. win[windows[i]].id = win[o].id /\ win[o].id \in Nat
    BY <1>1
  <2>4. ~(windows[i] < o) /\ ~(o < windows[i])
    BY <1>1, <2>2, <2>3 DEF IdsInv
  <2> QED BY <1>1, <2>2, <2>4
<1>4. CASE o \in Live
  <2>1. PICK i \in DOMAIN windows : windows[i] = o
    BY <1>4 DEF Live, ToSet
  <2>2. at = {i}
    BY <1>1, <1>3, <2>1 DEF ListInv
  <2>3. i \in Int
    BY <1>1, LenProperties DEF ListInv
  <2>4. Min({i}) = i
    BY <2>3 DEF Min
  <2>5. WindowFromID(win[o].id) = windows[Min(at)]
    BY <2>2 DEF WindowFromID
  <2> QED BY <1>2, <1>4, <2>1, <2>2, <2>4, <2>5
<1>5. CASE o \notin Live
  <2>1. at = {}
    BY <1>3, <1>5 DEF Live, ToSet
  <2> QED BY <1>2, <1>5, <2>1 DEF WindowFromID
<1> QED BY <1>4, <1>5

LEMMA InvImpliesAccounted == WindowsInv => WindowsAccounted /\ EventsTellState
<1> SUFFICES ASSUME WindowsInv PROVE WindowsAccounted /\ EventsTellState
  OBVIOUS
<1>1. EventNamesItsWindow
  <2> SUFFICES ASSUME NEW i \in DOMAIN queue, queue[i].session = quits
               PROVE  /\ WindowFromEvent(queue[i]) \in {queue[i].of, NoOne}
                      /\ queue[i].of \in Live => WindowFromEvent(queue[i]) = queue[i].of
    BY DEF EventNamesItsWindow
  <2>1. Accounted(queue[i])
    BY DEF WindowsInv, EventsInv
  <2>2. /\ queue[i].of \in 1..made /\ win[queue[i].of].session = quits
        /\ queue[i].id = win[queue[i].of].id
    BY <2>1 DEF Accounted
  <2>3. WindowFromEvent(queue[i]) = IF queue[i].of \in Live THEN queue[i].of ELSE NoOne
    BY <2>2, IdFindsWindow DEF WindowFromEvent
  <2> QED BY <2>3
<1>2. HandedOutOnce
  <2>1. ASSUME NEW o \in Objects, NEW p \in Objects, o < p, p <= made, win[o].session = win[p].session
        PROVE  win[o].id # win[p].id
    <3>1. o \in 1..made /\ p \in 1..made /\ win[o].id \in Nat /\ win[p].id \in Nat
      BY <2>1, WindowsAssumption DEF WindowsInv, ListInv, Objects, WindowRecord
    <3>2. win[o].id < win[p].id
      BY <2>1, <3>1 DEF WindowsInv, IdsInv
    <3> QED BY <3>1, <3>2
  <2> QED BY <2>1 DEF HandedOutOnce, WindowsInv, RangesInv
<1>3. EventsTellState
  <2> SUFFICES ASSUME queue = <<>>, NEW o \in Live \ refused PROVE told[o] = win[o].view
    BY DEF EventsTellState
  <2>1. Tells(told[o], <<>>, o, win[o].view)
    BY DEF WindowsInv, ToldInv
  <2> QED BY <2>1, TellsEmpty
<1> QED BY <1>1, <1>2, <1>3 DEF WindowsAccounted, WindowsInv

-----------------------------------------------------------------------------
(* Calls on a window.                                                        *)

\* Window o, but like v, and focused or not.
Restyled(o, v, f) ==
  win' = [win EXCEPT ![o] = [id |-> win[o].id, view |-> v, focused |-> f, session |-> win[o].session]]

LEMMA RestyledKeeps ==
  ASSUME WindowsInv, NEW o \in Live, NEW v \in View, NEW f \in BOOLEAN, Restyled(o, v, f),
         UNCHANGED <<sessionVars, idVars, windows>>
  PROVE  /\ ListInv' /\ IdsInv' /\ RangesInv' /\ Live' = Live
         /\ \A p \in Objects : p # o => win'[p] = win[p]
         /\ win'[o].view = v /\ win'[o].focused = f
         /\ made' = made /\ \A p \in Objects : win'[p].id = win[p].id /\ win'[p].session = win[p].session
<1>1. /\ ListInv /\ IdsInv /\ o \in Objects /\ win \in [Objects -> WindowRecord] /\ o \in 1..made
      /\ 1..made \subseteq Objects
  BY LiveObjects, WindowsAssumption DEF WindowsInv, ListInv, Objects
<1>2. /\ made' = made /\ next_window_id' = next_window_id /\ quits' = quits /\ windows' = windows
      /\ init_done' = init_done /\ init_flags' = init_flags /\ ranges' = ranges
      /\ next_user_event' = next_user_event
  BY DEF sessionVars, idVars
<1>3. /\ win' \in [Objects -> WindowRecord]
      /\ \A p \in Objects : /\ win'[p].id = win[p].id /\ win'[p].session = win[p].session
                            /\ p # o => win'[p] = win[p]
      /\ win'[o].view = v /\ win'[o].focused = f
  BY <1>1 DEF Restyled, WindowRecord
<1>4. Live' = Live
  BY <1>2 DEF Live
<1>5. \A p \in Live : p \in Objects
  BY <1>1, LiveObjects
<1>6. ListInv'
  BY <1>1, <1>2, <1>3, <1>4, <1>5 DEF ListInv, video
<1>7. IdsInv'
  BY <1>1, <1>2, <1>3 DEF IdsInv
<1>8. RangesInv'
  BY <1>2 DEF WindowsInv, RangesInv
<1> QED BY <1>2, <1>3, <1>4, <1>6, <1>7, <1>8

LEMMA EventOK ==
  ASSUME ListInv, NEW o \in Live, NEW type \in EventTypes, NEW data \in Extents
  PROVE  /\ Event(type, o, data) \in EventRecord /\ Accounted(Event(type, o, data))
         /\ Event(type, o, data) = [type |-> type, id |-> win[o].id, data |-> data, of |-> o, session |-> quits]
<1>1. o \in Objects /\ o \in 1..made /\ win[o] \in WindowRecord /\ quits \in Nat /\ win[o].session = quits
  BY LiveObjects DEF ListInv
<1> QED BY <1>1 DEF Event, EventRecord, WindowRecord, Accounted

\* Events that found room lead on; one that did not is noted.
LEMMA SentKeeps ==
  ASSUME WindowsInv, NEW o \in Live, NEW events \in Seq(EventRecord), Send(o, events),
         \A i \in DOMAIN events : Accounted(events[i]) /\ events[i].of = o,
         made' = made, \A p \in Objects : win'[p].id = win[p].id /\ win'[p].session = win[p].session,
         ListInv', Live' = Live, \A p \in Objects : p # o => win'[p] = win[p],
         queue' \in Seq(EventRecord),
         \A p, knew, to : p # o /\ Tells(knew, queue, p, to) => Tells(knew, queue', p, to),
         Len(queue) + Len(events) <= QueueSize =>
           \A knew : Tells(knew, queue, o, win[o].view) => Tells(knew, queue', o, win'[o].view)
  PROVE  EventsInv' /\ ToldInv'
<1>1. /\ queue \in Seq(EventRecord) /\ Len(queue) <= QueueSize
      /\ \A i \in DOMAIN queue : Accounted(queue[i])
  BY DEF WindowsInv, EventsInv
<1>2. queue' = Queued(events) /\ told' = told /\ refused \subseteq refused'
      /\ (~(Len(queue) + Len(events) <= QueueSize) => o \in refused')
  <2>1. Len(queue) \in Nat /\ Len(events) \in Nat /\ QueueSize \in Nat
    BY <1>1, LenProperties, WindowsAssumption
  <2>2. ~(Len(queue) + Len(events) <= QueueSize) => Len(queue) + Len(events) > QueueSize
    BY <2>1
  <2> QED BY <2>2 DEF Send
<1>3. EventsInv'
  <2>1. /\ Len(Queued(events)) <= QueueSize
        /\ \A i \in DOMAIN Queued(events) :
             \/ \E k \in DOMAIN queue : Queued(events)[i] = queue[k]
             \/ \E k \in DOMAIN events : Queued(events)[i] = events[k]
    BY <1>1, QueuedProperties
  <2>2. ASSUME NEW i \in DOMAIN queue'
        PROVE  /\ queue'[i].of \in 1..made' /\ queue'[i].id = win'[queue'[i].of].id
               /\ queue'[i].session = win'[queue'[i].of].session
    <3>1. \/ \E k \in DOMAIN queue : queue'[i] = queue[k]
          \/ \E k \in DOMAIN events : queue'[i] = events[k]
      BY <1>2, <2>1
    <3>2. Accounted(queue'[i])
      BY <1>1, <3>1
    <3>3. 1..made \subseteq Objects
      BY WindowsAssumption DEF WindowsInv, ListInv, Objects
    <3> QED BY <3>2, <3>3 DEF Accounted
  <2> QED BY <1>2, <2>1, <2>2 DEF EventsInv, Accounted
<1>4. ToldInv'
  <2> SUFFICES ASSUME NEW p \in Live \ refused' PROVE Tells(told[p], queue', p, win'[p].view)
    BY <1>2 DEF ToldInv, WindowsInv
  <2>1. p \in Objects /\ p \in Live \ refused
    BY <1>2, LiveObjects DEF WindowsInv
  <2>2. Tells(told[p], queue, p, win[p].view)
    BY <2>1 DEF WindowsInv, ToldInv
  <2> QED BY <1>2, <2>1, <2>2
<1> QED BY <1>3, <1>4

LEMMA OneToldKeeps ==
  ASSUME WindowsInv, NEW o \in Live, NEW v \in View, NEW f \in BOOLEAN, Restyled(o, v, f),
         UNCHANGED <<sessionVars, idVars, windows>>, FocusIsFlagged',
         NEW type \in EventTypes, NEW data \in Extents, Send(o, <<Event(type, o, data)>>),
         After(win[o].view, Event(type, o, data)) = v
  PROVE  WindowsInv'
<1> DEFINE e == Event(type, o, data)
           one == <<e>>
<1>1. e \in EventRecord /\ Accounted(e) /\ e.of = o
  BY EventOK DEF WindowsInv
<1>2. /\ ListInv' /\ IdsInv' /\ RangesInv' /\ Live' = Live
      /\ \A p \in Objects : p # o => win'[p] = win[p]
      /\ win'[o].view = v
      /\ made' = made /\ \A p \in Objects : win'[p].id = win[p].id /\ win'[p].session = win[p].session
  BY RestyledKeeps
<1>3. queue \in Seq(EventRecord) /\ Len(queue) <= QueueSize /\ Len(queue) \in Nat /\ QueueSize \in Nat
  BY LenProperties, WindowsAssumption DEF WindowsInv, EventsInv
<1> HIDE DEF e
<1>4. one \in Seq(EventRecord) /\ Len(one) = 1 /\ DOMAIN one = {1} /\ one[1] = e
  BY <1>1
<1>5. queue' = Queued(one)
  BY DEF Send, e
<1>6. /\ Len(queue) < QueueSize => queue' = Append(queue, e)
      /\ queue' \in {queue, Append(queue, e)}
  BY <1>1, <1>3, <1>5, QueuedOne
<1>7. queue' \in Seq(EventRecord)
  BY <1>1, <1>3, <1>6, AppendProperties
<1>8. ASSUME NEW p, NEW knew, NEW to, p # o, Tells(knew, queue, p, to) PROVE Tells(knew, queue', p, to)
  <2>1. Tells(knew, Append(queue, e), p, to)
    <3>1. Tells(knew, Append(queue, e), p, IF e.of = p THEN After(to, e) ELSE to)
      BY <1>1, <1>3, <1>8, TellsOn
    <3> QED BY <1>1, <1>8, <3>1
  <2> QED BY <1>6, <1>8, <2>1
<1>9. ASSUME NEW knew, Len(queue) + Len(one) <= QueueSize, Tells(knew, queue, o, win[o].view)
      PROVE  Tells(knew, queue', o, win'[o].view)
  <2>1. queue' = Append(queue, e)
    BY <1>3, <1>4, <1>6, <1>9
  <2>2. Tells(knew, Append(queue, e), o, IF e.of = o THEN After(win[o].view, e) ELSE win[o].view)
    BY <1>1, <1>3, <1>9, TellsOn
  <2>3. After(win[o].view, e) = v
    BY DEF e
  <2> QED BY <1>1, <1>2, <2>1, <2>2, <2>3
<1>10. Send(o, one)
  BY DEF e
<1>11. \A i \in DOMAIN one : Accounted(one[i]) /\ one[i].of = o
  BY <1>1, <1>4
<1> HIDE DEF one
<1>12. EventsInv' /\ ToldInv'
  BY <1>2, <1>4, <1>7, <1>8, <1>9, <1>10, <1>11, SentKeeps
<1> QED BY <1>2, <1>12 DEF WindowsInv

LEMMA TwoToldKeeps ==
  ASSUME WindowsInv, NEW o \in Live, NEW v \in View, NEW f \in BOOLEAN, Restyled(o, v, f),
         UNCHANGED <<sessionVars, idVars, windows>>, FocusIsFlagged',
         NEW first \in EventTypes, NEW second \in EventTypes, NEW data \in Extents,
         Send(o, <<Event(first, o, data), Event(second, o, data)>>),
         After(After(win[o].view, Event(first, o, data)), Event(second, o, data)) = v
  PROVE  WindowsInv'
<1> DEFINE d == Event(first, o, data)
           e == Event(second, o, data)
           two == <<d, e>>
<1>1. d \in EventRecord /\ Accounted(d) /\ d.of = o /\ e \in EventRecord /\ Accounted(e) /\ e.of = o
  BY EventOK DEF WindowsInv
<1>2. /\ ListInv' /\ IdsInv' /\ RangesInv' /\ Live' = Live
      /\ \A p \in Objects : p # o => win'[p] = win[p]
      /\ win'[o].view = v
      /\ made' = made /\ \A p \in Objects : win'[p].id = win[p].id /\ win'[p].session = win[p].session
  BY RestyledKeeps
<1>3. queue \in Seq(EventRecord) /\ Len(queue) <= QueueSize /\ Len(queue) \in Nat /\ QueueSize \in Nat
  BY LenProperties, WindowsAssumption DEF WindowsInv, EventsInv
<1>v. After(After(win[o].view, d), e) = v /\ Send(o, two)
  OBVIOUS
<1> HIDE DEF d, e
<1>4. two \in Seq(EventRecord) /\ Len(two) = 2 /\ DOMAIN two = {1, 2} /\ two[1] = d /\ two[2] = e
  BY <1>1
<1>5. queue' = Queued(two)
  BY <1>v DEF Send
<1> DEFINE t == Append(queue, d)
           u == Append(t, e)
<1>6. /\ Len(queue) + 2 <= QueueSize => queue' = u
      /\ queue' \in {queue, t, u}
  BY <1>1, <1>3, <1>5, QueuedTwo
<1>7. t \in Seq(EventRecord)
  BY <1>1, <1>3, AppendProperties
<1>8. ASSUME NEW p, NEW knew, NEW to, Tells(knew, queue, p, to)
      PROVE  Tells(knew, t, p, IF d.of = p THEN After(to, d) ELSE to)
  BY <1>1, <1>3, <1>8, TellsOn
<1> HIDE DEF t
<1>9. u \in Seq(EventRecord)
  BY <1>1, <1>7, AppendProperties
<1>10. ASSUME NEW p, NEW knew, NEW to, Tells(knew, t, p, to)
      PROVE  Tells(knew, u, p, IF e.of = p THEN After(to, e) ELSE to)
  BY <1>1, <1>7, <1>10, TellsOn
<1> HIDE DEF u, two
<1>11. ASSUME NEW p, NEW knew, NEW to, p # o, Tells(knew, queue, p, to) PROVE Tells(knew, queue', p, to)
  <2>1. Tells(knew, t, p, to)
    BY <1>1, <1>8, <1>11
  <2>2. Tells(knew, u, p, to)
    BY <1>1, <1>10, <1>11, <2>1
  <2> QED BY <1>6, <1>11, <2>1, <2>2
<1>12. ASSUME NEW knew, Len(queue) + Len(two) <= QueueSize, Tells(knew, queue, o, win[o].view)
      PROVE  Tells(knew, queue', o, win'[o].view)
  <2>1. queue' = u
    BY <1>4, <1>6, <1>12
  <2>2. Tells(knew, t, o, After(win[o].view, d))
    BY <1>1, <1>8, <1>12
  <2>3. Tells(knew, u, o, After(After(win[o].view, d), e))
    BY <1>1, <1>10, <2>2
  <2> QED BY <1>2, <1>v, <2>1, <2>3
<1>13. \A i \in DOMAIN two : Accounted(two[i]) /\ two[i].of = o
  BY <1>1, <1>4
<1>14. queue' \in Seq(EventRecord)
  BY <1>3, <1>6, <1>7, <1>9
<1>15. EventsInv' /\ ToldInv'
  BY <1>2, <1>4, <1>11, <1>12, <1>13, <1>14, <1>v, SentKeeps
<1> QED BY <1>2, <1>15 DEF WindowsInv

LEMMA WindowParts ==
  ASSUME WindowsInv, NEW o \in Live
  PROVE  /\ o \in Objects /\ win \in [Objects -> WindowRecord] /\ win[o].view \in View
         /\ win[o].focused \in BOOLEAN
         /\ win[o] = [id |-> win[o].id, view |-> win[o].view, focused |-> win[o].focused,
                      session |-> win[o].session]
<1>1. o \in Objects /\ win \in [Objects -> WindowRecord]
  BY LiveObjects DEF WindowsInv, ListInv
<1> QED BY <1>1 DEF WindowRecord

\* A window in focus stays flagged when another is changed.
LEMMA FocusStays ==
  ASSUME WindowsInv, NEW o \in Live, NEW v \in View, Restyled(o, v, win[o].focused),
         UNCHANGED <<windows, focusVars>>
  PROVE  FocusIsFlagged'
<1>1. \A p \in Live : p \in Objects
  BY LiveObjects DEF WindowsInv
<1>2. \A p \in Objects : win'[p].focused = win[p].focused
  BY WindowParts DEF Restyled
<1>3. Live' = Live /\ keyboard_focus' = keyboard_focus /\ mouse_focus' = mouse_focus
  BY DEF Live, focusVars
<1> QED BY <1>1, <1>2, <1>3 DEF WindowsInv, FocusIsFlagged


LEMMA ViewRestyles ==
  ASSUME WindowsInv, NEW o \in Live, NEW v \in View, win' = [win EXCEPT ![o].view = v]
  PROVE  Restyled(o, v, win[o].focused)
<1>1. o \in Objects /\ win \in [Objects -> WindowRecord]
  BY WindowParts
<1> DEFINE r == win[o]
<1>2. r \in WindowRecord
  BY <1>1
<1> HIDE DEF r
<1>3. [r EXCEPT !.view = v] = [id |-> r.id, view |-> v, focused |-> r.focused, session |-> r.session]
  BY <1>2 DEF WindowRecord
<1>4. win' = [win EXCEPT ![o] = [r EXCEPT !.view = v]]
  BY <1>1 DEF r
<1> QED BY <1>3, <1>4 DEF Restyled, r

\* A change of the view that one event tells
LEMMA ChangeKeeps ==
  ASSUME WindowsInv, NEW o, NEW v \in View, NEW type \in EventTypes, NEW data \in Extents,
         Change(o, v, <<Event(type, o, data)>>),
         After(win[o].view, Event(type, o, data)) = v
  PROVE  WindowsInv'
<1>1. /\ o \in Live /\ win' = [win EXCEPT ![o].view = v] /\ Send(o, <<Event(type, o, data)>>)
      /\ UNCHANGED <<sessionVars, idVars, windows, focusVars>>
  BY DEF Change
<1>2. Restyled(o, v, win[o].focused)
  BY <1>1, ViewRestyles
<1> QED BY <1>1, <1>2, WindowParts, FocusStays, OneToldKeeps

\* What a call tells is what it did.
LEMMA EventIs ==
  ASSUME NEW o, NEW type, NEW data
  PROVE  Event(type, o, data).type = type /\ Event(type, o, data).data = data
BY DEF Event

LEMMA PositionKeeps == ASSUME WindowsInv, NEW o \in Objects, NEW x \in Extents, SetWindowPosition(o, x)
                       PROVE  WindowsInv'
<1> DEFINE v == [win[o].view EXCEPT !.x = x]
<1>1. o \in Live
  BY DEF SetWindowPosition, Change
<1>2. v \in View
  BY <1>1, WindowParts DEF View
<1>3. After(win[o].view, Event("MOVED", o, x)) = v
  BY EventIs DEF After
<1>4. Change(o, v, <<Event("MOVED", o, x)>>)
  BY DEF SetWindowPosition
<1>9. "MOVED" \in EventTypes /\ x \in Extents
  BY WindowsAssumption DEF EventTypes
<1> HIDE DEF v
<1> QED BY <1>2, <1>3, <1>4, <1>9, ChangeKeeps

LEMMA MinimizeKeeps == ASSUME WindowsInv, NEW o \in Objects, MinimizeWindow(o) PROVE WindowsInv'
<1> DEFINE v == [win[o].view EXCEPT !.minimized = TRUE]
<1>1. o \in Live
  BY DEF MinimizeWindow, Change
<1>2. v \in View
  BY <1>1, WindowParts DEF View
<1>3. After(win[o].view, Event("MINIMIZED", o, 0)) = v
  BY EventIs DEF After
<1>4. Change(o, v, <<Event("MINIMIZED", o, 0)>>)
  BY DEF MinimizeWindow
<1>9. "MINIMIZED" \in EventTypes /\ 0 \in Extents
  BY WindowsAssumption DEF EventTypes
<1> HIDE DEF v
<1> QED BY <1>2, <1>3, <1>4, <1>9, ChangeKeeps

LEMMA MaximizeKeeps == ASSUME WindowsInv, NEW o \in Objects, MaximizeWindow(o) PROVE WindowsInv'
<1> DEFINE v == [win[o].view EXCEPT !.maximized = TRUE]
<1>1. o \in Live
  BY DEF MaximizeWindow, Change
<1>2. v \in View
  BY <1>1, WindowParts DEF View
<1>3. After(win[o].view, Event("MAXIMIZED", o, 0)) = v
  BY EventIs DEF After
<1>4. Change(o, v, <<Event("MAXIMIZED", o, 0)>>)
  BY DEF MaximizeWindow
<1>9. "MAXIMIZED" \in EventTypes /\ 0 \in Extents
  BY WindowsAssumption DEF EventTypes
<1> HIDE DEF v
<1> QED BY <1>2, <1>3, <1>4, <1>9, ChangeKeeps

LEMMA RestoreKeeps == ASSUME WindowsInv, NEW o \in Objects, RestoreWindow(o) PROVE WindowsInv'
<1> DEFINE v == [win[o].view EXCEPT !.minimized = FALSE, !.maximized = FALSE]
<1>1. o \in Live
  BY DEF RestoreWindow, Change
<1>2. v \in View
  BY <1>1, WindowParts DEF View
<1>3. After(win[o].view, Event("RESTORED", o, 0)) = v
  BY EventIs DEF After
<1>4. Change(o, v, <<Event("RESTORED", o, 0)>>)
  BY DEF RestoreWindow
<1>9. "RESTORED" \in EventTypes /\ 0 \in Extents
  BY WindowsAssumption DEF EventTypes
<1> HIDE DEF v
<1> QED BY <1>2, <1>3, <1>4, <1>9, ChangeKeeps

LEMMA FullscreenKeeps == ASSUME WindowsInv, NEW o \in Objects, NEW full \in BOOLEAN, SetWindowFullscreen(o, full)
                         PROVE  WindowsInv'
<1>1. o \in Live
  BY DEF SetWindowFullscreen, Change
<1>2. CASE full = TRUE
  <2> DEFINE v == [win[o].view EXCEPT !.fullscreen = FALSE]
  <2>1. v \in View
    BY <1>1, WindowParts DEF View
  <2>2. After(win[o].view, Event("LEAVE_FULLSCREEN", o, 0)) = v
    BY EventIs DEF After
  <2>3. Change(o, v, <<Event("LEAVE_FULLSCREEN", o, 0)>>)
    BY <1>2 DEF SetWindowFullscreen
  <2>9. "LEAVE_FULLSCREEN" \in EventTypes /\ 0 \in Extents
    BY WindowsAssumption DEF EventTypes
  <2> HIDE DEF v
  <2> QED BY <2>1, <2>2, <2>3, <2>9, ChangeKeeps
<1>3. CASE full = FALSE
  <2> DEFINE v == [win[o].view EXCEPT !.fullscreen = TRUE]
  <2>1. v \in View
    BY <1>1, WindowParts DEF View
  <2>2. After(win[o].view, Event("ENTER_FULLSCREEN", o, 0)) = v
    BY EventIs DEF After
  <2>3. Change(o, v, <<Event("ENTER_FULLSCREEN", o, 0)>>)
    BY <1>3 DEF SetWindowFullscreen
  <2>9. "ENTER_FULLSCREEN" \in EventTypes /\ 0 \in Extents
    BY WindowsAssumption DEF EventTypes
  <2> HIDE DEF v
  <2> QED BY <2>1, <2>2, <2>3, <2>9, ChangeKeeps
<1> QED BY <1>2, <1>3

\* A change nobody is told of, noted as such, or none.
LEMMA UntoldKeeps ==
  ASSUME WindowsInv, NEW o \in Live, NEW v \in View, NEW f \in BOOLEAN, Restyled(o, v, f),
         UNCHANGED <<sessionVars, idVars, windows, queue, told>>, FocusIsFlagged',
         refused \subseteq refused', v = win[o].view \/ o \in refused'
  PROVE  WindowsInv'
<1>1. /\ ListInv' /\ IdsInv' /\ RangesInv' /\ Live' = Live
      /\ \A p \in Objects : p # o => win'[p] = win[p]
      /\ win'[o].view = v
      /\ made' = made /\ \A p \in Objects : win'[p].id = win[p].id /\ win'[p].session = win[p].session
  BY RestyledKeeps
<1>2. EventsInv'
  <2>1. /\ queue \in Seq(EventRecord) /\ Len(queue) <= QueueSize
        /\ \A i \in DOMAIN queue : Accounted(queue[i])
    BY DEF WindowsInv, EventsInv
  <2>2. 1..made \subseteq Objects
    BY WindowsAssumption DEF WindowsInv, ListInv, Objects
  <2> QED BY <1>1, <2>1, <2>2 DEF EventsInv, Accounted
<1>3. ToldInv'
  <2> SUFFICES ASSUME NEW p \in Live \ refused' PROVE Tells(told[p], queue, p, win'[p].view)
    BY <1>1 DEF ToldInv, WindowsInv
  <2>1. p \in Objects /\ p \in Live \ refused
    BY LiveObjects DEF WindowsInv
  <2>2. Tells(told[p], queue, p, win[p].view)
    BY <2>1 DEF WindowsInv, ToldInv
  <2> QED BY <1>1, <2>1, <2>2
<1> QED BY <1>1, <1>2, <1>3 DEF WindowsInv

LEMMA SizeKeeps ==
  ASSUME WindowsInv, NEW o \in Objects, NEW w \in Extents, NEW granted \in BOOLEAN,
         SetWindowSize(o, w, granted)
  PROVE  WindowsInv'
<1> DEFINE v == [win[o].view EXCEPT !.w = w]
<1>1. o \in Live
  BY DEF SetWindowSize, Change
<1>2. v \in View
  BY <1>1, WindowParts DEF View
<1>3. CASE granted = TRUE
  <2>1. Change(o, v, <<Event("RESIZED", o, w), Event("PIXEL_SIZE_CHANGED", o, w)>>)
    BY <1>3 DEF SetWindowSize
  <2>2. After(win[o].view, Event("RESIZED", o, w)) = v /\ After(v, Event("PIXEL_SIZE_CHANGED", o, w)) = v
    BY EventIs DEF After
  <2>3. "RESIZED" \in EventTypes /\ "PIXEL_SIZE_CHANGED" \in EventTypes
    BY DEF EventTypes
  <2> HIDE DEF v
  <2>4. /\ win' = [win EXCEPT ![o].view = v]
        /\ Send(o, <<Event("RESIZED", o, w), Event("PIXEL_SIZE_CHANGED", o, w)>>)
        /\ UNCHANGED <<sessionVars, idVars, windows, focusVars>>
    BY <2>1 DEF Change
  <2>5. Restyled(o, v, win[o].focused)
    BY <1>1, <1>2, <2>4, ViewRestyles
  <2>6. After(After(win[o].view, Event("RESIZED", o, w)), Event("PIXEL_SIZE_CHANGED", o, w)) = v
    BY <2>2
  <2> QED BY <1>1, <1>2, <2>3, <2>4, <2>5, <2>6, WindowParts, FocusStays, TwoToldKeeps
<1>4. CASE granted = FALSE
  <2>1. /\ win' = [win EXCEPT ![o].view.w = w] /\ refused' = refused \cup {o}
        /\ UNCHANGED <<sessionVars, idVars, windows, focusVars, queue, told>>
    BY <1>4 DEF SetWindowSize
  <2>2. win' = [win EXCEPT ![o].view = v]
    BY <1>1, <2>1, WindowParts
  <2> HIDE DEF v
  <2>3. Restyled(o, v, win[o].focused)
    BY <1>1, <1>2, <2>2, ViewRestyles
  <2>4. FocusIsFlagged'
    BY <1>1, <1>2, <2>1, <2>3, FocusStays
  <2> QED BY <1>1, <1>2, <2>1, <2>3, <2>4, WindowParts, UntoldKeeps
<1> QED BY <1>3, <1>4

LEMMA FieldChanged ==
  ASSUME NEW Ids, NEW Seen, NEW Flag, NEW Session,
         NEW q \in [id : Ids, view : Seen, focused : Flag, session : Session], NEW f
  PROVE  [q EXCEPT !.focused = f] = [id |-> q.id, view |-> q.view, focused |-> f, session |-> q.session]
OBVIOUS

LEMMA Flagged ==
  ASSUME NEW r \in WindowRecord, NEW v \in View, NEW f
  PROVE  /\ [r EXCEPT !.focused = f] = [id |-> r.id, view |-> r.view, focused |-> f, session |-> r.session]
         /\ [[r EXCEPT !.view = v] EXCEPT !.focused = f]
              = [id |-> r.id, view |-> v, focused |-> f, session |-> r.session]
<1>1. ASSUME NEW q \in WindowRecord
      PROVE  [q EXCEPT !.focused = f] = [id |-> q.id, view |-> q.view, focused |-> f, session |-> q.session]
  BY FieldChanged DEF WindowRecord
<1> DEFINE q == [r EXCEPT !.view = v]
<1>2. q \in WindowRecord /\ q.id = r.id /\ q.view = v /\ q.session = r.session
  BY DEF WindowRecord
<1> HIDE DEF q
<1>3. [q EXCEPT !.focused = f] = [id |-> r.id, view |-> v, focused |-> f, session |-> r.session]
  BY <1>1, <1>2
<1> QED BY <1>1, <1>3 DEF q

LEMMA RaiseKeeps == ASSUME WindowsInv, NEW o \in Objects, RaiseWindow(o) PROVE WindowsInv'
<1>1. /\ o \in Live /\ win' = [win EXCEPT ![o].focused = TRUE] /\ Focus(o)
      /\ UNCHANGED <<sessionVars, idVars, windows, eventVars>>
  BY DEF RaiseWindow
<1> DEFINE r == win[o]
<1>2. r \in WindowRecord /\ o \in Objects /\ win \in [Objects -> WindowRecord] /\ r.view \in View
  BY <1>1, WindowParts
<1>3. win' = [win EXCEPT ![o] = [r EXCEPT !.focused = TRUE]]
  BY <1>1, <1>2
<1> HIDE DEF r
<1>4. [r EXCEPT !.focused = TRUE] = [id |-> r.id, view |-> r.view, focused |-> TRUE, session |-> r.session]
  BY <1>2, Flagged
<1>5. Restyled(o, win[o].view, TRUE)
  BY <1>3, <1>4 DEF Restyled, r
<1>6. FocusIsFlagged'
  <2>1. win'[o].focused = TRUE
    BY <1>2, <1>5 DEF Restyled
  <2>2. Live' = Live
    BY <1>1 DEF Live
  <2> QED BY <1>1, <2>1, <2>2 DEF FocusIsFlagged, Focus
<1>7. queue' = queue /\ told' = told /\ refused' = refused
  BY <1>1 DEF eventVars
<1>8. TRUE \in BOOLEAN /\ win[o].view \in View
  BY <1>2 DEF r
<1> QED BY <1>1, <1>5, <1>6, <1>7, <1>8, UntoldKeeps

LEMMA ShownRestyles ==
  ASSUME WindowsInv, NEW o \in Live, NEW b \in BOOLEAN,
         win' = [win EXCEPT ![o].view.shown = b, ![o].focused = b]
  PROVE  Restyled(o, [win[o].view EXCEPT !.shown = b], b) /\ [win[o].view EXCEPT !.shown = b] \in View
<1> DEFINE r == win[o]
           q == [r EXCEPT !.view.shown = b]
<1>1. r \in WindowRecord /\ o \in Objects /\ win \in [Objects -> WindowRecord] /\ r.view \in View
  BY WindowParts
<1>2. win' = [win EXCEPT ![o] = [q EXCEPT !.focused = b]]
  BY <1>1
<1> HIDE DEF r
<1> DEFINE v == [r.view EXCEPT !.shown = b]
<1>3. v \in View
  BY <1>1 DEF View
<1>4. q = [r EXCEPT !.view = v]
  BY <1>1 DEF WindowRecord
<1> HIDE DEF v, q
<1>5. [q EXCEPT !.focused = b] = [id |-> r.id, view |-> v, focused |-> b, session |-> r.session]
  BY <1>1, <1>3, <1>4, Flagged
<1>6. Restyled(o, v, b)
  BY <1>2, <1>5 DEF Restyled, r
<1> QED BY <1>3, <1>6 DEF v, r

LEMMA ShowKeeps == ASSUME WindowsInv, NEW o \in Objects, ShowWindow(o) PROVE WindowsInv'
<1>1. /\ o \in Live /\ win' = [win EXCEPT ![o].view.shown = TRUE, ![o].focused = TRUE] /\ Focus(o)
      /\ Send(o, <<Event("SHOWN", o, 0)>>) /\ UNCHANGED <<sessionVars, idVars, windows>>
  BY DEF ShowWindow
<1> DEFINE v == [win[o].view EXCEPT !.shown = TRUE]
<1>2. Restyled(o, v, TRUE) /\ v \in View
  BY <1>1, ShownRestyles
<1>3. FocusIsFlagged'
  <2>1. win'[o].focused = TRUE
    BY <1>1, <1>2, WindowParts DEF Restyled
  <2>2. Live' = Live
    BY <1>1 DEF Live
  <2> QED BY <1>1, <2>1, <2>2 DEF FocusIsFlagged, Focus
<1>4. After(win[o].view, Event("SHOWN", o, 0)) = v
  BY EventIs DEF After
<1>5. "SHOWN" \in EventTypes /\ 0 \in Extents /\ TRUE \in BOOLEAN
  BY WindowsAssumption DEF EventTypes
<1> HIDE DEF v
<1> QED BY <1>1, <1>2, <1>3, <1>4, <1>5, OneToldKeeps

LEMMA HideKeeps == ASSUME WindowsInv, NEW o \in Objects, HideWindow(o) PROVE WindowsInv'
<1>1. /\ o \in Live /\ win' = [win EXCEPT ![o].view.shown = FALSE, ![o].focused = FALSE]
      /\ Send(o, <<Event("HIDDEN", o, 0)>>) /\ UNCHANGED <<sessionVars, idVars, windows>>
      /\ keyboard_focus' = IF keyboard_focus = o THEN NoOne ELSE keyboard_focus
      /\ mouse_focus' = IF mouse_focus = o THEN NoOne ELSE mouse_focus
  BY DEF HideWindow
<1> DEFINE v == [win[o].view EXCEPT !.shown = FALSE]
<1>0. FALSE \in BOOLEAN
  OBVIOUS
<1>2. Restyled(o, v, FALSE) /\ v \in View
  BY <1>0, <1>1, ShownRestyles
<1>3. FocusIsFlagged'
  <2>1. \A p \in Objects : p # o => win'[p] = win[p]
    BY <1>2, WindowParts DEF Restyled
  <2>2. Live' = Live
    BY <1>1 DEF Live
  <2>3. \A p \in Live : p \in Objects
    BY LiveObjects DEF WindowsInv
  <2>4. keyboard_focus' # NoOne => keyboard_focus' = keyboard_focus /\ keyboard_focus' # o
    BY <1>1
  <2>5. mouse_focus' # NoOne => mouse_focus' = mouse_focus /\ mouse_focus' # o
    BY <1>1
  <2> QED BY <2>1, <2>2, <2>3, <2>4, <2>5 DEF FocusIsFlagged, WindowsInv
<1>4. After(win[o].view, Event("HIDDEN", o, 0)) = v
  BY EventIs DEF After
<1>5. "HIDDEN" \in EventTypes /\ 0 \in Extents
  BY WindowsAssumption DEF EventTypes
<1> HIDE DEF v
<1> QED BY <1>0, <1>1, <1>2, <1>3, <1>4, <1>5, OneToldKeeps

-----------------------------------------------------------------------------
(* Windows come and go.                                                      *)

LEMMA RemoveAtProperties ==
  ASSUME NEW S, NEW s \in Seq(S), NEW i \in DOMAIN s
  PROVE  /\ RemoveAt(s, i) \in Seq(S) /\ Len(RemoveAt(s, i)) = Len(s) - 1
         /\ \A k \in 1..Len(s) - 1 : RemoveAt(s, i)[k] = IF k < i THEN s[k] ELSE s[k + 1]
<1> DEFINE n == Len(s)
           l == SubSeq(s, 1, i - 1)
           r == SubSeq(s, i + 1, n)
<1>1. n \in Nat /\ i \in 1..n /\ i \in Int /\ \A k \in 1..n : s[k] \in S
  BY LenProperties, ElementOfSeq
<1> HIDE DEF n
<1>2. l \in Seq(S) /\ Len(l) = i - 1 /\ \A k \in 1..i - 1 : l[k] = s[k]
  <2>1. /\ l \in Seq(S) /\ Len(l) = IF 1 <= i - 1 THEN i - 1 - 1 + 1 ELSE 0
        /\ \A k \in 1..i - 1 - 1 + 1 : l[k] = s[1 + k - 1]
    BY <1>1, SubSeqProperties
  <2> HIDE DEF l
  <2>2. i - 1 - 1 + 1 = i - 1 /\ (IF 1 <= i - 1 THEN i - 1 - 1 + 1 ELSE 0) = i - 1
    BY <1>1
  <2>3. \A k \in 1..i - 1 : 1 + k - 1 = k
    BY <1>1
  <2> QED BY <2>1, <2>2, <2>3
<1>3. r \in Seq(S) /\ Len(r) = n - i /\ \A k \in 1..n - i : r[k] = s[i + k]
  <2>1. /\ r \in Seq(S) /\ Len(r) = IF i + 1 <= n THEN n - (i + 1) + 1 ELSE 0
        /\ \A k \in 1..n - (i + 1) + 1 : r[k] = s[i + 1 + k - 1]
    <3>1. i + 1 \in Int /\ n \in Int /\ \A k \in i + 1..n : s[k] \in S
      BY <1>1
    <3> QED BY <3>1, SubSeqProperties
  <2> HIDE DEF r
  <2>2. n - (i + 1) + 1 = n - i /\ (IF i + 1 <= n THEN n - (i + 1) + 1 ELSE 0) = n - i
    BY <1>1
  <2>3. \A k \in 1..n - i : i + 1 + k - 1 = i + k
    BY <1>1
  <2> QED BY <2>1, <2>2, <2>3
<1>4. RemoveAt(s, i) = l \o r
  BY DEF RemoveAt, n
<1> HIDE DEF l, r
<1>5. /\ l \o r \in Seq(S) /\ Len(l \o r) = Len(l) + Len(r)
      /\ \A k \in 1..Len(l) + Len(r) : (l \o r)[k] = IF k <= Len(l) THEN l[k] ELSE r[k - Len(l)]
  BY <1>2, <1>3, ConcatProperties
<1> DEFINE all == l \o r
<1> HIDE DEF all
<1>6. Len(l) + Len(r) = n - 1
  BY <1>1, <1>2, <1>3
<1>7. ASSUME NEW k \in 1..n - 1 PROVE all[k] = IF k < i THEN s[k] ELSE s[k + 1]
  <2>1. CASE k < i
    <3>1. k \in 1..i - 1 /\ k <= i - 1
      BY <1>1, <2>1
    <3> QED BY <1>2, <1>5, <1>6, <2>1, <3>1 DEF all
  <2>2. CASE ~(k < i)
    <3>1. k - (i - 1) \in 1..n - i /\ ~(k <= i - 1) /\ i + (k - (i - 1)) = k + 1
      BY <1>1, <2>2
    <3> QED BY <1>2, <1>3, <1>5, <1>6, <2>2, <3>1 DEF all
  <2> QED BY <2>1, <2>2
<1> QED BY <1>4, <1>5, <1>6, <1>7 DEF all, n

\* The list with one window more,
LEMMA Listed ==
  ASSUME ListInv, NEW o \in Objects, o \notin Live, windows' = <<o>> \o windows
  PROVE  /\ windows' \in Seq(Objects) /\ Live' = Live \cup {o}
         /\ \A i, j \in DOMAIN windows' : windows'[i] = windows'[j] => i = j
<1> DEFINE n == Len(windows)
           one == <<o>>
           more == one \o windows
<1>1. one \in Seq(Objects) /\ Len(one) = 1 /\ one[1] = o
  OBVIOUS
<1>2. windows \in Seq(Objects) /\ n \in Nat /\ DOMAIN windows = 1..n
  BY LenProperties DEF ListInv
<1> HIDE DEF one
<1>3. /\ more \in Seq(Objects) /\ Len(more) = Len(one) + Len(windows)
      /\ \A i \in 1..Len(one) + Len(windows) : more[i] = IF i <= Len(one) THEN one[i] ELSE windows[i - Len(one)]
  BY <1>1, <1>2, ConcatProperties
<1>m. windows' = more
  BY DEF one
<1> HIDE DEF n, more
<1>4. Len(more) = n + 1 /\ \A i \in 1..n + 1 : more[i] = IF i <= 1 THEN o ELSE windows[i - 1]
  <2>1. Len(one) + Len(windows) = n + 1
    BY <1>1, <1>2 DEF n
  <2>2. \A i \in 1..n + 1 : i <= 1 => i = 1
    BY <1>2
  <2> QED BY <1>1, <1>3, <2>1, <2>2
<1>5. DOMAIN more = 1..n + 1
  BY <1>3, <1>4, LenProperties
<1>6. \A i \in 1..n + 1 : \/ i = 1 /\ more[i] = o
                          \/ i - 1 \in 1..n /\ more[i] = windows[i - 1]
  BY <1>2, <1>4
<1>7. ASSUME NEW i \in 1..n PROVE windows[i] \in Live
  BY <1>2 DEF Live, ToSet
<1>8. ASSUME NEW i \in 1..n PROVE i + 1 \in 1..n + 1 /\ more[i + 1] = windows[i]
  BY <1>2, <1>4
<1>9. 1 \in 1..n + 1 /\ more[1] = o
  BY <1>2, <1>4
<1>10. Live' = {more[i] : i \in 1..n + 1} /\ Live = {windows[i] : i \in 1..n}
  BY <1>m, <1>2, <1>5 DEF Live, ToSet
<1>11. Live' = Live \cup {o}
  BY <1>6, <1>8, <1>9, <1>10
<1>12. ASSUME NEW i \in 1..n + 1, NEW j \in 1..n + 1, more[i] = more[j] PROVE i = j
  <2>1. CASE i = 1 /\ more[i] = o
    BY <1>6, <1>7, <1>12, <2>1
  <2>2. CASE i - 1 \in 1..n /\ more[i] = windows[i - 1]
    <3>1. CASE j = 1 /\ more[j] = o
      BY <1>7, <1>12, <2>2, <3>1
    <3>2. CASE j - 1 \in 1..n /\ more[j] = windows[j - 1]
      <4>1. i - 1 = j - 1
        BY <1>2, <1>12, <2>2, <3>2 DEF ListInv
      <4> QED BY <1>2, <4>1
    <3> QED BY <1>6, <3>1, <3>2
  <2> QED BY <1>6, <2>1, <2>2
<1> QED BY <1>m, <1>3, <1>5, <1>11, <1>12

\* and with one less.
LEMMA Unlisted ==
  ASSUME ListInv, NEW i \in DOMAIN windows, windows' = RemoveAt(windows, i)
  PROVE  /\ windows' \in Seq(Objects) /\ Live' = Live \ {windows[i]}
         /\ \A j, k \in DOMAIN windows' : windows'[j] = windows'[k] => j = k
<1> DEFINE n == Len(windows)
           less == RemoveAt(windows, i)
<1>1. /\ windows \in Seq(Objects) /\ n \in Nat /\ DOMAIN windows = 1..n
      /\ \A j, k \in 1..n : windows[j] = windows[k] => j = k
  BY LenProperties DEF ListInv
<1>2. /\ less \in Seq(Objects) /\ Len(less) = n - 1
      /\ \A k \in 1..n - 1 : less[k] = IF k < i THEN windows[k] ELSE windows[k + 1]
  BY <1>1, RemoveAtProperties
<1>3. windows' = less
  OBVIOUS
<1> HIDE DEF less, n
<1>4. DOMAIN less = 1..n - 1
  BY <1>2, LenProperties
<1> DEFINE was(k) == IF k < i THEN k ELSE k + 1
<1>5. ASSUME NEW k \in 1..n - 1 PROVE was(k) \in 1..n /\ was(k) # i /\ less[k] = windows[was(k)]
  BY <1>1, <1>2
<1>6. ASSUME NEW j \in 1..n, j # i PROVE \E k \in 1..n - 1 : was(k) = j
  <2>1. CASE j < i
    <3>1. j \in 1..n - 1 /\ was(j) = j
      BY <1>1, <2>1
    <3> QED BY <3>1
  <2>2. CASE ~(j < i)
    <3>1. j - 1 \in 1..n - 1 /\ was(j - 1) = j
      BY <1>1, <1>6, <2>2
    <3> QED BY <3>1
  <2> QED BY <2>1, <2>2
<1>7. ASSUME NEW j \in 1..n - 1, NEW k \in 1..n - 1, less[j] = less[k] PROVE j = k
  <2>1. was(j) = was(k)
    BY <1>1, <1>5, <1>7
  <2> QED BY <1>1, <2>1
<1> HIDE DEF was
<1>8. Live' = {less[k] : k \in 1..n - 1} /\ Live = {windows[k] : k \in 1..n}
  BY <1>1, <1>3, <1>4 DEF Live, ToSet
<1>9. ASSUME NEW k \in 1..n - 1 PROVE less[k] \in Live \ {windows[i]}
  BY <1>1, <1>5, <1>8
<1>10. ASSUME NEW o \in Live \ {windows[i]} PROVE o \in Live'
  <2>1. PICK j \in 1..n : o = windows[j]
    BY <1>8
  <2>2. PICK k \in 1..n - 1 : was(k) = j
    BY <1>6, <2>1
  <2> QED BY <1>5, <1>8, <2>1, <2>2
<1>11. Live' = Live \ {windows[i]}
  BY <1>8, <1>9, <1>10
<1> QED BY <1>2, <1>3, <1>4, <1>7, <1>11

LEMMA PollKeeps == ASSUME WindowsInv, PollEvent PROVE WindowsInv'
<1> DEFINE e == Head(queue)
           rest == Tail(queue)
<1>1. /\ queue # <<>> /\ queue \in Seq(EventRecord) /\ Len(queue) <= QueueSize /\ QueueSize \in Nat
      /\ \A i \in DOMAIN queue : Accounted(queue[i])
      /\ told \in [Objects -> View]
      /\ \A o \in Live \ refused : Tells(told[o], queue, o, win[o].view)
  BY WindowsAssumption DEF PollEvent, WindowsInv, EventsInv, ToldInv
<1>2. /\ windows' = windows /\ win' = win /\ made' = made /\ next_window_id' = next_window_id
      /\ quits' = quits /\ init_done' = init_done /\ init_flags' = init_flags /\ ranges' = ranges
      /\ next_user_event' = next_user_event /\ refused' = refused
      /\ keyboard_focus' = keyboard_focus /\ mouse_focus' = mouse_focus
      /\ told' = IF e.of \in Live THEN [told EXCEPT ![e.of] = After(@, e)] ELSE told
      /\ queue' = rest
  BY DEF PollEvent, sessionVars, idVars, focusVars
<1>3. /\ e \in EventRecord /\ rest \in Seq(EventRecord) /\ Len(rest) = Len(queue) - 1
      /\ \A i \in 1..Len(rest) : rest[i] = queue[i + 1]
      /\ Len(queue) \in Nat /\ Len(rest) \in Nat /\ DOMAIN queue = 1..Len(queue) /\ DOMAIN rest = 1..Len(rest)
  BY <1>1, HeadTailProperties, LenProperties
<1>4. ListInv' /\ IdsInv' /\ RangesInv' /\ FocusIsFlagged' /\ Live' = Live
  BY <1>2 DEF WindowsInv, ListInv, IdsInv, RangesInv, FocusIsFlagged, Live, video
<1>5. EventsInv'
  <2>1. \A i \in DOMAIN rest : Accounted(rest[i])
    <3>1. \A i \in 1..Len(rest) : i + 1 \in 1..Len(queue)
      BY <1>3
    <3> QED BY <1>1, <1>3, <3>1
  <2>2. Len(rest) <= QueueSize
    BY <1>1, <1>3
  <2> QED BY <1>2, <1>3, <2>1, <2>2 DEF EventsInv, Accounted
<1>6. ToldInv'
  <2>1. told' \in [Objects -> View] /\ \A o \in Live : o \in Objects /\
          told'[o] = IF e.of = o THEN After(told[o], e) ELSE told[o]
    <3>1. \A o \in Live : o \in Objects
      BY LiveObjects DEF WindowsInv
    <3>2. \A o \in Objects : After(told[o], e) \in View
      BY <1>1, <1>3, AfterView
    <3> QED BY <1>1, <1>2, <3>1, <3>2
  <2>2. ASSUME NEW o \in Live \ refused PROVE Tells(told'[o], rest, o, win[o].view)
    <3>1. Tells(IF e.of = o THEN After(told[o], e) ELSE told[o], rest, o, win[o].view)
      BY <1>1, TellsTail
    <3> QED BY <2>1, <3>1
  <2> QED BY <1>2, <1>4, <2>1, <2>2 DEF ToldInv
<1> QED BY <1>4, <1>5, <1>6 DEF WindowsInv

\* What leaves windows, their events and the focus alone.
LEMMA WindowsStay ==
  ASSUME WindowsInv, UNCHANGED <<quits, made, windows, win, focusVars, eventVars>>,
         IdsInv', RangesInv', next_window_id' \in Nat, Live # {} => video', ~init_done' => next_window_id' = 0
  PROVE  WindowsInv'
<1>1. /\ windows' = windows /\ win' = win /\ made' = made /\ quits' = quits
      /\ keyboard_focus' = keyboard_focus /\ mouse_focus' = mouse_focus
      /\ queue' = queue /\ told' = told /\ refused' = refused
  BY DEF focusVars, eventVars
<1>2. Live' = Live
  BY <1>1 DEF Live
<1>3. ListInv'
  BY <1>1, <1>2 DEF WindowsInv, ListInv
<1>4. EventsInv' /\ FocusIsFlagged' /\ ToldInv'
  BY <1>1, <1>2 DEF WindowsInv, EventsInv, Accounted, FocusIsFlagged, ToldInv
<1> QED BY <1>3, <1>4 DEF WindowsInv

LEMMA RegisterEventsKeeps == ASSUME WindowsInv, NEW n \in 1..UserTypes, RegisterEvents(n) PROVE WindowsInv'
<1> DEFINE k == Len(ranges)
           r == [base |-> next_user_event, n |-> n]
           more == Append(ranges, r)
<1>1. /\ next_user_event \in Nat /\ ranges \in Seq([base : Nat, n : Nat])
      /\ \A i \in DOMAIN ranges : ranges[i].base + ranges[i].n <= next_user_event
      /\ \A i, j \in DOMAIN ranges : i < j => ranges[i].base + ranges[i].n <= ranges[j].base
      /\ n \in Nat /\ UserTypes \in Nat
  BY WindowsAssumption DEF WindowsInv, RangesInv
<1>2. /\ next_user_event' = next_user_event + n /\ ranges' = more
      /\ UNCHANGED <<sessionVars, made, next_window_id, windows, win, focusVars, eventVars>>
  BY DEF RegisterEvents
<1>3. r \in [base : Nat, n : Nat] /\ r.base = next_user_event /\ r.n = n
  BY <1>1
<1>4. k \in Nat /\ DOMAIN ranges = 1..k
  BY <1>1, LenProperties
<1> HIDE DEF r
<1>5. /\ more \in Seq([base : Nat, n : Nat]) /\ Len(more) = k + 1
      /\ \A i \in 1..k : more[i] = ranges[i]
      /\ more[k + 1] = r
  BY <1>1, <1>3, AppendProperties
<1> HIDE DEF more, k
<1>6. DOMAIN more = 1..k + 1
  BY <1>5, LenProperties
<1>7. \A i \in 1..k + 1 : i = k + 1 \/ i \in 1..k
  BY <1>4
<1>8. \A i \in 1..k : ranges[i].base \in Nat /\ ranges[i].n \in Nat
  <2>1. \A i \in 1..k : ranges[i] \in [base : Nat, n : Nat]
    BY <1>1, <1>4, ElementOfSeq DEF k
  <2> QED BY <2>1
<1>9. ASSUME NEW i \in 1..k + 1 PROVE more[i].base + more[i].n <= next_user_event + n
  <2>1. CASE i = k + 1
    BY <1>1, <1>3, <1>5, <2>1
  <2>2. CASE i \in 1..k
    <3>1. more[i] = ranges[i] /\ ranges[i].base + ranges[i].n <= next_user_event
      BY <1>1, <1>4, <1>5, <2>2
    <3>2. ranges[i].base \in Nat /\ ranges[i].n \in Nat
      BY <1>8, <2>2
    <3> QED BY <1>1, <3>1, <3>2
  <2> QED BY <1>7, <2>1, <2>2
<1>10. ASSUME NEW i \in 1..k + 1, NEW j \in 1..k + 1, i < j PROVE more[i].base + more[i].n <= more[j].base
  <2>1. i \in 1..k
    BY <1>4, <1>10
  <2>2. CASE j = k + 1
    BY <1>1, <1>3, <1>4, <1>5, <2>1, <2>2
  <2>3. CASE j \in 1..k
    BY <1>1, <1>4, <1>5, <1>10, <2>1, <2>3
  <2> QED BY <1>7, <2>2, <2>3
<1>11. RangesInv'
  BY <1>1, <1>2, <1>5, <1>6, <1>9, <1>10 DEF RangesInv
<1>12. IdsInv' /\ next_window_id' \in Nat /\ (Live # {} => video') /\ (~init_done' => next_window_id' = 0)
  BY <1>2 DEF WindowsInv, IdsInv, ListInv, sessionVars, video
<1> QED BY <1>2, <1>11, <1>12, WindowsStay DEF sessionVars

LEMMA InitKeeps == ASSUME WindowsInv, NEW flags, NEW found, InitSubSystem(flags, found) PROVE WindowsInv'
<1>1. /\ next_window_id' = IF init_done THEN next_window_id ELSE 0
      /\ next_user_event' = IF init_done THEN next_user_event ELSE 0
      /\ ranges' = IF init_done THEN ranges ELSE <<>>
      /\ init_done' = TRUE /\ init_flags \subseteq init_flags'
      /\ UNCHANGED <<quits, made, windows, win, focusVars, eventVars>>
  BY DEF InitSubSystem, InitLibrary
<1>2. next_window_id' = next_window_id
  BY <1>1 DEF WindowsInv, ListInv
<1>3. RangesInv'
  BY <1>1, EmptySeq DEF WindowsInv, RangesInv
<1>4. IdsInv'
  BY <1>1, <1>2 DEF WindowsInv, IdsInv
<1>5. next_window_id' \in Nat /\ (Live # {} => video') /\ (~init_done' => next_window_id' = 0)
  BY <1>1, <1>2 DEF WindowsInv, ListInv, video
<1> QED BY <1>1, <1>3, <1>4, <1>5, WindowsStay

LEMMA ViewsShown ==
  ASSUME NEW v \in View, NEW b \in BOOLEAN
  PROVE  /\ [v EXCEPT !.fullscreen = b] \in View /\ [v EXCEPT !.shown = b] \in View
         /\ [v EXCEPT !.fullscreen = b].shown = v.shown
         /\ v.shown = b => [v EXCEPT !.shown = b] = v
<1>1. [v EXCEPT !.fullscreen = b] \in View
  BY DEF View
<1>2. [v EXCEPT !.shown = b] \in View
  BY DEF View
<1>3. [v EXCEPT !.fullscreen = b].shown = v.shown
  BY DEF View
<1>4. v.shown = b => [v EXCEPT !.shown = b] = v
  BY DEF View
<1> QED BY <1>1, <1>2, <1>3, <1>4

LEMMA CreateKeeps ==
  ASSUME WindowsInv, NEW w \in Extents, NEW hidden \in BOOLEAN, NEW fullscreen \in BOOLEAN,
         CreateWindow(w, hidden, fullscreen)
  PROVE  WindowsInv'
<1> DEFINE o == made + 1
           shown == [NewView(w) EXCEPT !.fullscreen = fullscreen]
           view == [shown EXCEPT !.shown = ~hidden]
           r == [id |-> NextId, view |-> view, focused |-> ~hidden, session |-> quits]
           e == [type |-> "SHOWN", id |-> NextId, data |-> 0, of |-> o, session |-> quits]
<1>1. /\ ListInv /\ IdsInv /\ EventsInv /\ RangesInv /\ FocusIsFlagged /\ ToldInv
      /\ made \in Nat /\ MaxWindows \in Nat /\ next_window_id \in Nat /\ quits \in Nat
      /\ win \in [Objects -> WindowRecord] /\ told \in [Objects -> View]
      /\ QueueSize \in Nat /\ Len(queue) \in Nat
  BY WindowsAssumption, LenProperties DEF WindowsInv, ListInv, ToldInv, EventsInv
<1>2. /\ init_done /\ video /\ made < MaxWindows
      /\ made' = o /\ next_window_id' = NextId /\ windows' = <<o>> \o windows
      /\ win' = [win EXCEPT ![o] = r] /\ told' = [told EXCEPT ![o] = shown]
      /\ init_done' = init_done /\ init_flags' = init_flags /\ quits' = quits
      /\ next_user_event' = next_user_event /\ ranges' = ranges
  BY DEF CreateWindow, sessionVars
<1>3. \/ hidden = TRUE /\ UNCHANGED <<focusVars, queue, refused>>
      \/ /\ hidden = FALSE /\ Focus(o) /\ queue' = Queued(<<e>>)
         /\ refused' = IF Len(queue) = QueueSize THEN refused \cup {o} ELSE refused
  BY DEF CreateWindow
<1>4. /\ o \in Objects /\ o \in Nat /\ o \in 1..o /\ 1..made \subseteq Objects /\ o \notin 1..made
      /\ 1..o = 1..made \cup {o}
  BY <1>1, <1>2 DEF Objects
<1>5. \A p \in Live : p \in 1..made /\ p # o /\ p \in Objects
  BY <1>1, <1>4, LiveObjects
<1>6. /\ windows' \in Seq(Objects) /\ Live' = Live \cup {o}
      /\ \A i, j \in DOMAIN windows' : windows'[i] = windows'[j] => i = j
  BY <1>1, <1>2, <1>4, <1>5, Listed
<1>7. NextId \in Nat /\ NextId = next_window_id + 1 /\ NextId >= 1
  BY <1>1 DEF NextId
<1>8. shown \in View /\ view \in View
  <2>1. NewView(w) \in View
    BY NewViewIsView
  <2>3. (~hidden) \in BOOLEAN
    OBVIOUS
  <2>2. shown \in View
    BY <2>1, ViewsShown
  <2> HIDE DEF shown
  <2> QED BY <2>2, <2>3, ViewsShown
<1>9. r \in WindowRecord /\ r.id = NextId /\ r.view = view /\ r.focused = ~hidden /\ r.session = quits
  BY <1>1, <1>7, <1>8 DEF WindowRecord
<1>10. e \in EventRecord /\ e.of = o /\ e.id = NextId /\ e.session = quits
  BY <1>1, <1>4, <1>7, WindowsAssumption DEF EventRecord, EventTypes
<1>v. hidden = TRUE => view = shown
  <2>1. NewView(w).shown = FALSE
    BY DEF NewView
  <2>2. shown.shown = FALSE
    BY <2>1, NewViewIsView, ViewsShown
  <2>3. hidden = TRUE => view = [shown EXCEPT !.shown = FALSE]
    OBVIOUS
  <2>4. FALSE \in BOOLEAN
    OBVIOUS
  <2> HIDE DEF shown, view
  <2> QED BY <1>8, <2>2, <2>3, <2>4, ViewsShown
<1>w. hidden = FALSE => After(shown, e) = view
  BY DEF After
<1> HIDE DEF r, e, view, shown, o
<1>11. /\ win' \in [Objects -> WindowRecord] /\ win'[o] = r
       /\ \A p \in Objects : p # o => win'[p] = win[p]
       /\ told' \in [Objects -> View] /\ told'[o] = shown
       /\ \A p \in Objects : p # o => told'[p] = told[p]
  BY <1>1, <1>2, <1>4, <1>8, <1>9
<1>12. ListInv'
  <2>1. \A p \in Live : p <= made' /\ win'[p].session = quits'
    <3>1. \A p \in Live : p <= made /\ win[p].session = quits
      BY <1>1 DEF ListInv
    <3>2. \A p \in Live : p <= o
      BY <1>1, <1>4, <1>5 DEF o
    <3> QED BY <1>2, <1>5, <1>11, <3>1, <3>2
  <2>2. o <= made' /\ win'[o].session = quits'
    BY <1>2, <1>4, <1>9, <1>11
  <2>3. made' \in 0..MaxWindows
    BY <1>1, <1>2 DEF o
  <2>4. video'
    BY <1>2 DEF video
  <2> QED BY <1>1, <1>2, <1>6, <1>7, <1>11, <2>1, <2>2, <2>3, <2>4 DEF ListInv
<1>13. IdsInv'
  <2>1. \A p \in 1..made : win'[p] = win[p] /\ win[p].id \in Nat /\ win[p].session \in Nat
    BY <1>1, <1>4, <1>11 DEF WindowRecord
  <2>2. ASSUME NEW p \in 1..o
        PROVE  /\ win'[p].session <= quits /\ win'[p].id >= 1
               /\ win'[p].session = quits => win'[p].id <= NextId
    <3>1. CASE p = o
      BY <1>1, <1>7, <1>9, <1>11, <3>1
    <3>2. CASE p \in 1..made
      <4>1. /\ win[p].session <= quits /\ win[p].id >= 1
            /\ win[p].session = quits => win[p].id <= next_window_id
        BY <1>1, <3>2 DEF IdsInv
      <4> QED BY <1>1, <1>7, <2>1, <3>2, <4>1
    <3> QED BY <1>4, <3>1, <3>2
  <2>3. ASSUME NEW p \in 1..o, NEW q \in 1..o, p < q, win'[p].session = win'[q].session
        PROVE  win'[p].id < win'[q].id
    <3>1. p \in 1..made
      BY <1>1, <2>3 DEF o
    <3>2. CASE q = o
      <4>1. win[p].session = quits
        BY <1>9, <1>11, <2>1, <2>3, <3>1, <3>2
      <4>2. win[p].id <= next_window_id
        BY <1>1, <3>1, <4>1 DEF IdsInv
      <4> QED BY <1>1, <1>7, <1>9, <1>11, <2>1, <3>1, <3>2, <4>2
    <3>3. CASE q \in 1..made
      BY <1>1, <2>1, <2>3, <3>1, <3>3 DEF IdsInv
    <3> QED BY <1>4, <3>2, <3>3
  <2> QED BY <1>2, <2>2, <2>3 DEF IdsInv
<1>14. RangesInv'
  BY <1>1, <1>2 DEF RangesInv
<1>15. FocusIsFlagged'
  <2>1. CASE hidden = TRUE /\ UNCHANGED <<focusVars, queue, refused>>
    BY <1>1, <1>5, <1>6, <1>11, <2>1 DEF FocusIsFlagged, focusVars
  <2>2. CASE hidden = FALSE /\ Focus(o)
    BY <1>6, <1>9, <1>11, <2>2 DEF FocusIsFlagged, Focus
  <2> QED BY <1>3, <2>1, <2>2
<1>16. /\ queue \in Seq(EventRecord) /\ Len(queue) <= QueueSize
       /\ \A i \in DOMAIN queue : Accounted(queue[i]) /\ queue[i].of # o
  BY <1>1, <1>4 DEF EventsInv, Accounted
<1>17. queue' \in {queue, Append(queue, e)} /\ (hidden = TRUE => queue' = queue)
  BY <1>3, <1>10, <1>16, QueuedOne
<1>18. EventsInv'
  <2> DEFINE more == Append(queue, e)
  <2>1. /\ more \in Seq(EventRecord) /\ Len(more) = Len(queue) + 1
        /\ \A i \in 1..Len(queue) : more[i] = queue[i]
        /\ more[Len(queue) + 1] = e
    BY <1>10, <1>16, AppendProperties
  <2> HIDE DEF more
  <2>2. DOMAIN more = 1..Len(queue) + 1 /\ DOMAIN queue = 1..Len(queue)
    BY <1>16, <2>1, LenProperties
  <2> DEFINE ok(d) == d.of \in 1..o /\ d.id = win'[d.of].id /\ d.session = win'[d.of].session
  <2>3. ok(e)
    BY <1>4, <1>9, <1>10, <1>11
  <2>4. \A i \in 1..Len(queue) : ok(queue[i])
    BY <1>4, <1>11, <1>16, <2>2 DEF Accounted
  <2> HIDE DEF ok
  <2>5. \A i \in 1..Len(queue) + 1 : i = Len(queue) + 1 \/ i \in 1..Len(queue)
    BY <1>1
  <2>6. \A i \in DOMAIN queue' : ok(queue'[i])
    BY <1>17, <2>1, <2>2, <2>3, <2>4, <2>5 DEF more
  <2>7. queue' \in Seq(EventRecord) /\ Len(queue') <= QueueSize
    <3>1. \/ queue' = queue
          \/ Len(queue) < QueueSize /\ queue' = more
      <4>1. CASE Len(queue) = QueueSize
        <5>1. hidden = FALSE => queue' = Queued(<<e>>)
          BY <1>3
        <5>2. <<e>> \in Seq(EventRecord)
          BY <1>10
        <5>3. Len(Queued(<<e>>)) <= QueueSize
          BY <1>16, <5>2, QueuedProperties
        <5>4. queue' = more => hidden = FALSE
          BY <1>1, <1>3, <1>17, <2>1
        <5> QED BY <1>1, <1>17, <2>1, <4>1, <5>1, <5>3, <5>4 DEF more
      <4>2. CASE Len(queue) # QueueSize
        BY <1>1, <1>16, <1>17, <4>2 DEF more
      <4> QED BY <4>1, <4>2
    <3> QED BY <1>1, <1>16, <2>1, <3>1
  <2> QED BY <1>2, <2>6, <2>7 DEF EventsInv, Accounted, ok
<1>19. ToldInv'
  <2>1. ASSUME NEW p \in Live, p \notin refused' PROVE Tells(told'[p], queue', p, win'[p].view)
    <3>1. p \notin refused
      BY <1>3, <2>1
    <3>2. p # o /\ p \in Objects /\ Tells(told[p], queue, p, win[p].view)
      BY <1>1, <1>5, <3>1 DEF ToldInv
    <3>3. Tells(told[p], Append(queue, e), p, IF e.of = p THEN After(win[p].view, e) ELSE win[p].view)
      BY <1>10, <1>16, <3>2, TellsOn
    <3> QED BY <1>10, <1>11, <1>17, <3>2, <3>3
  <2>2. ASSUME o \notin refused' PROVE Tells(shown, queue', o, view)
    <3>1. Tells(shown, queue, o, shown)
      BY <1>8, <1>16, TellsNothing
    <3>2. CASE hidden = TRUE
      BY <1>17, <1>v, <3>1, <3>2
    <3>3. CASE hidden = FALSE
      <4>1. Len(queue) # QueueSize
        BY <1>3, <2>2, <3>3
      <4>2. queue' = Append(queue, e)
        <5>1. Len(queue) < QueueSize
          BY <1>1, <1>16, <4>1
        <5>2. queue' = Queued(<<e>>)
          BY <1>3, <3>3
        <5> QED BY <1>10, <1>16, <5>1, <5>2, QueuedOne
      <4>3. Tells(shown, Append(queue, e), o, IF e.of = o THEN After(shown, e) ELSE shown)
        BY <1>10, <1>16, <3>1, TellsOn
      <4> QED BY <1>10, <1>w, <3>3, <4>2, <4>3
    <3> QED BY <3>2, <3>3
  <2>3. \A p \in Live' \ refused' : Tells(told'[p], queue', p, win'[p].view)
    BY <1>6, <1>9, <1>11, <2>1, <2>2
  <2> QED BY <1>11, <2>3 DEF ToldInv
<1> QED BY <1>12, <1>13, <1>14, <1>15, <1>18, <1>19 DEF WindowsInv

\* Some windows go, in this session or at its end.
LEMMA SettledKeeps ==
  ASSUME WindowsInv,
         windows' \in Seq(Objects), \A i, j \in DOMAIN windows' : windows'[i] = windows'[j] => i = j,
         Live' \subseteq Live,
         win' \in [Objects -> WindowRecord], told' \in [Objects -> View], made' = made,
         \A p \in Objects : win'[p].id = win[p].id /\ win'[p].session = win[p].session,
         \A p \in Live' : win'[p] = win[p] /\ told'[p] = told[p] /\ (p \in refused => p \in refused'),
         FocusIsFlagged', RangesInv',
         queue' \in Seq(EventRecord), Len(queue') <= QueueSize, \A i \in DOMAIN queue' : Accounted(queue'[i]),
         \A p \in Live' : \A knew, to : Tells(knew, queue, p, to) => Tells(knew, queue', p, to),
         Live' # {} => video' /\ quits' = quits,
         \/ quits' = quits /\ next_window_id' = next_window_id
         \/ quits' = quits + 1 /\ next_window_id' = 0,
         ~init_done' => next_window_id' = 0
  PROVE  WindowsInv'
<1>1. /\ ListInv /\ IdsInv /\ ToldInv /\ 1..made \subseteq Objects /\ made \in Nat /\ quits \in Nat
      /\ next_window_id \in Nat /\ made \in 0..MaxWindows /\ win \in [Objects -> WindowRecord]
  BY WindowsAssumption DEF WindowsInv, ListInv, Objects
<1>2. quits' \in Nat /\ next_window_id' \in Nat
  BY <1>1
<1>3. ListInv'
  <2>1. \A p \in Live' : p <= made' /\ win'[p].session = quits'
    BY <1>1 DEF ListInv
  <2> QED BY <1>1, <1>2, <2>1 DEF ListInv
<1>4. IdsInv'
  <2>1. ASSUME NEW p \in 1..made
        PROVE  /\ win'[p].session <= quits' /\ win'[p].id >= 1
               /\ win'[p].session = quits' => win'[p].id <= next_window_id'
    <3>1. /\ win[p].session <= quits /\ win[p].id >= 1 /\ (win[p].session = quits => win[p].id <= next_window_id)
          /\ win'[p].id = win[p].id /\ win'[p].session = win[p].session
      BY <1>1 DEF IdsInv
    <3>2. win[p].session \in Nat
      BY <1>1 DEF WindowRecord
    <3>3. quits' # quits => quits' = quits + 1
      OBVIOUS
    <3>4. quits' = quits => next_window_id' = next_window_id
      BY <1>1
    <3>5. CASE quits' = quits
      BY <3>1, <3>4, <3>5
    <3>6. CASE quits' # quits
      BY <1>1, <3>1, <3>2, <3>3, <3>6
    <3> QED BY <3>5, <3>6
  <2>2. \A p, q \in 1..made : p < q /\ win'[p].session = win'[q].session => win'[p].id < win'[q].id
    BY <1>1 DEF IdsInv
  <2> QED BY <2>1, <2>2 DEF IdsInv
<1>5. EventsInv'
  <2>1. \A i \in DOMAIN queue' : /\ queue'[i].of \in 1..made' /\ queue'[i].id = win'[queue'[i].of].id
                                 /\ queue'[i].session = win'[queue'[i].of].session
    BY <1>1 DEF Accounted
  <2> QED BY <2>1 DEF EventsInv, Accounted
<1>6. ToldInv'
  <2>1. ASSUME NEW p \in Live', p \notin refused' PROVE Tells(told'[p], queue', p, win'[p].view)
    <3>1. Tells(told[p], queue, p, win[p].view)
      BY <1>1, <2>1 DEF ToldInv
    <3> QED BY <3>1
  <2> QED BY <2>1 DEF ToldInv
<1> QED BY <1>3, <1>4, <1>5, <1>6 DEF WindowsInv

LEMMA FreeKeeps ==
  ASSUME WindowsInv, NEW gone \in SUBSET Live, Free(gone), Live' = Live \ gone,
         keyboard_focus' = IF keyboard_focus \in gone THEN NoOne ELSE keyboard_focus,
         mouse_focus' = IF mouse_focus \in gone THEN NoOne ELSE mouse_focus
  PROVE  /\ win' \in [Objects -> WindowRecord] /\ told' \in [Objects -> View]
         /\ \A p \in Objects : win'[p].id = win[p].id /\ win'[p].session = win[p].session
         /\ \A p \in Live' : win'[p] = win[p] /\ told'[p] = told[p] /\ (p \in refused => p \in refused')
         /\ FocusIsFlagged'
<1>1. /\ win \in [Objects -> WindowRecord] /\ told \in [Objects -> View]
      /\ \A p \in Live : p \in Objects
  BY LiveObjects DEF WindowsInv, ListInv, ToldInv
<1> DEFINE freed(p) == [NoWin EXCEPT !.id = win[p].id, !.session = win[p].session]
<1>2. ASSUME NEW p \in Objects
      PROVE  /\ freed(p) \in WindowRecord
             /\ freed(p).id = win[p].id /\ freed(p).session = win[p].session
  <2>1. win[p] \in WindowRecord /\ win[p].id \in Nat /\ win[p].session \in Nat
    BY <1>1 DEF WindowRecord
  <2>2. NoWin \in WindowRecord
    BY NewViewIsView, WindowsAssumption DEF NoWin, WindowRecord
  <2> QED BY <2>1, <2>2 DEF WindowRecord
<1> HIDE DEF freed
<1>3. /\ win' = [p \in Objects |-> IF p \in gone THEN freed(p) ELSE win[p]]
      /\ told' = [p \in Objects |-> IF p \in gone THEN NewView(0) ELSE told[p]]
      /\ refused' = refused \ gone
  BY DEF Free, freed
<1>4. win' \in [Objects -> WindowRecord]
  BY <1>1, <1>2, <1>3
<1>5. \A p \in Objects : win'[p].id = win[p].id /\ win'[p].session = win[p].session
  BY <1>2, <1>3
<1>6. told' \in [Objects -> View]
  BY <1>1, <1>3, NewViewIsView, WindowsAssumption
<1>7. \A p \in Live' : win'[p] = win[p] /\ told'[p] = told[p] /\ (p \in refused => p \in refused')
  BY <1>1, <1>3
<1>8. keyboard_focus' # NoOne => keyboard_focus' = keyboard_focus /\ keyboard_focus' \notin gone
  OBVIOUS
<1>9. mouse_focus' # NoOne => mouse_focus' = mouse_focus /\ mouse_focus' \notin gone
  OBVIOUS
<1>10. FocusIsFlagged'
  BY <1>7, <1>8, <1>9 DEF FocusIsFlagged, WindowsInv
<1> QED BY <1>4, <1>5, <1>6, <1>7, <1>10

LEMMA DestroyKeeps == ASSUME WindowsInv, NEW o \in Objects, DestroyWindow(o) PROVE WindowsInv'
<1>1. PICK i \in DOMAIN windows : windows[i] = o /\ RemoveWindow({o}, RemoveAt(windows, i))
  BY DEF DestroyWindow
<1>2. /\ windows' = RemoveAt(windows, i)
      /\ keyboard_focus' = IF keyboard_focus \in {o} THEN NoOne ELSE keyboard_focus
      /\ mouse_focus' = IF mouse_focus \in {o} THEN NoOne ELSE mouse_focus
  BY <1>1 DEF RemoveWindow
<1>3. o \in Live
  BY <1>1 DEF Live, ToSet
<1>4. /\ windows' \in Seq(Objects) /\ Live' = Live \ {o}
      /\ \A j, k \in DOMAIN windows' : windows'[j] = windows'[k] => j = k
  BY <1>1, <1>2, Unlisted DEF WindowsInv
<1>5. /\ queue' = Queued(<<Event("DESTROYED", o, 0)>>) /\ Free({o})
      /\ quits' = quits /\ init_done' = init_done /\ init_flags' = init_flags /\ made' = made
      /\ next_window_id' = next_window_id /\ next_user_event' = next_user_event /\ ranges' = ranges
  BY DEF DestroyWindow, sessionVars, idVars
<1>6. /\ win' \in [Objects -> WindowRecord] /\ told' \in [Objects -> View]
      /\ \A p \in Objects : win'[p].id = win[p].id /\ win'[p].session = win[p].session
      /\ \A p \in Live' : win'[p] = win[p] /\ told'[p] = told[p] /\ (p \in refused => p \in refused')
      /\ FocusIsFlagged'
  BY <1>2, <1>3, <1>4, <1>5, FreeKeeps
<1> DEFINE e == Event("DESTROYED", o, 0)
<1>7. e \in EventRecord /\ Accounted(e) /\ e.of = o
  <2>1. "DESTROYED" \in EventTypes /\ 0 \in Extents
    BY WindowsAssumption DEF EventTypes
  <2> QED BY <1>3, <2>1, EventOK DEF WindowsInv
<1> HIDE DEF e
<1>8. /\ queue \in Seq(EventRecord) /\ Len(queue) <= QueueSize
      /\ \A k \in DOMAIN queue : Accounted(queue[k])
  BY DEF WindowsInv, EventsInv
<1>9. queue' = Queued(<<e>>) /\ queue' \in {queue, Append(queue, e)}
  BY <1>5, <1>7, <1>8, QueuedOne DEF e
<1>10. /\ queue' \in Seq(EventRecord) /\ Len(queue') <= QueueSize
       /\ \A k \in DOMAIN queue' : Accounted(queue'[k])
  <2> DEFINE one == <<e>>
  <2>1. one \in Seq(EventRecord) /\ DOMAIN one = {1} /\ one[1] = e
    BY <1>7
  <2>2. queue' = Queued(one)
    BY <1>9
  <2> HIDE DEF one
  <2>3. /\ Queued(one) \in Seq(EventRecord) /\ Len(Queued(one)) <= QueueSize
        /\ \A k \in DOMAIN Queued(one) :
             \/ \E j \in DOMAIN queue : Queued(one)[k] = queue[j]
             \/ \E j \in DOMAIN one : Queued(one)[k] = one[j]
    BY <1>8, <2>1, QueuedProperties
  <2>4. \A k \in DOMAIN queue' : \/ \E j \in DOMAIN queue : queue'[k] = queue[j]
                                 \/ queue'[k] = e
    BY <2>1, <2>2, <2>3
  <2> QED BY <1>7, <1>8, <2>2, <2>3, <2>4
<1>11. ASSUME NEW p \in Live', NEW knew, NEW to, Tells(knew, queue, p, to)
       PROVE  Tells(knew, queue', p, to)
  <2>1. Tells(knew, Append(queue, e), p, IF e.of = p THEN After(to, e) ELSE to)
    BY <1>7, <1>8, <1>11, TellsOn
  <2>2. e.of # p
    BY <1>4, <1>7
  <2> QED BY <1>9, <1>11, <2>1, <2>2
<1>12. RangesInv'
  BY <1>5 DEF WindowsInv, RangesInv
<1>13. /\ Live' # {} => video' /\ quits' = quits
       /\ ~init_done' => next_window_id' = 0
  BY <1>4, <1>5 DEF WindowsInv, ListInv, video
<1> QED BY <1>4, <1>5, <1>6, <1>10, <1>11, <1>12, <1>13, SettledKeeps

\* SDLOP_VideoQuit leaves none.
LEMMA VideoQuitClears ==
  ASSUME WindowsInv, VideoQuit
  PROVE  /\ windows' = <<>> /\ Live' = {}
         /\ win' \in [Objects -> WindowRecord] /\ told' \in [Objects -> View]
         /\ \A p \in Objects : win'[p].id = win[p].id /\ win'[p].session = win[p].session
         /\ FocusIsFlagged'
         /\ queue' \in Seq(EventRecord) /\ Len(queue') <= QueueSize
         /\ \A i \in DOMAIN queue' : Accounted(queue'[i])
<1> DEFINE events == [i \in 1..Len(windows) |-> Event("DESTROYED", windows[i], 0)]
<1>1. /\ queue' = Queued(events) /\ windows' = <<>> /\ Free(Live)
      /\ keyboard_focus' = IF keyboard_focus \in Live THEN NoOne ELSE keyboard_focus
      /\ mouse_focus' = IF mouse_focus \in Live THEN NoOne ELSE mouse_focus
  BY DEF VideoQuit, RemoveWindow
<1>2. Live' = {}
  BY <1>1 DEF Live, ToSet
<1>3. /\ win' \in [Objects -> WindowRecord] /\ told' \in [Objects -> View]
      /\ \A p \in Objects : win'[p].id = win[p].id /\ win'[p].session = win[p].session
      /\ FocusIsFlagged'
  <2>1. Live' = Live \ Live /\ Live \in SUBSET Live
    BY <1>2
  <2> QED BY <1>1, <2>1, FreeKeeps
<1>4. windows \in Seq(Objects) /\ Len(windows) \in Nat /\ DOMAIN windows = 1..Len(windows)
  BY LenProperties DEF WindowsInv, ListInv
<1>5. "DESTROYED" \in EventTypes /\ 0 \in Extents
  BY WindowsAssumption DEF EventTypes
<1>6. \A i \in 1..Len(windows) : windows[i] \in Live
  BY <1>4 DEF Live, ToSet
<1>7. \A i \in 1..Len(windows) : /\ Event("DESTROYED", windows[i], 0) \in EventRecord
                                 /\ Accounted(Event("DESTROYED", windows[i], 0))
  BY <1>5, <1>6, EventOK DEF WindowsInv
<1>8. events \in Seq(EventRecord) /\ DOMAIN events = 1..Len(windows)
  BY <1>4, <1>7, IsASeq
<1>9. \A i \in DOMAIN events : Accounted(events[i])
  BY <1>7, <1>8
<1>10. /\ queue \in Seq(EventRecord) /\ Len(queue) <= QueueSize
       /\ \A k \in DOMAIN queue : Accounted(queue[k])
  BY DEF WindowsInv, EventsInv
<1> HIDE DEF events
<1>11. /\ Queued(events) \in Seq(EventRecord) /\ Len(Queued(events)) <= QueueSize
       /\ \A i \in DOMAIN Queued(events) :
            \/ \E j \in DOMAIN queue : Queued(events)[i] = queue[j]
            \/ \E j \in DOMAIN events : Queued(events)[i] = events[j]
  BY <1>8, <1>10, QueuedProperties
<1>12. \A i \in DOMAIN queue' : Accounted(queue'[i])
  <2>1. \A i \in DOMAIN queue' : \/ \E j \in DOMAIN queue : queue'[i] = queue[j]
                                 \/ \E j \in DOMAIN events : queue'[i] = events[j]
    BY <1>1, <1>11
  <2> QED BY <1>9, <1>10, <2>1
<1> QED BY <1>1, <1>2, <1>3, <1>11, <1>12

LEMMA QuitSubSystemKeeps == ASSUME WindowsInv, NEW flags, QuitSubSystem(flags) PROVE WindowsInv'
<1>1. /\ init_flags' = init_flags \ flags /\ init_done' = init_done /\ quits' = quits /\ made' = made
      /\ next_window_id' = next_window_id /\ next_user_event' = next_user_event /\ ranges' = ranges
  BY DEF QuitSubSystem, idVars
<1>2. /\ IdsInv /\ RangesInv /\ ListInv /\ quits \in Nat /\ next_window_id \in Nat
      /\ ~init_done => next_window_id = 0
  BY DEF WindowsInv, ListInv
<1>3. RangesInv'
  BY <1>1, <1>2 DEF RangesInv
<1>4. CASE "video" \in flags /\ video
  <2>1. VideoQuit
    BY <1>4 DEF QuitSubSystem
  <2>2. /\ windows' = <<>> /\ Live' = {}
        /\ win' \in [Objects -> WindowRecord] /\ told' \in [Objects -> View]
        /\ \A p \in Objects : win'[p].id = win[p].id /\ win'[p].session = win[p].session
        /\ FocusIsFlagged'
        /\ queue' \in Seq(EventRecord) /\ Len(queue') <= QueueSize
        /\ \A i \in DOMAIN queue' : Accounted(queue'[i])
    BY <2>1, VideoQuitClears
  <2>3. windows' \in Seq(Objects) /\ DOMAIN windows' = {}
    BY <2>2, EmptySeq
  <2> QED BY <1>1, <1>2, <1>3, <2>2, <2>3, SettledKeeps
<1>5. CASE ~("video" \in flags /\ video)
  <2>1. UNCHANGED <<windows, win, focusVars, eventVars>>
    BY <1>5 DEF QuitSubSystem
  <2>2. IdsInv'
    BY <1>1, <1>2, <2>1 DEF IdsInv
  <2>3. Live # {} => video'
    BY <1>1, <1>2, <1>5 DEF ListInv, video
  <2> QED BY <1>1, <1>2, <1>3, <2>1, <2>2, <2>3, WindowsStay
<1> QED BY <1>4, <1>5

LEMMA QuitKeeps == ASSUME WindowsInv, Quit PROVE WindowsInv'
<1>1. /\ init_done' = FALSE /\ quits' = quits + 1 /\ made' = made
      /\ next_window_id' = 0 /\ next_user_event' = 0 /\ ranges' = <<>>
  BY DEF Quit
<1>2. RangesInv'
  BY <1>1, EmptySeq DEF RangesInv
<1>3. /\ Live' = {} /\ windows' \in Seq(Objects)
      /\ \A i, j \in DOMAIN windows' : windows'[i] = windows'[j] => i = j
      /\ win' \in [Objects -> WindowRecord] /\ told' \in [Objects -> View]
      /\ \A p \in Objects : win'[p].id = win[p].id /\ win'[p].session = win[p].session
      /\ FocusIsFlagged'
      /\ queue' \in Seq(EventRecord) /\ Len(queue') <= QueueSize
      /\ \A i \in DOMAIN queue' : Accounted(queue'[i])
  <2>1. CASE video
    <3>1. VideoQuit
      BY <2>1 DEF Quit
    <3>2. /\ windows' = <<>> /\ Live' = {}
          /\ win' \in [Objects -> WindowRecord] /\ told' \in [Objects -> View]
          /\ \A p \in Objects : win'[p].id = win[p].id /\ win'[p].session = win[p].session
          /\ FocusIsFlagged'
          /\ queue' \in Seq(EventRecord) /\ Len(queue') <= QueueSize
          /\ \A i \in DOMAIN queue' : Accounted(queue'[i])
      BY <3>1, VideoQuitClears
    <3>3. windows' \in Seq(Objects) /\ DOMAIN windows' = {}
      BY <3>2, EmptySeq
    <3> QED BY <3>2, <3>3
  <2>2. CASE ~video
    <3>1. /\ windows' = windows /\ win' = win /\ told' = told /\ queue' = queue
          /\ keyboard_focus' = keyboard_focus /\ mouse_focus' = mouse_focus
      BY <2>2 DEF Quit, focusVars, eventVars
    <3>2. Live = {} /\ Live' = {}
      BY <2>2, <3>1 DEF WindowsInv, ListInv, Live
    <3>3. FocusIsFlagged'
      BY <3>1, <3>2 DEF WindowsInv, FocusIsFlagged
    <3>4. /\ windows \in Seq(Objects) /\ win \in [Objects -> WindowRecord] /\ told \in [Objects -> View]
          /\ \A i, j \in DOMAIN windows : windows[i] = windows[j] => i = j
          /\ queue \in Seq(EventRecord) /\ Len(queue) <= QueueSize
          /\ \A i \in DOMAIN queue : Accounted(queue[i])
      BY DEF WindowsInv, ListInv, ToldInv, EventsInv
    <3> QED BY <3>1, <3>2, <3>3, <3>4
  <2> QED BY <2>1, <2>2
<1> QED BY <1>1, <1>2, <1>3, SettledKeeps

LEMMA WindowsInvStep == WindowsInv /\ [WindowsNext]_windowsVars => WindowsInv'
<1> SUFFICES ASSUME WindowsInv, [WindowsNext]_windowsVars PROVE WindowsInv'
  OBVIOUS
<1>1. ASSUME NEW w \in Extents, NEW hidden \in BOOLEAN, NEW fullscreen \in BOOLEAN,
             CreateWindow(w, hidden, fullscreen)
      PROVE  WindowsInv'
  BY <1>1, CreateKeeps
<1>2. CASE LifeNext
  BY <1>2, DestroyKeeps, ShowKeeps, HideKeeps, RaiseKeeps, PollKeeps DEF LifeNext
<1>3. CASE ChangeNext
  BY <1>3, SizeKeeps, PositionKeeps, MinimizeKeeps, MaximizeKeeps, RestoreKeeps, FullscreenKeeps
     DEF ChangeNext
<1>4. CASE SessionNext
  BY <1>4, InitKeeps, QuitSubSystemKeeps, QuitKeeps DEF SessionNext
<1>5. ASSUME NEW n \in 1..UserTypes, RegisterEvents(n) PROVE WindowsInv'
  BY <1>5, RegisterEventsKeeps
<1>6. CASE UNCHANGED windowsVars
  <2>1. /\ UNCHANGED <<quits, made, windows, win, focusVars, eventVars>>
        /\ next_window_id' = next_window_id /\ next_user_event' = next_user_event /\ ranges' = ranges
        /\ init_done' = init_done /\ init_flags' = init_flags
    BY <1>6 DEF windowsVars, sessionVars, idVars
  <2>2. IdsInv' /\ RangesInv'
    BY <2>1 DEF WindowsInv, IdsInv, RangesInv
  <2>3. next_window_id' \in Nat /\ (Live # {} => video') /\ (~init_done' => next_window_id' = 0)
    BY <2>1 DEF WindowsInv, ListInv, video
  <2> QED BY <2>1, <2>2, <2>3, WindowsStay
<1> QED BY <1>1, <1>2, <1>3, <1>4, <1>5, <1>6 DEF WindowsNext

(* Windows and events are always as WindowsInv has them: the windows are of   *)
(* this session, ids grow within it, an event carries the id and session of  *)
(* its window, and what is queued leads from what was told of a window to    *)
(* what it is like (SDL_CreateWindow to SDL_DestroyWindow, SDL_Init to       *)
(* SDL_Quit, SDL_PollEvent).                                                 *)
THEOREM WindowsInvariant == WindowsSpec => []WindowsInv
<1>1. WindowsInit => WindowsInv
  BY WindowsInvInit
<1>2. WindowsInv /\ [WindowsNext]_windowsVars => WindowsInv'
  BY WindowsInvStep
<1> QED BY <1>1, <1>2, PTL DEF WindowsSpec

(* An event about a window leads back to it, or to none once it is gone; the *)
(* focus is on a window that exists and whose flag says so; ids and user     *)
(* events are handed out once a session (SDL_GetWindowFromEvent,             *)
(* SDLOP_RemoveWindow, SDL_RegisterEvents).                                  *)
THEOREM WindowsAlwaysAccounted == WindowsSpec => []WindowsAccounted
<1>1. WindowsInv => WindowsAccounted
  BY InvImpliesAccounted
<1> QED BY <1>1, WindowsInvariant, PTL

(* A program that polled every event knows what its windows are like, but    *)
(* for those an event of which found the queue full or a call on which       *)
(* failed half way (the dummy driver, SDLOP_SendWindowEvent).                *)
THEOREM EventsAlwaysTellState == WindowsSpec => []EventsTellState
<1>1. WindowsInv => EventsTellState
  BY InvImpliesAccounted
<1> QED BY <1>1, WindowsInvariant, PTL

-----------------------------------------------------------------------------
(* Surfaces: places in rows. *)

\* Place r of row y, with s places to a row, is one of the s * h places.
LEMMA PlaceInside ==
  ASSUME NEW s \in Nat, NEW h \in Nat, NEW y \in 0..h-1, NEW r \in 0..s-1
  PROVE  y * s + r \in 0..s*h-1
<1>1. y * s \in Nat
  OBVIOUS
<1>2. h - 1 - y \in Nat /\ (h - 1 - y) * s \in Nat
  OBVIOUS
<1>3. (h - 1 - y) * s = s * h - s - y * s
  OBVIOUS
<1>4. y * s \in Int /\ s * h \in Int
  OBVIOUS
<1> QED BY <1>1, <1>2, <1>3, <1>4

LEMMA PlaceNat == ASSUME NEW s \in Nat, NEW y \in Nat, NEW r \in Nat PROVE y * s + r \in Nat
OBVIOUS

\* A place is of one row and one column only.
LEMMA PlaceApart ==
  ASSUME NEW s \in Nat, NEW y \in Int, NEW z \in Int, NEW r \in 0..s-1, NEW t \in 0..s-1,
         y * s + r = z * s + t
  PROVE  y = z /\ r = t
<1>1. (y - z) * s = t - r
  OBVIOUS
<1>2. ASSUME y - z >= 1 PROVE FALSE
  <2>1. y - z - 1 \in Nat /\ (y - z - 1) * s \in Nat
    BY <1>2
  <2>2. (y - z - 1) * s = (y - z) * s - s
    OBVIOUS
  <2> QED BY <1>1, <2>1, <2>2
<1>3. ASSUME z - y >= 1 PROVE FALSE
  <2>1. z - y - 1 \in Nat /\ (z - y - 1) * s \in Nat
    BY <1>3
  <2>2. (z - y - 1) * s = (z - y) * s - s
    OBVIOUS
  <2>3. (z - y) * s = r - t
    BY <1>1
  <2> QED BY <2>1, <2>2, <2>3
<1>4. y = z
  BY <1>2, <1>3
<1> QED BY <1>1, <1>4

\* Division with remainder
LEMMA Divides ==
  ASSUME NEW i \in Nat, NEW s \in Nat \ {0}
  PROVE  i \div s \in Nat /\ i % s \in 0..s-1 /\ i = s * (i \div s) + (i % s)
<1>1. i % s \in 0..s-1
  OBVIOUS
<1>2. i \div s \in Nat
  OBVIOUS
<1>3. i = s * (i \div s) + (i % s)
  OBVIOUS
<1> QED BY <1>1, <1>2, <1>3

LEMMA PlaceColumn ==
  ASSUME NEW s \in Nat, NEW y \in Nat, NEW r \in 0..s-1
  PROVE  (y * s + r) % s = r
<1> DEFINE i == y * s + r
           d == i \div s
           m == i % s
<1>1. i \in Nat /\ s \in Nat \ {0}
  BY PlaceNat
<1>2. d \in Nat /\ m \in 0..s-1 /\ i = s * d + m
  <2> HIDE DEF i
  <2> QED BY <1>1, Divides
<1> HIDE DEF d, m
<1>3. d * s + m = y * s + r
  BY <1>2
<1>4. m = r
  BY <1>2, <1>3, PlaceApart
<1> QED BY <1>4 DEF m

-----------------------------------------------------------------------------
(* Formats, rectangles and offsets. *)

LEMMA BytesOfFormats ==
  ASSUME NEW f
  PROVE  /\ BytesPerPixel(f) \in 0..4
         /\ f \in {"ARGB8888", "XRGB8888", "RGBA8888"} => BytesPerPixel(f) = 4
         /\ f \in {"RGB24", "BGR24"} => BytesPerPixel(f) = 3
         /\ f = "RGB565" => BytesPerPixel(f) = 2
BY DEF BytesPerPixel

\* For the formats that are agreed on, the bytes written are those of the layout.
LEMMA FilledAsLaidOut ==
  ASSUME NEW f \in Agreed, NEW c, NEW k \in 1..BytesPerPixel(f)
  PROVE  BytesFilled(f, MapSurfaceRGBA(f, c))[k] = Layout(f, c)[k]
<1>1. CASE f = "ARGB8888"
  BY <1>1, BytesOfFormats DEF BytesFilled, MapSurfaceRGBA, Layout, Swapped
<1>2. CASE f = "XRGB8888"
  BY <1>2, BytesOfFormats DEF BytesFilled, MapSurfaceRGBA, Layout, Swapped
<1>3. CASE f = "RGBA8888"
  BY <1>3, BytesOfFormats DEF BytesFilled, MapSurfaceRGBA, Layout, Swapped
<1>4. CASE f = "RGB24"
  <2>1. BytesPerPixel(f) = 3 /\ k \in 1..3
    BY <1>4, BytesOfFormats
  <2> QED BY <1>4, <2>1 DEF BytesFilled, MapSurfaceRGBA, Layout
<1>5. CASE f = "BGR24"
  <2>1. BytesPerPixel(f) = 3 /\ k \in 1..3
    BY <1>5, BytesOfFormats
  <2> QED BY <1>5, <2>1 DEF BytesFilled, MapSurfaceRGBA, Layout
<1>6. CASE f = "RGB565"
  <2>1. BytesPerPixel(f) = 2 /\ k \in 1..2
    BY <1>6, BytesOfFormats
  <2> QED BY <1>6, <2>1 DEF BytesFilled, MapSurfaceRGBA, Layout
<1> QED BY <1>1, <1>2, <1>3, <1>4, <1>5, <1>6 DEF Agreed

\* What is an int is kept in an int.
LEMMA WrapKeepsInts ==
  ASSUME NEW v \in Int, IsInt(v)
  PROVE  Wrap(v) = v /\ Computed(v) = {v}
<1> DEFINE s == 2 * (IntMax + 1)
           r == v + IntMax + 1
<1>1. s \in Nat /\ r \in 0..s-1
  BY SurfacesAssumption DEF IsInt
<1>2. Wrap(v) = (r % s) - (IntMax + 1)
  BY DEF Wrap
<1>3. r % s = r
  <2> HIDE DEF r, s
  <2>1. (0 * s + r) % s = r
    BY <1>1, PlaceColumn
  <2>2. 0 * s + r = r
    BY <1>1
  <2> QED BY <2>1, <2>2
<1>4. Wrap(v) = r - (IntMax + 1)
  <2> HIDE DEF r, s
  <2> QED BY <1>2, <1>3
<1>5. Wrap(v) = v
  BY <1>4, SurfacesAssumption
<1> QED BY <1>5 DEF Computed

\* The clipping of SDL_FillSurfaceRect, as it is without an overflow
Clip(from, len, size) ==
  LET x == IF from < 0 THEN 0 ELSE from
      n == IF from < 0 THEN len + from ELSE len
  IN [from |-> x, len |-> IF x + n > size THEN size - x ELSE n]
Span(clip) == clip.from .. clip.from + clip.len - 1

LEMMA ClipsExact ==
  ASSUME NEW from \in Int, NEW len \in Int, IsInt(len), IsInt(from + len),
         NEW size \in 0..IntMax, NEW clip \in Clips(from, len, size),
         NEW end \in Computed(clip.from + clip.len)
  PROVE  clip = Clip(from, len, size) /\ end = clip.from + clip.len
<1> DEFINE x == IF from < 0 THEN 0 ELSE from
           n == IF from < 0 THEN len + from ELSE len
           OfSum(sum) == [from |-> x, len |-> IF sum > size THEN size - x ELSE n]
<1>1. x \in Int /\ n \in Int /\ IsInt(n) /\ IsInt(x + n) /\ (from < 0 => len + from = n)
  BY DEF IsInt
<1>2. Computed(x + n) = {x + n} /\ (from < 0 => Computed(len + from) = {n})
  <2>1. Computed(n) = {n}
    BY <1>1, WrapKeepsInts
  <2>2. x + n \in Int
    BY <1>1
  <2> HIDE DEF x, n
  <2> QED BY <1>1, <2>1, <2>2, WrapKeepsInts
<1>3. Clips(from, len, size) = {OfSum(x + n)}
  <2>1. Clips(from, len, size) =
          UNION {{[from |-> x, len |-> IF sum > size THEN size - x ELSE k] : sum \in Computed(x + k)} :
                   k \in IF from < 0 THEN Computed(len + from) ELSE {len}}
    BY DEF Clips
  <2>2. (IF from < 0 THEN Computed(len + from) ELSE {len}) = {n}
    BY <1>2
  <2> HIDE DEF x, n
  <2>3. Clips(from, len, size) = UNION {{OfSum(sum) : sum \in Computed(x + k)} : k \in {n}}
    BY <2>1, <2>2
  <2> HIDE DEF OfSum
  <2> QED BY <1>2, <2>3
<1>4. clip = OfSum(x + n)
  <2> HIDE DEF OfSum, x, n
  <2> QED BY <1>3
<1>5. clip = Clip(from, len, size)
  BY <1>4 DEF Clip
<1>6. clip.from + clip.len \in Int /\ IsInt(clip.from + clip.len)
  <2>1. clip.from = x /\ clip.len = IF x + n > size THEN size - x ELSE n
    BY <1>4
  <2> HIDE DEF x, n
  <2> QED BY <1>1, <2>1, SurfacesAssumption DEF IsInt
<1>7. end = clip.from + clip.len
  BY <1>6, WrapKeepsInts
<1> QED BY <1>5, <1>7

\* Clipping leaves what of the rectangle is on the surface.
LEMMA SpanClipped ==
  ASSUME NEW from \in Int, NEW len \in Int, NEW size \in Nat
  PROVE  Span(Clip(from, len, size)) = (from .. from + len - 1) \cap (0 .. size - 1)
BY DEF Span, Clip

\* The bytes of one pixel are apart from those of another in its row.
LEMMA PixelInRow ==
  ASSUME NEW b \in 1..4, NEW w \in Nat, NEW x \in 0..w-1, NEW k \in 1..b
  PROVE  x * b + k - 1 \in 0..w*b-1
<1>1. b = 1 \/ b = 2 \/ b = 3 \/ b = 4
  OBVIOUS
<1> QED BY <1>1

LEMMA PixelApart ==
  ASSUME NEW b \in 1..4, NEW x \in Int, NEW z \in Int, NEW k \in 1..b, NEW l \in 1..b,
         x * b + k - 1 = z * b + l - 1
  PROVE  x = z /\ k = l
<1>1. b = 1 \/ b = 2 \/ b = 3 \/ b = 4
  OBVIOUS
<1> QED BY <1>1

\* The bytes from one row to the next, as a fill counts them.
Stride == IF bpp = 3 THEN pitch ELSE bpp * (pitch \div bpp)

\* A fill takes the rows to be long enough and no further apart than they are;
\* and just as far apart if the pitch is a multiple of the pixel.
LEMMA StrideFits ==
  ASSUME bpp \in {2, 3, 4}, NEW w \in Nat, pitch \in Nat, w * bpp <= pitch
  PROVE  /\ Stride \in Nat /\ w * bpp <= Stride /\ Stride <= pitch
         /\ bpp = 3 \/ pitch % bpp = 0 => Stride = pitch
         /\ \A x, y \in Int : OffsetFilled(x, y) = y * Stride + x * bpp
<1>1. CASE bpp = 2
  <2> DEFINE q == pitch \div 2
  <2>1. q \in Nat /\ pitch % 2 \in 0..1 /\ pitch = 2 * q + (pitch % 2)
    BY Divides
  <2>2. Stride = 2 * q /\ \A x, y \in Int : OffsetFilled(x, y) = 2 * (y * q + x)
    BY <1>1 DEF Stride, OffsetFilled
  <2> HIDE DEF q
  <2>3. \A y \in Int : y * q \in Int /\ y * (2 * q) = 2 * (y * q)
    BY <2>1
  <2>4. \A x, y \in Int : 2 * (y * q + x) = y * (2 * q) + x * 2
    BY <2>1, <2>3
  <2>5. \A x, y \in Int : OffsetFilled(x, y) = y * Stride + x * 2
    BY <2>2, <2>4
  <2> QED BY <1>1, <2>1, <2>2, <2>5
<1>2. CASE bpp = 3
  BY <1>2 DEF Stride, OffsetFilled
<1>3. CASE bpp = 4
  <2> DEFINE q == pitch \div 4
  <2>1. q \in Nat /\ pitch % 4 \in 0..3 /\ pitch = 4 * q + (pitch % 4)
    BY Divides
  <2>2. Stride = 4 * q /\ \A x, y \in Int : OffsetFilled(x, y) = 4 * (y * q + x)
    BY <1>3 DEF Stride, OffsetFilled
  <2> HIDE DEF q
  <2>3. \A y \in Int : y * q \in Int /\ y * (4 * q) = 4 * (y * q)
    BY <2>1
  <2>4. \A x, y \in Int : 4 * (y * q + x) = y * (4 * q) + x * 4
    BY <2>1, <2>3
  <2>5. \A x, y \in Int : OffsetFilled(x, y) = y * Stride + x * 4
    BY <2>2, <2>4
  <2> QED BY <1>3, <2>1, <2>2, <2>5
<1> QED BY <1>1, <1>2, <1>3

-----------------------------------------------------------------------------
(* What is inductive about a surface. *)

\* A surface holds its rows, and they are as far apart as they are long or more.
Shape ==
  /\ wide \in 0..IntMax /\ high \in 0..IntMax /\ pitch \in Nat
  /\ kind # "none" =>
       /\ bpp \in 1..4 /\ wide * bpp <= pitch /\ (kind = "window" => format = "XRGB8888")
       /\ pixels = [i \in 0 .. pitch * high - 1 |-> pixels[i]]
       /\ image = [p \in Cells |-> image[p]]
       /\ \A p \in Cells : image[p] \in Colors \cup {Unpainted}

\* The first two parts of SurfaceIsImage; the third follows.
Painted ==
  \A p \in Cells, k \in 1 .. bpp :
    pixels[OffsetRead(p[1], p[2]) + k - 1] =
      IF image[p] = Unpainted THEN Blank ELSE Layout(format, image[p])[k]
PaddingKept == \A i \in DOMAIN pixels : i % pitch >= wide * bpp => pixels[i] = Blank
\* Where formats agree, the bytes are those of the image, and the padding is blank.
Image ==
  kind # "none" /\ format \in Agreed /\ (bpp = 3 \/ pitch % bpp = 0) => Painted /\ PaddingKept

Sound == Shape /\ ~strayed /\ Image

\* A surface is sound until an overflow, of which there is none without a surface.
SurfaceInv == (kind = "none" => ~overflowed) /\ (~overflowed => Sound)

\* The bytes of a pixel on the surface are bytes of the surface.
LEMMA ByteInside ==
  ASSUME NEW w \in Nat, NEW h \in Nat, NEW b \in 1..4, NEW s \in Nat, w * b <= s,
         NEW x \in 0..w-1, NEW y \in 0..h-1, NEW k \in 1..b
  PROVE  /\ x * b + k - 1 \in 0..w*b-1 /\ x * b + k - 1 \in 0..s-1
         /\ y * s + x * b + k - 1 = y * s + (x * b + k - 1)
         /\ y * s + x * b + k - 1 \in 0 .. s * h - 1
<1>1. x * b + k - 1 \in 0..w*b-1
  BY PixelInRow
<1>2. x * b \in Int /\ y * s \in Int /\ w * b \in Nat
  OBVIOUS
<1>3. x * b + k - 1 \in 0..s-1
  BY <1>1, <1>2
<1>4. y * s + (x * b + k - 1) \in 0 .. s * h - 1
  <2> DEFINE r == x * b + k - 1
  <2>1. r \in 0..s-1
    BY <1>3
  <2> HIDE DEF r
  <2>2. y * s + r \in 0 .. s * h - 1
    BY <2>1, PlaceInside
  <2> QED BY <2>2 DEF r
<1>5. y * s + x * b + k - 1 = y * s + (x * b + k - 1)
  BY <1>2
<1> QED BY <1>1, <1>3, <1>4, <1>5

LEMMA InvMeansSound == ASSUME SurfaceInv PROVE SurfacesSound
<1> SUFFICES ASSUME ~overflowed, kind # "none", format \in Agreed, bpp = 3 \/ pitch % bpp = 0,
                    format \in {"ARGB8888", "XRGB8888"},
                    NEW p \in Cells, image[p] # Unpainted
             PROVE  ReadSurfacePixel(p[1], p[2]) =
                      <<R(image[p]), G(image[p]), B(image[p])>>
  BY DEF SurfaceInv, Sound, SurfacesSound, FillStaysInside, SurfaceIsImage, Image, Painted, PaddingKept
<1>1. bpp = 4 /\ Painted
  BY BytesOfFormats DEF SurfaceInv, Sound, Image, bpp
<1>2. \A k \in 1..4 : pixels[OffsetRead(p[1], p[2]) + k - 1] = Layout(format, image[p])[k]
  BY <1>1 DEF Painted
<1>3. \A k \in 1..3 : Layout(format, image[p])[k] =
                        <<B(image[p]), G(image[p]), R(image[p])>>[k]
  BY DEF Layout
<1> HIDE DEF R, G, B
<1> QED BY <1>2, <1>3 DEF ReadSurfacePixel

\* A surface that is made is blank.
LEMMA MadeSound ==
  ASSUME NEW n \in 0..IntMax, NEW m \in 0..IntMax, NEW p \in Nat, NEW f, BytesPerPixel(f) \in 1..4,
         n * BytesPerPixel(f) <= p, kind' = "window" => f = "XRGB8888", ~strayed, format' = f, wide' = n, high' = m, pitch' = p,
         pixels' = [i \in 0 .. p * m - 1 |-> Blank],
         image' = [c \in (0 .. n - 1) \X (0 .. m - 1) |-> Unpainted],
         UNCHANGED strayed
  PROVE  Sound'
<1>0. n \in Nat /\ m \in Nat
  BY SurfacesAssumption
<1>1. Shape'
  <2>1. bpp' = BytesPerPixel(f) /\ Cells' = (0 .. n - 1) \X (0 .. m - 1)
    BY DEF bpp, Cells
  <2> QED BY <2>1 DEF Shape
<1>2. kind' # "none" => Painted'
  <2> SUFFICES ASSUME kind' # "none", NEW q \in Cells', NEW k \in 1..bpp'
               PROVE  pixels'[OffsetRead(q[1], q[2])' + k - 1] = Blank /\ image'[q] = Unpainted
    BY DEF Painted
  <2>1. q \in (0 .. n - 1) \X (0 .. m - 1)
    BY DEF Cells
  <2>2. q[1] \in 0 .. n - 1 /\ q[2] \in 0 .. m - 1
    BY <2>1
  <2>3. bpp' = BytesPerPixel(f) /\ OffsetRead(q[1], q[2])' = q[2] * p + q[1] * BytesPerPixel(f)
    BY DEF OffsetRead, bpp
  <2>4. OffsetRead(q[1], q[2])' + k - 1 \in 0 .. p * m - 1
    <3> DEFINE b == BytesPerPixel(f)
               x == q[1]
               y == q[2]
    <3>1. x \in 0..n-1 /\ y \in 0..m-1 /\ b \in 1..4 /\ k \in 1..b /\ n * b <= p
      BY <2>2, <2>3
    <3> HIDE DEF b, x, y
    <3>2. y * p + x * b + k - 1 \in 0 .. p * m - 1
      BY <1>0, <3>1, ByteInside
    <3> QED BY <2>3, <3>2 DEF b, x, y
  <2> QED BY <2>1, <2>4
<1>3. PaddingKept'
  BY DEF PaddingKept
<1> QED BY <1>1, <1>2, <1>3 DEF Sound, Image

LEMMA RowsWithin ==
  ASSUME NEW s \in Nat, NEW p \in Nat, NEW h \in Nat, s <= p
  PROVE  s * h <= p * h
<1>1. (p - s) * h \in Nat
  <2>1. p - s \in Nat
    OBVIOUS
  <2> QED BY <2>1
<1>2. (p - s) * h = p * h - s * h
  OBVIOUS
<1>3. p * h \in Int /\ s * h \in Int
  OBVIOUS
<1> QED BY <1>1, <1>2, <1>3

\* A fill writes bytes of the pixels on the surface and of no others; and each
\* of its writes to a byte is of the same channel.
LEMMA FillSound ==
  ASSUME Sound, NEW x \in Corners, NEW y \in Corners, NEW n \in Edges, NEW m \in Edges,
         NEW c \in Colors, ~overflowed',
         FillSurfaceRect(x, y, n, m, c)
  PROVE  Sound'
<1> DEFINE writes == Span(Clip(x, n, wide)) \X Span(Clip(y, m, high)) \X (1 .. bpp)
           bytes == BytesFilled(format, MapSurfaceRGBA(format, c))
           Hit(i) == {t \in writes : At(t) = i}
           Rect == (x .. x + n - 1) \X (y .. y + m - 1)
<1>0. /\ x \in Int /\ y \in Int /\ n \in Int /\ m \in Int
      /\ IsInt(n) /\ IsInt(m) /\ IsInt(x + n) /\ IsInt(y + m)
  <2>1. overflowed' = (overflowed \/ ~IsInt(x + n) \/ ~IsInt(y + m))
    BY DEF FillSurfaceRect
  <2>2. IsInt(x + n) /\ IsInt(y + m)
    BY <2>1, Zenon
  <2>3. IntMax \in Nat /\ IsInt(x) /\ IsInt(y) /\ IsInt(n) /\ IsInt(m)
    BY SurfacesAssumption, Zenon DEF IsInt
  <2>4. x \in Int /\ y \in Int /\ n \in Int /\ m \in Int
    BY <2>3 DEF IsInt
  <2> QED BY <2>2, <2>3, <2>4
<1>1. /\ kind # "none" /\ bpp \in {2, 3, 4}
      /\ pixels' = [i \in DOMAIN pixels |->
                      IF Hit(i) = {} THEN pixels[i] ELSE bytes[(CHOOSE t \in Hit(i) : TRUE)[3]]]
      /\ strayed' = (strayed \/ \E t \in writes : At(t) \notin DOMAIN pixels)
      /\ image' = [p \in Cells |-> IF p[1] \in x .. x + n - 1 /\ p[2] \in y .. y + m - 1
                                   THEN c ELSE image[p]]
      /\ UNCHANGED <<kind, format, wide, high, pitch>>
  <2>1. PICK across \in Clips(x, n, wide), down \in Clips(y, m, high) :
        \E end \in Computed(down.from + down.len) :
          LET written == Writes(across, down, end)
              HitBy(i) == {t \in written : At(t) = i}
          IN
          /\ kind # "none" /\ bpp \in {2, 3, 4}
          /\ overflowed' = (overflowed \/ ~IsInt(x + n) \/ ~IsInt(y + m))
          /\ pixels' = [i \in DOMAIN pixels |-> IF HitBy(i) = {} THEN pixels[i]
                                               ELSE bytes[(CHOOSE t \in HitBy(i) : TRUE)[3]]]
          /\ strayed' = (strayed \/ \E t \in written : At(t) \notin DOMAIN pixels)
          /\ image' = [p \in Cells |-> IF p[1] \in x .. x + n - 1 /\ p[2] \in y .. y + m - 1
                                       THEN c ELSE image[p]]
          /\ UNCHANGED <<kind, format, wide, high, pitch>>
    BY DEF FillSurfaceRect
  <2>2. wide \in 0..IntMax /\ high \in 0..IntMax
    BY DEF Sound, Shape
  <2>3. across = Clip(x, n, wide)
    <3>1. across.from + across.len \in Computed(across.from + across.len)
      BY DEF Computed
    <3> QED BY <1>0, <2>2, <3>1, ClipsExact
  <2>4. ASSUME NEW end \in Computed(down.from + down.len)
        PROVE  Writes(across, down, end) = writes
    <3>1. down = Clip(y, m, high) /\ end = down.from + down.len
      <4> HIDE DEF writes, bytes
      <4>1. high \in 0..IntMax /\ down \in Clips(y, m, high)
        BY <2>1, <2>2
      <4> QED BY <1>0, <2>4, <4>1, ClipsExact
    <3>2. down.from .. end - 1 = Span(down)
      <4>1. y \in Int /\ m \in Int /\ high \in Int
        BY <1>0, <2>2
      <4>2. down.from \in Int /\ down.len \in Int
        BY <3>1, <4>1 DEF Clip
      <4> QED BY <3>1, <4>2 DEF Span
    <3>3. Writes(across, down, end) = Span(across) \X Span(down) \X (1 .. bpp)
      BY <3>2, Zenon DEF Writes, Span
    <3> HIDE DEF writes
    <3>4. writes = Span(across) \X Span(down) \X (1 .. bpp)
      BY <2>3, <3>1, Zenon DEF writes
    <3> QED BY <3>3, <3>4, Zenon
  <2> HIDE DEF writes, bytes
  <2> QED BY <2>1, <2>4
<1>2. /\ wide \in Nat /\ high \in Nat /\ pitch \in Nat /\ bpp \in 1..4 /\ wide * bpp <= pitch
      /\ DOMAIN pixels = 0 .. pitch * high - 1
      /\ \A p \in Cells : image[p] \in Colors \cup {Unpainted}
  BY <1>1, SurfacesAssumption DEF Sound, Shape
<1>3. /\ bpp' = bpp /\ Cells' = Cells
      /\ \A a, b \in Int : OffsetRead(a, b)' = OffsetRead(a, b)
  BY <1>1 DEF bpp, Cells, OffsetRead
<1>4. Shape'
  <2>1. pixels' = [i \in 0 .. pitch * high - 1 |-> pixels'[i]]
    <3> HIDE DEF Hit, bytes
    <3> QED BY <1>1, <1>2
  <2>2. image' = [p \in Cells |-> image'[p]]
    BY <1>1
  <2>3. \A p \in Cells : image'[p] \in Colors \cup {Unpainted}
    BY <1>1, <1>2
  <2>4. kind = "window" => format = "XRGB8888"
    BY <1>1 DEF Sound, Shape
  <2>5. wide \in 0..IntMax /\ high \in 0..IntMax
    BY DEF Sound, Shape
  <2> QED BY <1>1, <1>2, <1>3, <2>1, <2>2, <2>3, <2>4, <2>5 DEF Shape
<1>5. writes = ((x .. x + n - 1) \cap (0 .. wide - 1))
                 \X ((y .. y + m - 1) \cap (0 .. high - 1)) \X (1 .. bpp)
  BY <1>0, <1>2, SpanClipped
<1>6. ASSUME NEW t \in writes
      PROVE  /\ t[1] \in 0 .. wide - 1 /\ t[2] \in 0 .. high - 1 /\ t[3] \in 1 .. bpp
             /\ t[1] \in x .. x + n - 1 /\ t[2] \in y .. y + m - 1
  <2> HIDE DEF writes
  <2> QED BY <1>5
<1>7. ASSUME NEW a \in (x .. x + n - 1) \cap (0 .. wide - 1),
             NEW b \in (y .. y + m - 1) \cap (0 .. high - 1), NEW k \in 1 .. bpp
      PROVE  <<a, b, k>> \in writes
  <2> HIDE DEF writes
  <2> QED BY <1>5
<1> HIDE DEF writes, bytes
<1>8. /\ Stride \in Nat /\ wide * bpp <= Stride /\ Stride <= pitch
      /\ bpp = 3 \/ pitch % bpp = 0 => Stride = pitch
      /\ \A a, b \in Int : OffsetFilled(a, b) = b * Stride + a * bpp
  BY <1>1, <1>2, StrideFits
<1>9. ASSUME NEW t \in writes
      PROVE  /\ t[1] * bpp + t[3] - 1 \in 0 .. wide * bpp - 1
             /\ t[1] * bpp + t[3] - 1 \in 0 .. pitch - 1
             /\ At(t) = t[2] * Stride + (t[1] * bpp + t[3] - 1)
             /\ At(t) \in DOMAIN pixels
  <2> DEFINE a == t[1]
             b == t[2]
             k == t[3]
  <2>1. a \in 0 .. wide - 1 /\ b \in 0 .. high - 1 /\ k \in 1 .. bpp /\ a \in Int /\ b \in Int
    BY <1>6
  <2>2. At(t) = b * Stride + a * bpp + k - 1
    BY <1>8, <2>1 DEF At
  <2> HIDE DEF a, b, k
  <2>3. /\ a * bpp + k - 1 \in 0 .. wide * bpp - 1 /\ a * bpp + k - 1 \in 0 .. Stride - 1
        /\ At(t) = b * Stride + (a * bpp + k - 1)
        /\ At(t) \in 0 .. Stride * high - 1
    <3>1. wide \in Nat /\ high \in Nat /\ bpp \in 1..4 /\ Stride \in Nat /\ wide * bpp <= Stride
      BY <1>2, <1>8
    <3>2. /\ a * bpp + k - 1 \in 0 .. wide * bpp - 1 /\ a * bpp + k - 1 \in 0 .. Stride - 1
          /\ b * Stride + a * bpp + k - 1 = b * Stride + (a * bpp + k - 1)
          /\ b * Stride + a * bpp + k - 1 \in 0 .. Stride * high - 1
      BY <2>1, <3>1, ByteInside
    <3> QED BY <2>2, <3>2
  <2>4. Stride * high <= pitch * high /\ Stride * high \in Int /\ pitch * high \in Int
    BY <1>2, <1>8, RowsWithin
  <2>5. At(t) \in DOMAIN pixels
    BY <1>2, <2>3, <2>4
  <2>6. a * bpp + k - 1 \in 0 .. pitch - 1
    <3> DEFINE r == a * bpp + k - 1
    <3>1. r \in 0 .. Stride - 1 /\ Stride \in Nat /\ pitch \in Nat /\ Stride <= pitch
      BY <1>2, <1>8, <2>3
    <3> HIDE DEF r
    <3>2. r \in 0 .. pitch - 1
      BY <3>1
    <3> QED BY <3>2 DEF r
  <2> QED BY <2>3, <2>5, <2>6 DEF a, b, k
<1>10. ~strayed'
  <2> QED BY <1>1, <1>9 DEF Sound
<1>11. Image'
  <2> SUFFICES ASSUME format \in Agreed, bpp = 3 \/ pitch % bpp = 0
               PROVE  Painted' /\ PaddingKept'
    BY <1>1, <1>3 DEF Image
  <2>1. Painted /\ PaddingKept /\ Stride = pitch
    BY <1>1, <1>8 DEF Sound, Image
  <2>2. ASSUME NEW p \in Cells, NEW k \in 1 .. bpp
        PROVE  pixels'[OffsetRead(p[1], p[2]) + k - 1] =
                 IF image'[p] = Unpainted THEN Blank ELSE Layout(format, image'[p])[k]
    <3> DEFINE a == p[1]
               b == p[2]
               i == OffsetRead(a, b) + k - 1
    <3>1. a \in 0 .. wide - 1 /\ b \in 0 .. high - 1 /\ a \in Int /\ b \in Int
      BY DEF Cells
    <3>2. i = b * pitch + a * bpp + k - 1
      BY DEF OffsetRead
    <3> HIDE DEF a, b, i
    <3>3. /\ i = b * pitch + (a * bpp + k - 1) /\ i \in DOMAIN pixels
          /\ a * bpp + k - 1 \in 0 .. pitch - 1
      BY <1>2, <3>1, <3>2, ByteInside
    <3>4. ASSUME NEW t \in writes, At(t) = i PROVE t[1] = a /\ t[2] = b /\ t[3] = k
      <4>1. t[2] * pitch + (t[1] * bpp + t[3] - 1) = b * pitch + (a * bpp + k - 1)
            /\ t[1] * bpp + t[3] - 1 \in 0 .. pitch - 1
        <5> QED BY <1>9, <2>1, <3>3, <3>4
      <4>2. t[1] \in Int /\ t[2] \in Int /\ t[3] \in 1 .. bpp
        BY <1>6
      <4> DEFINE r == t[1] * bpp + t[3] - 1
                 q == a * bpp + k - 1
      <4>3. t[2] = b /\ r = q
        <5>1. r \in 0 .. pitch - 1 /\ q \in 0 .. pitch - 1 /\ t[2] * pitch + r = b * pitch + q
          BY <3>3, <4>1
        <5>2. pitch \in Nat /\ t[2] \in Int /\ b \in Int
          BY <1>2, <3>1, <4>2
        <5> HIDE DEF r, q
        <5> QED BY <5>1, <5>2, PlaceApart
      <4>4. t[1] = a /\ t[3] = k
        <5>1. bpp \in 1..4 /\ t[1] \in Int /\ a \in Int /\ t[3] \in 1 .. bpp
          BY <1>2, <3>1, <4>2
        <5> DEFINE z == t[1]
                   l == t[3]
        <5>2. bpp \in 1..4 /\ z \in Int /\ l \in 1 .. bpp /\ z * bpp + l - 1 = a * bpp + k - 1
          BY <4>3, <5>1
        <5>3. a \in Int
          BY <5>1
        <5> HIDE DEF z, l
        <5>4. z = a /\ l = k
          BY <5>2, <5>3, PixelApart
        <5> QED BY <5>4 DEF z, l
      <4> QED BY <4>3, <4>4
    <3>5. image'[p] = IF a \in x .. x + n - 1 /\ b \in y .. y + m - 1 THEN c ELSE image[p]
      BY <1>1 DEF a, b
    <3>6. pixels'[i] = IF Hit(i) = {} THEN pixels[i] ELSE bytes[(CHOOSE t \in Hit(i) : TRUE)[3]]
      <4> HIDE DEF Hit
      <4> QED BY <1>1, <3>3
    <3>7. CASE a \in x .. x + n - 1 /\ b \in y .. y + m - 1
      <4>1. <<a, b, k>> \in writes
        BY <1>7, <3>1, <3>7
      <4>2. At(<<a, b, k>>) = i
        BY <1>8, <2>1, <3>1, <3>2 DEF At
      <4>3. <<a, b, k>> \in Hit(i)
        BY <4>1, <4>2
      <4>4. \A t \in Hit(i) : t[3] = k
        BY <3>4
      <4> HIDE DEF Hit
      <4>5. pixels'[i] = bytes[k]
        <5>1. (CHOOSE t \in Hit(i) : TRUE) \in Hit(i)
          BY <4>3
        <5>2. (CHOOSE t \in Hit(i) : TRUE)[3] = k
          BY <4>4, <5>1
        <5> QED BY <3>6, <4>3, <5>2
      <4>6. bytes[k] = Layout(format, c)[k]
        BY FilledAsLaidOut DEF bytes, bpp
      <4>7. image'[p] = c /\ c # Unpainted
        BY <3>5, <3>7, SurfacesAssumption
      <4> QED BY <4>5, <4>6, <4>7 DEF i, a, b
    <3>8. CASE ~(a \in x .. x + n - 1 /\ b \in y .. y + m - 1)
      <4>1. Hit(i) = {}
        BY <1>6, <3>4, <3>8
      <4>2. pixels'[i] = pixels[i] /\ image'[p] = image[p]
        BY <3>5, <3>6, <3>8, <4>1
      <4> QED BY <2>1, <4>2 DEF Painted, i, a, b
    <3> QED BY <3>7, <3>8
  <2>3. Painted'
    <3>1. \A p \in Cells : OffsetRead(p[1], p[2])' = OffsetRead(p[1], p[2])
      BY <1>1 DEF OffsetRead, bpp
    <3> SUFFICES ASSUME NEW p \in Cells, NEW k \in 1 .. bpp
                 PROVE  pixels'[OffsetRead(p[1], p[2])' + k - 1] =
                          IF image'[p] = Unpainted THEN Blank ELSE Layout(format', image'[p])[k]
      BY <1>3 DEF Painted
    <3>2. format' = format
      BY <1>1
    <3> QED BY <2>2, <3>1, <3>2
  <2>4. ASSUME NEW i \in DOMAIN pixels, i % pitch >= wide * bpp PROVE pixels'[i] = Blank
    <3>1. ASSUME NEW t \in writes, At(t) = i PROVE FALSE
      <4> DEFINE r == t[1] * bpp + t[3] - 1
      <4>1. i = t[2] * pitch + r /\ r \in 0 .. pitch - 1 /\ r < wide * bpp
        <5>1. r \in 0 .. wide * bpp - 1 /\ r \in 0 .. pitch - 1 /\ At(t) = t[2] * pitch + r
          BY <1>9, <2>1
        <5> HIDE DEF r
        <5>2. wide * bpp \in Int
          BY <1>2
        <5> QED BY <3>1, <5>1, <5>2
      <4>2. t[2] \in Nat
        BY <1>6
      <4> HIDE DEF r
      <4>3. i % pitch = r
        BY <1>2, <4>1, <4>2, PlaceColumn
      <4>4. wide * bpp \in Int /\ r \in Int
        BY <1>2, <4>1
      <4> QED BY <2>4, <4>1, <4>3, <4>4
    <3>2. Hit(i) = {}
      BY <3>1
    <3> HIDE DEF Hit
    <3> QED BY <1>1, <2>1, <2>4, <3>2 DEF PaddingKept
  <2>5. PaddingKept'
    <3>1. DOMAIN pixels' = DOMAIN pixels
      BY <1>1
    <3> QED BY <1>1, <1>3, <2>4, <3>1 DEF PaddingKept
  <2> QED BY <2>3, <2>5
<1> QED BY <1>4, <1>10, <1>11 DEF Sound

LEMMA SurfaceInitSound == ASSUME SurfaceInit PROVE SurfaceInv
BY SurfacesAssumption DEF SurfaceInit, SurfaceInv, Sound, Shape, Image

LEMMA SurfaceStep == ASSUME SurfaceInv, [SurfaceNext]_surfaceVars PROVE SurfaceInv'
<1>0. IntMax \in Nat
  BY SurfacesAssumption
<1>1. ASSUME NEW n \in Widths, NEW m \in Heights, NEW f \in Formats, CreateSurface(n, m, f)
      PROVE  SurfaceInv'
  <2>1. n \in 0..IntMax /\ m \in 0..IntMax /\ BytesPerPixel(f) \in 1..4
    BY <1>1, SurfacesAssumption, BytesOfFormats DEF CreateSurface
  <2>2. n * BytesPerPixel(f) \in Nat
    BY <1>0, <2>1
  <2>3. Sound'
    BY <1>1, <2>1, <2>2, MadeSound DEF CreateSurface, Made, SurfaceInv, Sound
  <2> QED BY <1>1, <2>3 DEF CreateSurface, Made, SurfaceInv
<1>2. ASSUME NEW n \in Widths, NEW m \in Heights, NEW f \in Formats, NEW pad \in Pads,
             CreateSurfaceFrom(n, m, f, n * BytesPerPixel(f) + pad)
      PROVE  SurfaceInv'
  <2>1. n \in 0..IntMax /\ m \in 0..IntMax /\ pad \in Nat /\ BytesPerPixel(f) \in 1..4
    BY <1>2, SurfacesAssumption, BytesOfFormats DEF CreateSurfaceFrom
  <2> DEFINE p == n * BytesPerPixel(f) + pad
  <2>2. p \in Nat /\ n * BytesPerPixel(f) <= p
    <3>1. n * BytesPerPixel(f) \in Nat
      BY <1>0, <2>1
    <3> QED BY <2>1, <3>1
  <2>3. Made("from", f, n, m, p) /\ kind = "none"
    BY <1>2 DEF CreateSurfaceFrom
  <2> HIDE DEF p
  <2>4. Sound'
    BY <2>1, <2>2, <2>3, MadeSound DEF Made, SurfaceInv, Sound
  <2> QED BY <2>3, <2>4 DEF Made, SurfaceInv
<1>3. ASSUME NEW n \in Widths, NEW m \in Heights, GetWindowSurface(n, m) PROVE SurfaceInv'
  <2>1. n \in 0..IntMax /\ m \in 0..IntMax /\ BytesPerPixel("XRGB8888") = 4 /\ n * 4 \in Nat
    BY SurfacesAssumption, BytesOfFormats
  <2>2. Sound'
    BY <1>3, <2>1, MadeSound DEF GetWindowSurface, Made, SurfaceInv, Sound
  <2> QED BY <1>3, <2>2 DEF GetWindowSurface, Made, SurfaceInv
<1>4. ASSUME NEW n \in Widths, NEW m \in Heights, ResizeWindow(n, m) PROVE SurfaceInv'
  <2>1. n \in 0..IntMax /\ m \in 0..IntMax /\ n \in Nat /\ m \in Nat /\ n * 4 \in Nat
    BY SurfacesAssumption
  <2>2. kind' # "none"
    BY <1>4 DEF ResizeWindow
  <2> SUFFICES ASSUME ~overflowed' PROVE Sound'
    BY <2>2 DEF SurfaceInv
  <2>3. ~overflowed /\ IsInt(n * 4) /\ ~(n * 4 * m > SizeMax) /\ kind = "window"
    BY <1>4 DEF ResizeWindow
  <2>4. Sound /\ format = "XRGB8888" /\ BytesPerPixel("XRGB8888") = 4
    BY <2>3, BytesOfFormats DEF SurfaceInv, Sound, Shape
  <2>5. Wrap(n * 4) = n * 4
    BY <2>1, <2>3, WrapKeepsInts
  <2>6. (n * 4 * m) % (SizeMax + 1) = n * 4 * m
    <3> DEFINE b == n * 4 * m
               s == SizeMax + 1
    <3>1. b \in Nat /\ SizeMax \in Nat
      <4> DEFINE w == n * 4
      <4>1. w \in Nat /\ m \in Nat
        BY <2>1
      <4> HIDE DEF w
      <4>2. w * m \in Nat
        BY <4>1
      <4> QED BY <4>2, SurfacesAssumption DEF w
    <3>2. ~(b > SizeMax)
      BY <2>3
    <3> HIDE DEF b
    <3>3. s \in Nat /\ b \in 0..s-1
      BY <3>1, <3>2
    <3> HIDE DEF s
    <3>4. (0 * s + b) % s = b
      BY <3>3, PlaceColumn
    <3>5. 0 * s + b = b
      BY <3>3
    <3>6. b % s = b
      BY <3>4, <3>5
    <3> QED BY <3>6 DEF b, s
  <2>7. /\ wide' = n /\ high' = m /\ pitch' = n * 4 /\ format' = format /\ strayed' = strayed
        /\ pixels' = [i \in 0 .. n * 4 * m - 1 |-> Blank]
        /\ image' = [c \in (0 .. n - 1) \X (0 .. m - 1) |-> Unpainted]
    BY <1>4, <2>5, <2>6 DEF ResizeWindow
  <2> QED BY <2>1, <2>4, <2>7, MadeSound DEF Sound
<1>5. CASE DestroySurface
  BY <1>0, <1>5 DEF DestroySurface, SurfaceInv, Sound, Shape, Image
<1>6. ASSUME NEW x \in Corners, NEW y \in Corners, NEW n \in Edges, NEW m \in Edges,
             NEW c \in Colors, FillSurfaceRect(x, y, n, m, c)
      PROVE  SurfaceInv'
  <2>1. kind' # "none" /\ (~overflowed' => ~overflowed)
    BY <1>6 DEF FillSurfaceRect
  <2>2. ASSUME ~overflowed' PROVE Sound'
    BY <1>6, <2>1, <2>2, FillSound DEF SurfaceInv
  <2> QED BY <2>1, <2>2 DEF SurfaceInv
<1>7. CASE UNCHANGED surfaceVars
  BY <1>7 DEF surfaceVars, SurfaceInv, Sound, Shape, Image, Painted, PaddingKept, Cells, bpp, OffsetRead
<1> QED BY <1>1, <1>2, <1>3, <1>4, <1>5, <1>6, <1>7 DEF SurfaceNext, MakeNext

\* Until a sum or a product of ints or of size_t overflows, every fill of
\* SDL_FillSurfaceRect writes inside the surface's bytes; and after fills that overlap
\* and reach over its edges each pixel holds, for a format and pitch that the code
\* agrees on, the colour it was filled with last and the padding what it held, as
\* SDL_ReadSurfacePixel and a driver read them.  For ints and surfaces of any size,
\* rectangles and pitches that are ints, and across dummy_SetWindowSize.
THEOREM SurfacesAlwaysSound == SurfaceSpec => []SurfacesSound
<1>1. SurfaceInit => SurfaceInv
  BY SurfaceInitSound
<1>2. SurfaceInv /\ [SurfaceNext]_surfaceVars => SurfaceInv'
  BY SurfaceStep
<1>3. SurfaceInv => SurfacesSound
  BY InvMeansSound
<1> QED BY <1>1, <1>2, <1>3, PTL DEF SurfaceSpec
=============================================================================
