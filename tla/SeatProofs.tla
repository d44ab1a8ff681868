------------------------------ MODULE SeatProofs ------------------------------
(***************************************************************************)
(* What Seat promises for any number of windows, fingers and slots.  The   *)
(* five invariants are proved together as SeatInv: each handler trusts     *)
(* what the others left behind.  The lock can be re-armed on an enter only *)
(* because relative mode, once on, implies that the compositor has the     *)
(* protocols (Granted), and the table of fingers is finite because every   *)
(* step adds at most one.                                                  *)
(***************************************************************************)
EXTENDS Seat, FiniteSetTheorems, TLAPS

Granted == relative_mode_window # None => constraints

SeatInv ==
  /\ TypeOK /\ IsFiniteSet(fingers)
  /\ FocusLives /\ LockFollowsMode /\ Granted
  /\ EnterLeave /\ NoStuckFinger

(* A seat with no window, no device and no finger.                           *)
LEMMA SeatInit == Init => SeatInv
<1>1. IsFiniteSet({}) /\ Cardinality({}) = 0
  BY FS_EmptySet
<1> SUFFICES ASSUME Init PROVE SeatInv
  OBVIOUS
<1>2. fingers = {} /\ IsFiniteSet(fingers) /\ Cardinality(fingers) <= Slots
  BY <1>1, SeatAssumption DEF Init
<1>3. TypeOK
  BY <1>2 DEF Init, TypeOK
<1>4. FocusLives /\ LockFollowsMode /\ Granted
  BY DEF Init, FocusLives, LockFollowsMode, Granted
<1>5. EnterLeave /\ NoStuckFinger
  BY DEF Init, EnterLeave, NoStuckFinger
<1> QED
  BY <1>2, <1>3, <1>4, <1>5 DEF SeatInv

(* touch_finger_track never uses more slots than there are.                  *)
LEMMA TrackFits ==
  ASSUME TypeOK, IsFiniteSet(fingers), NEW f \in Fingers
  PROVE  /\ Track(f) \subseteq Fingers
         /\ IsFiniteSet(Track(f)) /\ Cardinality(Track(f)) <= Slots
<1>1. CASE Cardinality(fingers) < Slots
  <2>1. Track(f) = fingers \cup {f}
    BY <1>1 DEF Track
  <2>2. /\ IsFiniteSet(fingers \cup {f})
        /\ \/ Cardinality(fingers \cup {f}) = Cardinality(fingers)
           \/ Cardinality(fingers \cup {f}) = Cardinality(fingers) + 1
    BY FS_AddElement
  <2>3. Cardinality(fingers) \in Nat
    BY FS_CardinalityType
  <2> QED
    BY <1>1, <2>1, <2>2, <2>3, SeatAssumption DEF TypeOK
<1>2. CASE ~(Cardinality(fingers) < Slots)
  BY <1>2 DEF Track, TypeOK
<1> QED
  BY <1>1, <1>2

(* Removing fingers keeps the table within its slots.                        *)
LEMMA FewerFit ==
  ASSUME TypeOK, IsFiniteSet(fingers), NEW S \in SUBSET fingers
  PROVE  /\ S \subseteq Fingers
         /\ IsFiniteSet(S) /\ Cardinality(S) <= Slots
<1>1. IsFiniteSet(S) /\ Cardinality(S) <= Cardinality(fingers)
  BY FS_Subset
<1>2. Cardinality(S) \in Nat /\ Cardinality(fingers) \in Nat
  BY <1>1, FS_CardinalityType
<1> QED
  BY <1>1, <1>2, SeatAssumption DEF TypeOK

(* The slots of the table in use after any step.                             *)
LEMMA TableFits ==
  ASSUME TypeOK, IsFiniteSet(fingers), [Next]_vars
  PROVE  /\ fingers' \subseteq Fingers
         /\ IsFiniteSet(fingers') /\ Cardinality(fingers') <= Slots
<1>1. ASSUME NEW f \in Fingers, NEW s \in Windows \cup {Gone}, TouchDown(f, s)
      PROVE  fingers' = fingers \/ fingers' = Track(f)
  BY <1>1 DEF TouchDown
<1>2. ASSUME NEW f \in Fingers, TouchMotion(f)
      PROVE  fingers' = fingers \/ fingers' = Track(f)
  BY <1>2 DEF TouchMotion
<1>3. ASSUME NEW f \in Fingers, TouchUp(f)
      PROVE  fingers' \in SUBSET fingers
  BY <1>3 DEF TouchUp
<1>4. ASSUME TouchCancel
      PROVE  fingers' \in SUBSET fingers
  BY <1>4 DEF TouchCancel
<1>5. ASSUME Window \/ Pointer \/ Seat \/ UNCHANGED vars
      PROVE  fingers' = fingers
  BY <1>5 DEF Window, Pointer, Seat, vars, touchVars, CreateWindow, DestroyWindow, RelativeOn,
    RelativeOff, PointerEnter, PointerLeave, PointerFrame, Locked, Unlocked, RelativeMotion,
    PointerAdded, PointerRemoved, TouchAdded, TouchRemoved, SurfaceGone
<1>6. fingers' \in SUBSET fingers \/ \E f \in Fingers : fingers' = Track(f)
  BY <1>1, <1>2, <1>3, <1>4, <1>5 DEF Next, Touch
<1> QED
  BY <1>6, TrackFits, FewerFit

(* The state keeps its types; a flag is set only on windows that exist.      *)
LEMMA TypesKept ==
  ASSUME SeatInv, [Next]_vars
  PROVE  TypeOK'
<1> USE DEF SeatInv, TypeOK, vars, pointerVars, modeVars, lockVars, touchVars, Surfaces
<1>t. fingers' \subseteq Fingers /\ Cardinality(fingers') <= Slots
  BY TableFits DEF SeatInv
<1>1. ASSUME NEW w \in Windows, CreateWindow(w) PROVE TypeOK'
  BY <1>1, <1>t DEF CreateWindow
<1>2. ASSUME NEW w \in Windows, DestroyWindow(w) PROVE TypeOK'
  BY <1>2, <1>t DEF DestroyWindow, DriverDestroys, RemoveWindow,
    DriverRelativeOff, ReleaseLock
<1>3. ASSUME NEW w \in Windows, RelativeOn(w) PROVE TypeOK'
  <2>1. CASE CanArm
    BY <1>3, <1>t, <2>1 DEF RelativeOn, ArmLock
  <2>2. CASE ~CanArm
    BY <1>3, <1>t, <2>2 DEF RelativeOn
  <2> QED
    BY <2>1, <2>2
<1>4. ASSUME NEW w \in Windows, RelativeOff(w) PROVE TypeOK'
  <2>1. CASE relative_lock_window = w
    BY <1>4, <1>t, <2>1 DEF RelativeOff, DriverRelativeOff, ReleaseLock
  <2>2. CASE relative_lock_window # w
    BY <1>4, <1>t, <2>2 DEF RelativeOff, DriverRelativeOff
  <2> QED
    BY <2>1, <2>2
<1>5. ASSUME NEW s \in Windows \cup {Gone}, PointerEnter(s) PROVE TypeOK'
  <2>1. CASE s = relative_mode_window /\ locked_pointer = "none" /\ CanArm
    <3>1. /\ relative_lock_window' \in Windows \cup {None} /\ relative_pointer' \in BOOLEAN
          /\ rel_acc' \in BOOLEAN /\ locked_pointer' \in {"none", "asked", "locked"}
      BY <1>5, <2>1, SeatAssumption DEF PointerEnter, Rearm, ArmLock
    <3> QED
      BY <1>5, <1>t, <3>1, SeatAssumption DEF PointerEnter
  <2>2. CASE ~(s = relative_mode_window /\ locked_pointer = "none" /\ CanArm)
    BY <1>5, <1>t, <2>2, SeatAssumption DEF PointerEnter, Rearm
  <2> QED
    BY <2>1, <2>2
<1>6. ASSUME PointerLeave PROVE TypeOK'
  BY <1>6, <1>t DEF PointerLeave
<1>7. ASSUME PointerFrame \/ Locked \/ Unlocked \/ RelativeMotion PROVE TypeOK'
  BY <1>7, <1>t DEF PointerFrame, Locked, Unlocked, RelativeMotion
<1>8. ASSUME NEW f \in Fingers, TouchMotion(f) \/ TouchUp(f) PROVE TypeOK'
  BY <1>8, <1>t DEF TouchMotion, TouchUp
<1>9. ASSUME NEW f \in Fingers, NEW s \in Windows \cup {Gone}, TouchDown(f, s) PROVE TypeOK'
  BY <1>9, <1>t, SeatAssumption DEF TouchDown
<1>10. ASSUME TouchCancel PROVE TypeOK'
  BY <1>10, <1>t DEF TouchCancel
<1>11. ASSUME Seat PROVE TypeOK'
  <2>1. CASE PointerAdded
    BY <2>1, <1>t DEF PointerAdded
  <2>2. CASE PointerRemoved
    BY <2>2, <1>t DEF PointerRemoved
  <2>3. CASE TouchAdded
    BY <2>3, <1>t DEF TouchAdded
  <2>4. CASE TouchRemoved
    <3>1. under' \in [Fingers -> Windows \cup {None, Gone}] /\ touch_lost' \in BOOLEAN
      BY <2>4 DEF TouchRemoved
    <3>2. /\ touch' \in BOOLEAN
          /\ UNCHANGED <<windows, pointerVars, modeVars, lockVars, touch_focus, told>>
      BY <2>4 DEF TouchRemoved
    <3> QED
      BY <1>t, <3>1, <3>2
  <2>5. CASE SurfaceGone
    <3>1. on' \in Windows \cup {None, Gone} /\ under' \in [Fingers -> Windows \cup {None, Gone}]
      BY <2>5 DEF SurfaceGone
    <3> QED
      BY <2>5, <1>t, <3>1 DEF SurfaceGone
  <2> QED
    BY <1>11, <2>1, <2>2, <2>3, <2>4, <2>5 DEF Seat
<1>12. ASSUME UNCHANGED vars PROVE TypeOK'
  BY <1>12
<1> QED
  BY <1>1, <1>2, <1>3, <1>4, <1>5, <1>6, <1>7, <1>8, <1>9, <1>10, <1>11, <1>12
  DEF Next, Window, Pointer, Touch

(* Nothing the pointer side names was freed.                                 *)
LEMMA FocusKept ==
  ASSUME SeatInv, [Next]_vars
  PROVE  FocusLives'
<1> USE DEF SeatInv, FocusLives, vars, pointerVars, modeVars, lockVars, Surfaces
<1>1. ASSUME NEW w \in Windows, CreateWindow(w) PROVE FocusLives'
  BY <1>1 DEF CreateWindow
<1>2. ASSUME NEW w \in Windows, DestroyWindow(w) PROVE FocusLives'
  BY <1>2 DEF DestroyWindow, DriverDestroys, RemoveWindow,
    DriverRelativeOff, ReleaseLock
<1>3. ASSUME NEW w \in Windows, RelativeOn(w) PROVE FocusLives'
  BY <1>3 DEF RelativeOn, ArmLock
<1>4. ASSUME NEW w \in Windows, RelativeOff(w) PROVE FocusLives'
  BY <1>4 DEF RelativeOff, DriverRelativeOff, ReleaseLock
<1>5. ASSUME NEW s \in Windows \cup {Gone}, PointerEnter(s) PROVE FocusLives'
  BY <1>5 DEF PointerEnter, Rearm, ArmLock
<1>6. ASSUME PointerLeave PROVE FocusLives'
  BY <1>6 DEF PointerLeave
<1>7. ASSUME PointerFrame \/ Locked \/ Unlocked \/ RelativeMotion PROVE FocusLives'
  BY <1>7 DEF PointerFrame, Locked, Unlocked, RelativeMotion
<1>8. ASSUME Touch \/ Seat \/ UNCHANGED vars PROVE FocusLives'
  BY <1>8 DEF Touch, TouchMotion, TouchUp, TouchDown, TouchCancel,
    Seat, PointerAdded, PointerRemoved, TouchAdded, TouchRemoved, SurfaceGone
<1> QED
  BY <1>1, <1>2, <1>3, <1>4, <1>5, <1>6, <1>7, <1>8 DEF Next, Window, Pointer

(* The lock and the mode stay together.                                      *)
LEMMA LockKept ==
  ASSUME SeatInv, [Next]_vars
  PROVE  LockFollowsMode' /\ Granted'
<1> USE SeatAssumption
    DEF SeatInv, LockFollowsMode, Granted, vars, pointerVars, modeVars, lockVars, Surfaces
<1> DEFINE Goal == LockFollowsMode' /\ Granted'
<1>1. ASSUME NEW w \in Windows, CreateWindow(w) PROVE Goal
  BY <1>1 DEF CreateWindow
<1>2. ASSUME NEW w \in Windows, DestroyWindow(w) PROVE Goal
  BY <1>2 DEF DestroyWindow, DriverDestroys, RemoveWindow,
    DriverRelativeOff, ReleaseLock
<1>3. ASSUME NEW w \in Windows, RelativeOn(w) PROVE Goal
  BY <1>3 DEF RelativeOn, ArmLock, CanArm
<1>4. ASSUME NEW w \in Windows, RelativeOff(w) PROVE Goal
  BY <1>4 DEF RelativeOff, DriverRelativeOff, ReleaseLock
<1>5. ASSUME NEW s \in Windows \cup {Gone}, PointerEnter(s) PROVE Goal
  BY <1>5 DEF PointerEnter, Rearm, ArmLock, CanArm, TypeOK
<1>6. ASSUME PointerLeave PROVE Goal
  BY <1>6 DEF PointerLeave
<1>7. ASSUME PointerFrame \/ Locked \/ Unlocked \/ RelativeMotion PROVE Goal
  BY <1>7 DEF PointerFrame, Locked, Unlocked, RelativeMotion
<1>8. ASSUME Touch \/ Seat \/ UNCHANGED vars PROVE Goal
  BY <1>8 DEF Touch, TouchMotion, TouchUp, TouchDown, TouchCancel,
    Seat, PointerAdded, PointerRemoved, TouchAdded, TouchRemoved, SurfaceGone
<1> QED
  BY <1>1, <1>2, <1>3, <1>4, <1>5, <1>6, <1>7, <1>8 DEF Next, Window, Pointer

(* Enter and leave events keep telling where the pointer is.                 *)
LEMMA EnterKept ==
  ASSUME SeatInv, [Next]_vars
  PROVE  EnterLeave'
<1> USE SeatAssumption
    DEF SeatInv, TypeOK, EnterLeave, vars, pointerVars, Surfaces
<1>1. ASSUME NEW w \in Windows, CreateWindow(w) \/ RelativeOn(w) \/ RelativeOff(w)
      PROVE  EnterLeave'
  BY <1>1 DEF CreateWindow, RelativeOn, RelativeOff
<1>2. ASSUME NEW w \in Windows, DestroyWindow(w) PROVE EnterLeave'
  BY <1>2 DEF DestroyWindow, DriverDestroys, RemoveWindow
<1>3. ASSUME NEW s \in Windows \cup {Gone}, PointerEnter(s) PROVE EnterLeave'
  BY <1>3 DEF PointerEnter
<1>4. ASSUME PointerLeave PROVE EnterLeave'
  BY <1>4 DEF PointerLeave
<1>5. ASSUME PointerFrame \/ Locked \/ Unlocked \/ RelativeMotion PROVE EnterLeave'
  BY <1>5 DEF PointerFrame, Locked, Unlocked, RelativeMotion
<1>6. ASSUME PointerRemoved PROVE EnterLeave'
  BY <1>6 DEF PointerRemoved
<1>7. ASSUME SurfaceGone PROVE EnterLeave'
  BY <1>7 DEF SurfaceGone
<1>8. ASSUME Touch \/ PointerAdded \/ TouchAdded \/ TouchRemoved \/ UNCHANGED vars
      PROVE  EnterLeave'
  BY <1>8 DEF Touch, TouchMotion, TouchUp, TouchDown, TouchCancel,
    PointerAdded, TouchAdded, TouchRemoved
<1> QED
  BY <1>1, <1>2, <1>3, <1>4, <1>5, <1>6, <1>7, <1>8 DEF Next, Window, Pointer, Seat

(* A finger that is reported down stays on its window until it is ended.     *)
LEMMA FingersKept ==
  ASSUME SeatInv, [Next]_vars
  PROVE  NoStuckFinger'
<1> USE SeatAssumption DEF SeatInv, TypeOK, NoStuckFinger, vars, touchVars, Surfaces
<1>1. ASSUME NEW w \in Windows, CreateWindow(w) \/ RelativeOn(w) \/ RelativeOff(w)
      PROVE  NoStuckFinger'
  BY <1>1 DEF CreateWindow, RelativeOn, RelativeOff
<1>2. ASSUME NEW w \in Windows, DestroyWindow(w) PROVE NoStuckFinger'
  BY <1>2 DEF DestroyWindow, DriverDestroys, RemoveWindow
<1>3. ASSUME Pointer \/ PointerAdded \/ PointerRemoved \/ TouchAdded \/ UNCHANGED vars
      PROVE  NoStuckFinger'
  BY <1>3 DEF Pointer, PointerEnter, PointerLeave, PointerFrame, Locked, Unlocked,
    RelativeMotion, PointerAdded, PointerRemoved, TouchAdded
<1>4. ASSUME NEW f \in Fingers, NEW s \in Windows \cup {Gone}, TouchDown(f, s)
      PROVE  NoStuckFinger'
  BY <1>4 DEF TouchDown
<1>5. ASSUME NEW f \in Fingers, TouchMotion(f) PROVE NoStuckFinger'
  BY <1>5 DEF TouchMotion
<1>6. ASSUME NEW f \in Fingers, TouchUp(f) PROVE NoStuckFinger'
  BY <1>6 DEF TouchUp
<1>7. ASSUME TouchCancel PROVE NoStuckFinger'
  BY <1>7 DEF TouchCancel
<1>8. ASSUME SurfaceGone PROVE NoStuckFinger'
  BY <1>8 DEF SurfaceGone
<1>9. ASSUME TouchRemoved PROVE NoStuckFinger'
  BY <1>9 DEF TouchRemoved
<1> QED
  BY <1>1, <1>2, <1>3, <1>4, <1>5, <1>6, <1>7, <1>8, <1>9 DEF Next, Window, Touch, Seat

LEMMA SeatNext == SeatInv /\ [Next]_vars => SeatInv'
<1> SUFFICES ASSUME SeatInv, [Next]_vars PROVE SeatInv'
  OBVIOUS
<1>1. IsFiniteSet(fingers')
  BY TableFits DEF SeatInv
<1> QED
  BY <1>1, TypesKept, FocusKept, LockKept, EnterKept, FingersKept DEF SeatInv

LEMMA SeatInvariant == Spec => []SeatInv
BY SeatInit, SeatNext, PTL DEF Spec

(* The focus, the mode, the lock, the fingers and the flags keep their       *)
(* types, and the table of fingers never holds more than it has slots.       *)
THEOREM SeatTypeCorrect == Spec => []TypeOK
<1>1. SeatInv => TypeOK
  BY DEF SeatInv
<1> QED
  BY <1>1, SeatInvariant, PTL

(* Destroying a window leaves no pointer-side reference to it.               *)
THEOREM FocusAlwaysLives == Spec => []FocusLives
<1>1. SeatInv => FocusLives
  BY DEF SeatInv
<1> QED
  BY <1>1, SeatInvariant, PTL

(* The lock is held for the window in relative mode and for no other.        *)
THEOREM LockAlwaysFollowsMode == Spec => []LockFollowsMode
<1>1. SeatInv => LockFollowsMode
  BY DEF SeatInv
<1> QED
  BY <1>1, SeatInvariant, PTL

(* While the seat keeps its pointer, MOUSE_ENTER and MOUSE_LEAVE pair up.    *)
THEOREM EnterAlwaysLeaves == Spec => []EnterLeave
<1>1. SeatInv => EnterLeave
  BY DEF SeatInv
<1> QED
  BY <1>1, SeatInvariant, PTL

(* While the seat keeps its touch screen and no finger is canceled without a *)
(* slot, no finger stays down for the application.                           *)
THEOREM FingersNeverStick == Spec => []NoStuckFinger
<1>1. SeatInv => NoStuckFinger
  BY DEF SeatInv
<1> QED
  BY <1>1, SeatInvariant, PTL

(* A lock the compositor took back is asked for again on the next enter.     *)
THEOREM AlwaysRearmed == Spec => RearmedOnEnter
<1>1. ASSUME SeatInv, NEW w \in Windows, PointerEnter(w), relative_mode_window = w
      PROVE  locked_pointer' # "none"
  <2>1. constraints /\ pointer
    BY <1>1, SeatAssumption DEF SeatInv, Granted, PointerEnter
  <2> QED
    BY <1>1, <2>1 DEF PointerEnter, Rearm, ArmLock, CanArm, lockVars
<1>2. SeatInv /\ [Next]_vars
      => [\A w \in Windows :
            PointerEnter(w) /\ relative_mode_window = w => locked_pointer' # "none"]_vars
  BY <1>1
<1> QED
  BY <1>2, SeatInvariant, PTL DEF Spec, RearmedOnEnter

\* The table of fingers, the flags and the focus are always of live windows.
THEOREM FocusAlwaysSound == Spec => []FocusSound
<1>1. TypeOK /\ FocusLives => FocusSound
  BY DEF FocusSound
<1>2. QED
  BY <1>1, SeatTypeCorrect, FocusAlwaysLives, PTL
=============================================================================
