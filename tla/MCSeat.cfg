SPECIFICATION Spec
CONSTANTS
  Windows = {w1, w2}
  Fingers = {f1, f2, f3}
  Slots = 2
  None = None
  Gone = Gone
SYMMETRY Symmetry
INVARIANTS
  FocusSound
  LockFollowsMode
  EnterLeave
  NoStuckFinger
PROPERTY
  RearmedOnEnter
