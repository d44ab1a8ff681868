SPECIFICATION Spec
CONSTANTS
  lshift = lshift
  rshift = rshift
  a = a
  shift = shift
  Keys <- MCKeys
  Repeating = {a}
  Group <- MCGroup
  Alt = Alt
  RingSize = 2
  WireSize = 4
  NoKey = NoKey
INVARIANTS
  DownAsTold
  NoStuckKey
  ModsTrackSeat
SYMMETRY Shifts
