SPECIFICATION Spec
CONSTANTS
  small = small
  large = large
  Width <- MCWidth
  Outside = 2
  MaxUnread = 1
  RingSize = 1
  WireSize = 2
  AxisPerTurn = 10
  Value120 = FALSE
  HiRes = FALSE
  None = None
INVARIANTS
  PositionInside
  ToldOnce
  Follows
