SPECIFICATION RingSpec
CONSTANTS
  Capacity = 2
  Value = {a, b}
  NoValue = NoValue
  MaxPush = 5
CHECK_DEADLOCK FALSE
INVARIANTS
  RingSafe
PROPERTY
  ImplementsFifo
