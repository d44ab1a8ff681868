SPECIFICATION Spec
CONSTANTS
  Size = 3
  Width = 6
  TextSize = 2
  TextInput = 2
  OtherTypes = {1}
  Strings = {0, 2}
  Null = Null
  Nothing = Nothing
INVARIANTS
  QueueInv
  OwnTextIntact
PROPERTIES
  ImplementsEventFifo
CHECK_DEADLOCK FALSE
