SPECIFICATION Spec
CONSTANTS
  Devices = {kbd, mouse}
  MaxEvents = 2
  SdlRingSize = 2
  PollRingSize = 1
  ReadSize = 2
  QueueSize = 1
  Control = Control
CHECK_DEADLOCK FALSE
INVARIANTS
  InOrder
  LossesCounted
  NoUseAfterClose
