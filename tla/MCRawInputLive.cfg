SPECIFICATION Spec
CONSTANTS
  Devices = {kbd}
  MaxEvents = 3
  SdlRingSize = 2
  PollRingSize = 1
  ReadSize = 2
  QueueSize = 1
  Control = Control
PROPERTIES
  BlockedSeesInput
  QuitTerminates
CHECK_DEADLOCK FALSE
