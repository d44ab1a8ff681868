SPECIFICATION WindowSpec
CONSTANTS
  Sizes = {1, 2}
  MaxRequests = 2
  MaxEvents = 2
  NoBuffer = NoBuffer
  NoSurface = NoSurface
INVARIANTS
  NoProtocolError
  SizesAgree
PROPERTY
  ShownIsMapped
