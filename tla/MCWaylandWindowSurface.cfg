SPECIFICATION WindowSpec
CONSTANTS
  Sizes = {1, 2}
  MaxRequests = 2
  MaxEvents = 4
  NoBuffer = NoBuffer
  NoSurface = NoSurface
INVARIANT
  SurfaceIsBuffer
