SPECIFICATION Spec

CONSTANTS
  MaxNodes = 5
  MaxDevices = 3
  cb1 = cb1
  cb2 = cb2
  Callbacks = {cb1, cb2}
  MaxCallbacks = 3
  MaxSets = 6
  MaxLost = 2
  Control = Control
  KeyMax = 7
  Evdev <- MCEvdev
  Layouts <- MCLayouts
  Default = "us"
  TableSize = 16
  MaxPinned = 3
  f1 = f1
  f2 = f2
  Frames = {f1, f2}
  MaxOutputs = 2
  MaxNames = 4
  Scales = {1, 2}
  MaxIds = 6
  MaxWindows = 3
  MaxQuits = 1
  QueueSize = 2
  Extents = {0, 1}
  UserTypes = 3
  Formats = {"ARGB8888", "XRGB8888", "RGBA8888", "ABGR8888", "RGB24", "BGR24", "RGB565", "INDEX8"}
  Widths = {1, 2, 9}
  Heights = {1, 2}
  Pads = {0, 2, 4}
  Corners <- MCCorners
  Edges <- MCEdges
  c1 = c1
  c2 = c2
  Colors = {c1, c2}
  IntMax = 15
  SizeMax = 63
SYMMETRY MCSymmetry
INVARIANTS
  WindowsAccounted
  EventsTellState
  SurfacesSound
  DevicesAccounted
  CallbacksSafe
  KeymapSound
  OpenWhileUsed
  RegistryTold
