SPECIFICATION Spec
CONSTANTS
  Codes <- MCCodes
  w1 = w1
  w2 = w2
  NoWindow = NoWindow
  Windows = {w1, w2}
  SelectorSlots = 2
  MaxCanvas = 2
  Size = 2
  p1 = p1
  p2 = p2
  NoPane = NoPane
  PageCanvas = PageCanvas
  Panes = {p1, p2}
  Sides = {1, 2, 3}
  SizeMax = 31
  MaxContexts = 2
SYMMETRY MCSymmetry
INVARIANTS
  KeysAccounted
  KeysMean
  PointerSound
  GraphicsAgree
