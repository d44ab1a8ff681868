SPECIFICATION Spec
CONSTANTS
  Windows = {w1, w2}
  Contexts = {c1, c2}
  Sizes = {1, 2}
  Intervals = {1}
  MaxSessions = 2
  MaxLoads = 1
  Careful = TRUE
  None = None
  Gone = Gone
SYMMETRY Symmetry
INVARIANTS
  NoFault
  DrawnAsTold
  EglWindowFits
  IntervalApplied
