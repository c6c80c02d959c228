SPECIFICATION Spec
CONSTANTS
  w1 = w1
  w2 = w2
  r1 = r1
  r2 = r2
  Workers = {w1, w2}
  Requests = {r1, r2}
  ForceId = ForceId
  None = None
  Late = {}
  MaxRestarts = 0
  MaxLines = 1
SYMMETRY Symmetry
INVARIANTS OneActivePipeline LogComplete
PROPERTIES FailedSticks ImplementsSlot
CHECK_DEADLOCK FALSE
