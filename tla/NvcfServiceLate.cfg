SPECIFICATION Spec
CONSTANTS
  w1 = w1
  w2 = w2
  r1 = r1
  r2 = r2
  Workers = {w1, w2}
  Requests = {r1, r2}
  ForceId = ForceId
  None = None
  Late = {w2}
  MaxRestarts = 0
  MaxLines = 0
INVARIANT OneActivePipeline
CHECK_DEADLOCK FALSE
