SPECIFICATION FairSpec
CONSTANTS
  w1 = w1
  w2 = w2
  r1 = r1
  Workers = {w1, w2}
  Requests = {r1}
  ForceId = ForceId
  None = None
  Late = {w2}
  MaxRestarts = 2
  MaxLines = 1
PROPERTIES SlotFreed OutcomeRecorded
CHECK_DEADLOCK FALSE
