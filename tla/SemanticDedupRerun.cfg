SPECIFICATION Spec
CONSTANTS
  N = 3
  MaxClusters = 1
  MaxActors = 2
  MaxRuns = 2
  SameConfig = FALSE
INVARIANTS GroupKept
CHECK_DEADLOCK FALSE
