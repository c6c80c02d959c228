SPECIFICATION FairSpec
CONSTANTS
  wm = wm
  wa = wa
  wb = wb
  wt = wt
  Windows <- AllWindows
  Missing <- MissingOnes
  TwoStage <- TwoStageOnes
  Permits = 2
  Others = 1
  MaxRetries = 2
INVARIANTS NoLeak Accounted
PROPERTIES ImplementsBatch BatchEnds
CHECK_DEADLOCK FALSE
