SPECIFICATION CaptionSpec
CONSTANTS
  t1 = t1
  t2 = t2
  t3 = t3
  t4 = t4
  None = None
  Tasks <- FourTasks
  Windowless <- NoWindows
  MaxAccept = 1
  N = 3
  MaxLimit = 2
INVARIANTS OneInOneOut OutputIsComplete NoCaptionAfterExit
PROPERTIES Drains CallEnds
CHECK_DEADLOCK FALSE
