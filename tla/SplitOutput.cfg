SPECIFICATION FairOutput
CONSTANTS
  video = video
  chunk0 = chunk0
  chunk1 = chunk1
  Annotators = {w1, w2}
  Sources <- AllSources
  Spans <- AllSpans
  Configs <- AllAnnotators
  WindowSize = 3
  WindowStride = 2
  MinFrames = 2
  MaxRuns = 2
  MaxTasks = 3
  Videos <- OneVideo
  Chunks <- TwoChunks
  VideoOf <- Owner
  First <- FirstChunks
  MaxAttempts = 2
  MaxTrouble = 2
INVARIANTS MarkedAfterClips DatasetComplete AnnotationSound
PROPERTIES ArchivedNotAppended EventuallyProcessed
CHECK_DEADLOCK FALSE
