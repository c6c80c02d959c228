SPECIFICATION TransferSpec
CONSTANTS
  d = d
  peer = peer
  small1 = small1
  large1 = large1
  small2 = small2
  large2 = large2
  None = None
  Nodes <- TwoNodes
  Driver = d
  Files <- FourFiles
  HomeOf <- Homes
  Large <- LargeFiles
  Chunk = 2
  MaxParts = 3
  MaxTries = 2
  Models = {m1, m2}
  MaxPipelines = 2
INVARIANTS Accounted StrictDelivers RetryPossible UploadSound WeightsInPlace
PROPERTIES CollectedOnce CallReturns
CHECK_DEADLOCK FALSE
