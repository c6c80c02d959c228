SPECIFICATION StageSpec
CONSTANTS
  Clips = {c1, c2}
  N = 3
  MaxLimit = 2
  MaxFrames = 7
  MaxImageRuns = 2
  Half = 1
  WINDOW_MIN_FRAMES = 4
  CutOptions <- AllCuts
  Setups <- AllSetups
  Options <- AllOptions
  ListedClips = {1, 2, 3}
  SourceOf <- SourceOfAll
  CaptionWindows = {1, 2}
  OutputPairs <- AllPairs
  Comparisons <- AllComparisons
  Near = 1
  Slack = 2
  Groups <- AllGroups
  Grids <- AllGrids
  Policies <- AllPolicies
SYMMETRY Symmetry
INVARIANTS FlowSound CaptionsInPlace CutsSound SamplesAligned ImagesSound ComparisonSound
PROPERTIES KeepsPromise
CHECK_DEADLOCK FALSE
