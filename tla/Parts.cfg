SPECIFICATION PartSpec
CONSTANTS
  MaxEngines = 3
  MaxAttempts = 2
  MaxDeaths = 2
  MaxCalls = 2
  N = 3
  NumClips = 3
  MaxClusters = 2
  MaxActors = 2
  MaxRuns = 2
  SameConfig = TRUE
  Bins = {"b1", "b2"}
  NoBin = "none"
  Metas <- AllMetas
  Target = 2
  MinClips = 2
  MaxTars = 1
  MaxStarts = 2
  MaxJobs = 2
  MaxFuncs = 2
  RetryCnt = 2
  v1 = v1
  v2 = v2
  RayVideos <- TwoVideos
  Duration <- TwoDurations
  RayJobs <- ThreeJobs
  Outcomes = {"success", "error"}
  BatchSize = 2
INVARIANTS OneOfEach DedupSound ShardsSound BatchSound RayDataSound
PROPERTIES WedgedCallEnds
CHECK_DEADLOCK FALSE
