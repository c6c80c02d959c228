SPECIFICATION Spec
CONSTANTS
  MaxEngines = 3
  MaxAttempts = 3
  MaxDeaths = 2
  MaxCalls = 2
INVARIANTS RetryOnNewEngine
CHECK_DEADLOCK FALSE
