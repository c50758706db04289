SPECIFICATION Spec
CONSTANTS
  p1 = p1
  p2 = p2
  Process <- OneProcess
  MaxBuild = 2
  MaxRequest = 3
  MaxAttempt = 2
  MaxImage = 1
  MaxCrash = 0
  Ops = {"trigger", "cancel", "rebuild"}
  Engines = {"jenkins", "tekton"}
INVARIANTS
  RunTracked
  SuccessEarned
  QueuedIsLost
PROPERTIES
  SettledStays
CHECK_DEADLOCK FALSE
