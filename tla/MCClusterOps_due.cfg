SPECIFICATION Spec
CONSTANTS
  p1 = p1
  p2 = p2
  Process <- TwoProcesses
  MaxOp = 1
  MaxCancel = 2
  MaxCrash = 2
INVARIANTS
  
  OncePerWorker
PROPERTIES
  DueIsTaken
CHECK_DEADLOCK FALSE
