SPECIFICATION Spec
CONSTANTS
  p1 = p1
  p2 = p2
  Process <- TwoProcesses
  MaxBuild = 1
  MaxRequest = 2
  MaxAttempt = 1
  MaxImage = 1
  MaxCrash = 1
  Ops = {"trigger", "cancel", "rebuild", "edit", "delete", "image"}
  Engines = {"jenkins"}
INVARIANTS
  ImageIsOwn

  
CHECK_DEADLOCK FALSE
