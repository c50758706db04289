SPECIFICATION FairSpec
CONSTANTS
  MaxRelease = 3
  Batches = 2
  RolloutWatched = TRUE
  h1 = h1
  h2 = h2
  Handlers <- TwoHandlers
  MaxRequests = 2
  Ops = {"trigger", "abort", "rollback"}
  Plans = {"rolling", "candidate"}
  Autos = {TRUE}
  Gates = {FALSE}
  MayCrash = FALSE
INVARIANTS
  OneLateWrite
  RollsBackSettled
PROPERTIES
  ImplementsLifecycle
  
