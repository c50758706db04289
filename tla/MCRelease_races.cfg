SPECIFICATION Spec
CONSTANTS
  MaxRelease = 2
  Batches = 1
  RolloutWatched = TRUE
  h1 = h1
  h2 = h2
  Handlers <- TwoHandlers
  MaxRequests = 3
  Ops = {"trigger", "approve", "reject", "abort", "pause", "resume"}
  Plans = {"rolling", "external"}
  Autos = {FALSE}
  Gates = {TRUE, FALSE}
  MayCrash = TRUE
INVARIANTS
  LockInv
  
  UnapprovedNeverRuns
PROPERTIES
  StaysExclusive
  ImplementsApprovals
SYMMETRY Symmetry
