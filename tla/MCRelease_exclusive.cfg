SPECIFICATION Spec
CONSTANTS
  MaxRelease = 2
  Batches = 1
  RolloutWatched = TRUE
  h1 = h1
  h2 = h2
  Handlers <- TwoHandlers
  MaxRequests = 2
  Ops = {"trigger"}
  Plans = {"rolling"}
  Autos = {FALSE}
  Gates = {FALSE}
  MayCrash = FALSE
INVARIANTS
  OneActiveRelease
