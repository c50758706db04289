SPECIFICATION Spec
CONSTANTS
  g1 = g1
  g2 = g2
  c1 = c1
  k1 = k1
  Nobody = Nobody
  Group <- TwoGroups
  Address = {1, 2, 3}
  Span <- Overlapping
  TakeFrom <- BothPools
  ReleaseFrom <- BothPools
  Replicas = {1, 2}
  Caller <- OneCaller
  Pod <- OnePod
  ListMayFail = TRUE
  MaxIndex = 2
INVARIANTS
  LockInv
  LeaseBacked
  CountMatches
  
PROPERTIES
  ImplementsOwnership
CHECK_DEADLOCK FALSE
