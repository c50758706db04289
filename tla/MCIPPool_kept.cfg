SPECIFICATION Spec
CONSTANTS
  g1 = g1
  g2 = g2
  c1 = c1
  k1 = k1
  Nobody = Nobody
  Group <- OneGroup
  Address = {1, 2}
  Span <- TwoAddresses
  TakeFrom <- OnlyPool
  ReleaseFrom <- OnlyPool
  Replicas = {1, 3}
  Caller <- OneCaller
  Pod = {}
  ListMayFail = FALSE
  MaxIndex = 2
INVARIANTS
  ReturnedAreKept
CHECK_DEADLOCK FALSE
