SPECIFICATION FairSpec
CONSTANTS
  MaxTarget = 2
  Batches = 2
  Strategies <- AllStrategies
  MaxAbort = 2
INVARIANTS
  OneByOne
  SucceededEverywhere
PROPERTIES
  ImplementsLifecycle
  AbortHolds
  
CHECK_DEADLOCK FALSE
