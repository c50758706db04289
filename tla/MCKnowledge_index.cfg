SPECIFICATION Spec
CONSTANTS
  t1 = t1
  t2 = t2
  t3 = t3
  Thread <- ThreeThreads
  Parts = 2
  MaxText = 3
  MaxCrash = 1
INVARIANTS
  Whole
  IndexIsFresh
  OneText
PROPERTIES
  Indexed
CHECK_DEADLOCK FALSE
