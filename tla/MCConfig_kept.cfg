SPECIFICATION Spec
CONSTANTS
  h1 = h1
  h2 = h2
  s1 = s1
  g1 = g1
  None = None
  Handler <- TwoHandlers
  Set <- OneSet
  Group <- OneGroup
  MaxContent = 2
  MaxRequest = 4
  Ops = {"create", "update", "remove", "bind", "unbind", "upsert", "clear"}

  
  
PROPERTIES
  
  RemoveKeeps
SYMMETRY Symmetry
CHECK_DEADLOCK FALSE
