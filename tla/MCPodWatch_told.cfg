SPECIFICATION Spec
CONSTANTS
  web = web
  Pod <- OnePod
  NamespaceOf <- InDefault
  NameOf <- NamedWeb
  Reason = {"ContainerNotReady"}
  MaxChange = 4
  MaxEvent = 1
  MaxFail = 1
  MaxCrash = 1
INVARIANTS
  
  CooldownEnds
PROPERTIES
  Announced
  Converges
CHECK_DEADLOCK FALSE
