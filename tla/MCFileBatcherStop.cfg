\* maxBytes = 2: the long event overflows a file that holds the short one.
CONSTANTS
  short = short
  long = long
  east = east
  None = None
  Torn = Torn
  Events <- MCEvents
  Regions <- MCRegions
  RegionOf <- MCRegionOf
  RecSize <- MCRecSize
  Left <- MCLeft
  Fails = {"open", "write", "read"}
  maxCount = 3
  maxBytes = 2
  Stops = TRUE
  ParentCancels = TRUE
SPECIFICATION Spec
INVARIANTS
  TypeOK
  LossExplained
  StopEmpties
CHECK_DEADLOCK FALSE
