\* What is logged of a batch that was not accepted.
CONSTANTS
  short = short
  long = long
  east = east
  None = None
  Torn = Torn
  Events <- MCEvents
  Regions <- MCRegions
  RegionOf <- MCRegionOf
  RecSize <- MCRecSize
  Left <- MCLeft
  Fails = {}
  maxCount = 3
  maxBytes = 2
  Stops = TRUE
  ParentCancels = TRUE
SPECIFICATION Spec
INVARIANTS
  FlushErrorsLogged
CHECK_DEADLOCK FALSE
