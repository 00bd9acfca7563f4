\* maxCount = 2: a file can pass the threshold while counters are reset.
CONSTANTS
  e1 = e1
  e2 = e2
  e3 = e3
  east = east
  None = None
  Torn = Torn
  Events <- MCEvents
  Regions <- MCRegions
  RegionOf <- MCRegionOf
  RecSize <- MCRecSize
  Left <- MCLeft
  Fails = {"open", "truncate"}
  maxCount = 2
  maxBytes = 0
  Stops = FALSE
  ParentCancels = FALSE
SPECIFICATION LiveSpec
INVARIANTS
  BatchSlack
PROPERTIES
  StoredIsFlushed
CHECK_DEADLOCK FALSE
