\* What the extension drains at shutdown.
CONSTANTS
  good = good
  stray = stray
  bad = bad
  east = east
  west = west
  Messages <- MCMessages
  Malformed <- MCMalformed
  Regions <- MCRegions
  RegionOf <- MCRegionOf
  GroupOf <- MCGroupOf
  Arrival <- MCArrival
  Configured <- MCConfigured
  BatchSize = 2
  MaxResets = 1
SPECIFICATION Spec
INVARIANTS
  DrainOnShutdown
CHECK_DEADLOCK FALSE
