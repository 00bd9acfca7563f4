\* Batches of two, and one crash at any moment.
CONSTANTS
  good = good
  stray = stray
  bad = bad
  east = east
  west = west
  Messages <- MCMessages
  Malformed <- MCMalformed
  Regions <- MCRegions
  RegionOf <- MCRegionOf
  GroupOf <- MCGroupOf
  Arrival <- MCArrival
  Configured <- MCConfigured
  BatchSize = 2
  MaxResets = 1
SPECIFICATION LiveSpec
INVARIANTS
  TypeOK
  AckedIsStored
  DeliveredBound
  TickCoversFiles
PROPERTIES
  WellFormedAcked
CHECK_DEADLOCK FALSE
