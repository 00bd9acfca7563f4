\* The channel holds one item, a batch two items or three bytes.
CONSTANTS
  p1 = p1
  p2 = p2
  small = small
  medium = medium
  large = large
  bad = bad
  None = None
  Producers <- MCProducers
  Items <- MCItems
  Mappable <- MCMappable
  Size <- MCSize
  ChannelCapacity = 1
  MaxBatchSize = 2
  MaxBatchBytes = 3
  FlushInterval = 1
SPECIFICATION LiveSpec
INVARIANTS
  TypeOK
  FlushBounds
  InOrderOnce
  Accounted
PROPERTIES
  StreamSpec
  AddedIsHanded
  LoopEnds
CHECK_DEADLOCK FALSE
