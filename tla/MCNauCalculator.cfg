\* Pages of one item, unpaginated calls of one, and two changes.
CONSTANTS
  Inventory <- MCInventory
  Initially <- MCInitially
  PageSize = 1
  OneShot = 1
  MaxChanges = 2
SPECIFICATION Spec
INVARIANTS
  TypeOK
  EveryVpcCounted
CHECK_DEADLOCK FALSE
