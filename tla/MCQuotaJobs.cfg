\* Three resources of each kind, in pages of up to two.
CONSTANTS
  usEast1 = usEast1
  euWest1 = euWest1
  vpc1 = vpc1
  vpc2 = vpc2
  UsEast1 <- MCUsEast1
  VpcIds <- MCVpcIds
  Configs <- MCConfigs
  Have = 3
  PageSize = 2
SPECIFICATION Spec
INVARIANTS
  TypeOK
  MeasuredAsConfigured
  CompleteCounts
CHECK_DEADLOCK FALSE
