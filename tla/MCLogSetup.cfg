\* Listings of up to two pages, and one restart of each process.
CONSTANTS
  function = function
  extension = extension
  east = east
  west = west
  Procs <- MCProcs
  Extensions <- MCExtensions
  HasEnv <- MCHasEnv
  RegionList <- MCRegionList
  MaxPages = 2
  MaxRestarts = 1
SPECIFICATION LiveSpec
INVARIANTS
  TypeOK
  StreamsReady
  FailsOnlyIfAborted
PROPERTIES
  SetupEnds
CHECK_DEADLOCK FALSE
