\* The level is INFO, as the first call of Init says.
CONSTANTS
  nau = nau
  failing = failing
  Goroutines <- MCGoroutines
  Calls <- MCCalls
  InitCalls <- MCInitCalls
SPECIFICATION Spec
INVARIANTS
  ErrorsMarked
CHECK_DEADLOCK FALSE
