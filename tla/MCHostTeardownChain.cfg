\* A storage call that the result of another one makes.
SPECIFICATION TeardownSpec
CONSTANTS
  Surfaces <- TwoSurfaces
  MaxTimers = 2
  MaxStorageCalls = 1
  MaxChain = 1
PROPERTIES
  StorageCallsFinish
CHECK_DEADLOCK FALSE
