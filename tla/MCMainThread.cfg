\* The queue serves its callers and implements SyncCalls; a runtime with two surfaces is
\* torn down whatever JavaScript does.
SPECIFICATION PartsSpec
CONSTANTS
  Callers = {js, net}
  Main = main
  MaxCalls <- TwoCalls
  Surfaces <- TwoSurfaces
  MaxTimers = 3
  MaxStorageCalls = 3
  MaxChain = 2
INVARIANTS
  TypeOK
  BlockedCallIsHeld
  RunsInOrder
  InterruptEndsWithItsWait
PROPERTIES
  SyncWorkOnlyWhileBlocked
  ImplementsSyncCalls
  BlockedCallReturns
  CleanupsAreDone
  QuitReturns
CHECK_DEADLOCK FALSE
