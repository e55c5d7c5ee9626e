\* Mounting, sockets and Blobs.
SPECIFICATION Spec
CONSTANTS
  Views = 3
  MaxMutations = 4
  MaxTransactions = 3
  MaxTasks = 2
  Sockets = {1}
  Blobs = {1, 2}
  MaxBlobs = 1
  MaxPeers = 1
  MaxPackets = 1
  MaxCalls = 1
INVARIANTS
  TreeIsTheCommitted
  BlobsAreKept
  ToldInOrder
PROPERTIES
  CommandFindsItsView
  EveryTransactionMounts
  ClosingSocketEnds
CHECK_DEADLOCK FALSE
