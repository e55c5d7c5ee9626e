\* A Blob that JavaScript closes before the socket has read it.
SPECIFICATION SocketsSpec
CONSTANTS
  Sockets = {1}
  Blobs = {1, 2}
  MaxBlobs = 1
  MaxPeers = 1
  MaxPackets = 1
  MaxCalls = 1
INVARIANTS
  FailedSocketIsReleased
CHECK_DEADLOCK FALSE
