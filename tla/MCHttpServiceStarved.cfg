\* Requests made before the service is in the tree.
SPECIFICATION Spec
CONSTANTS
  MaxActive = 2
  MaxIdle = 1
  MaxQueued = 2
  MaxBuffered = 3
  MaxRedirects = 1
  Specs <- UploadSpecs
  MaxRequests = 2
  MaxDepth = 1
PROPERTIES
  EveryRequestEnds
CHECK_DEADLOCK FALSE
