\* evaluate() and load_segment() across reloads, alerts, input, storage.
SPECIFICATION Spec
CONSTANTS
  home = home
  shop = shop
  Code = Code
  Segments = {home, shop}
  Startup <- OneStartup
  MaxGenerations = 2
  MaxEvaluations = 2
  MaxDeferred = 1
  Requests = {a1}
  Tags = 2
  Runtimes = 2
  MaxPending = 1
  MaxCalls = 2
  Listeners = {"a", "b"}
  Captures = {"c", "d"}
  MaxInputTasks = 2
  MaxEvents = 5
  Keys = {k1, k2}
  MaxAccesses = 3
  MaxCrashes = 1
INVARIANTS
  SegmentsRunInOrder
  EveryAlertIsHeld
  CapturesAreSettled
  ReleaseIsTold
  AcknowledgedWritesSurvive
PROPERTIES
  EndsOnce
  EveryEvaluationEnds
  AnsweredByItsOwner
CHECK_DEADLOCK FALSE
