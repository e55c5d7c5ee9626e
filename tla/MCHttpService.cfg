\* The pool, the queue and the budget, with servers that may stay silent.
SPECIFICATION SilentSpec
CONSTANTS
  MaxActive = 2
  MaxIdle = 1
  MaxQueued = 2
  MaxBuffered = 4
  MaxRedirects = 1
  Specs <- UniformSpecs
  MaxRequests = 3
  MaxDepth = 1
INVARIANTS
  BudgetIsExact
  RequestIsHeldOnce
PROPERTIES
  ResponseIsOwn
  EndsOnce
  RequestsEnd
CHECK_DEADLOCK FALSE
