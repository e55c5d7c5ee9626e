\* A press that no root's content took, with one listener.
SPECIFICATION InputSpec
CONSTANTS
  Listeners = {"a"}
  Captures = {"c"}
  MaxInputTasks = 2
  MaxEvents = 3
INVARIANTS
  UnhandledPressesArrive
CHECK_DEADLOCK FALSE
