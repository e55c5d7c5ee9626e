\* A reload between the restart and the registration of a root.
SPECIFICATION SafetySpec
CONSTANTS
  left = left
  right = right
  Roots = {left, right}
  Editor = FALSE
  Careful = FALSE
  MaxGenerations = 3
  MaxSurfaces = 4
  MaxDeferred = 2
INVARIANTS
  EverySurfaceIsServed
