\* Roots of any game, in the editor.
SPECIFICATION Spec
CONSTANTS
  left = left
  right = right
  Roots = {left, right}
  Editor = TRUE
  Careful = FALSE
  MaxGenerations = 2
  MaxSurfaces = 3
  MaxDeferred = 2
INVARIANTS
  NoRootWaits
PROPERTIES
  EnteredRootStarts
