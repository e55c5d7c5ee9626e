\* Roots, surfaces and reloads of a careful game; scene bindings; images; text inputs; touches.
SPECIFICATION RootsSpec
CONSTANTS
  left = left
  right = right
  Roots = {left, right}
  Editor = FALSE
  Careful = TRUE
  MaxGenerations = 4
  MaxSurfaces = 6
  MaxDeferred = 3
  ModuleScopes = {"m"}
  Nodes = {"n"}
  Objects = {"o"}
  MaxHandles = 2
  MaxGameSteps = 4
  Controls = {"a", "b"}
  Local = {"l"}
  Imported = {"i"}
  Shared = {"s"}
  Private = {"p"}
  MaximumBytes = 8
  CacheBytes = 2
  MaxLoads = 3
  Texts = {"x", "y"}
  MaxEdits = 3
  MaxValues = 2
  Plain = {"p"}
  Owning = {"w"}
  Spans = {"t"}
  Paragraph = "p"
  Fingers = {"f", "g"}
  MaxTouches = 3
SYMMETRY Symmetry
INVARIANTS
  EverySurfaceIsServed
  HandlesStayRevoked
  HookShowsTheBinding
  BudgetIsKept
  ShowsWhatItAsked
  InputShowsTheValue
  TouchesEndOnce
CHECK_DEADLOCK FALSE
