SPECIFICATION Spec
CONSTANTS
  Selectors = {alloc, init, plain}
  Denied = {alloc}
  Wanted = {init}
  Describable = {init}
  Callers = {a, b}
  Limit = 3
  CaptureDepth = 1
  Width = 8
  MaxCalls = 5
  None = None
  Wild = Wild
SYMMETRY Symmetry
CHECK_DEADLOCK FALSE
INVARIANTS TypeOK ReturnsHome DriftExplained
PROPERTIES CacheSpoiltOnlyPastLimit
