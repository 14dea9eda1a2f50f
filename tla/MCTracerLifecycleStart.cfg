SPECIFICATION Spec
CONSTANTS
  Tracers = {A, B}
  Workers = {w1, w2}
  MaxFilters = 2
  Attempts = 3
  None = None
CHECK_DEADLOCK FALSE
INVARIANTS StartedMeansServed
