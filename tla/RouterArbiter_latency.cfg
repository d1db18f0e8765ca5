CONSTANTS
  N = 4
  Fed = {0, 1}
  Watched = 1
  MaxWait = 70
  MaxSkips = 5
SPECIFICATION Spec
INVARIANT InLatency
