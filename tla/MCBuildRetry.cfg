\* One thread that builds, fails, and builds again.
SPECIFICATION Spec
CONSTANTS
  b1 = b1
  g1 = g1
  None = None
  Builders = {b1}
  Goroutines = {g1}
  MaxBuilds = 2
INVARIANTS
  CollectedOnlyWhenConfigured
CHECK_DEADLOCK FALSE
