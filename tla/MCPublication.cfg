\* Two threads building three times in all, and two goroutines of the engine.
SPECIFICATION Spec
CONSTANTS
  b1 = b1
  b2 = b2
  g1 = g1
  g2 = g2
  None = None
  Builders = {b1, b2}
  Goroutines = {g1, g2}
  MaxBuilds = 3
INVARIANTS
  NoUseAfterFree
  EngineHasItsHandlers
  RetryStartsClean
  BuildLogsReachOwnHandlers
  ConfiguredMetricsAreCollected
\* After the last build() there may be nothing left to do.
CHECK_DEADLOCK FALSE
