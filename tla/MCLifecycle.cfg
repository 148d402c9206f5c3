\* One llingr_run, as the documentation has it, against two stop() callers,
\* a handler that may call stop(), and one emergency request.
SPECIFICATION Spec
CONSTANTS
  r1 = r1
  s1 = s1
  s2 = s2
  e1 = e1
  handler = handler
  Runners = {r1}
  Stoppers = {s1, s2}
  Requesters = {e1}
  HostHandler = handler
INVARIANTS
  FinalCommitNotCut
  ShutdownsBoundedByRuns
  ReentrantStopSkipsShutdown
  RunReturnIsLast
PROPERTIES
  StopDuringRunNotLost
  ParkedRunReturns
  ContextReleased
\* Every call may have returned, or the host may never stop a running engine.
CHECK_DEADLOCK FALSE
