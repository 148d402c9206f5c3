\* One run(), one stop(), one emergency_stop().
SPECIFICATION Spec
CONSTANTS
  r1 = r1
  s1 = s1
  e1 = e1
  handler = handler
  Runners = {r1}
  Stoppers = {s1}
  Requesters = {e1}
  HostHandler = handler
PROPERTIES
  StopAfterNoticeIsNoOp
CHECK_DEADLOCK FALSE
