\* Two packets in progress at once, two scrapes, and an endpoint
\* with two requests that is started again after its first drop.
SPECIFICATION MetricsSpec
CONSTANTS
  Null = Null
  Unset = Unset
  w1 = w1
  agg = agg
  serve = serve
  h1 = h1
  h2 = h2
  ServeThread = serve
  HostThreads = {h1, h2}
  Workers = {w1}
  Aggregator = agg
  Messages <- MCMessages
  Flushes <- MCFlushes
  ZeroTimeNanos <- MCZeroTimeNanos
  CounterMod = 64
  MaxPackets = 2
  MaxScrapes = 2
  MaxRequests = 2
  MaxServes = 2
INVARIANTS
  EndpointClosedAfterDrop
  AtMostOneLateAnswer
  TotalsAddUp
PROPERTIES
  DropReturns
  CountersNeverFall
  NextScrapeHasTheMessages
\* When every packet and every request is spent nothing is left to do.
CHECK_DEADLOCK FALSE
