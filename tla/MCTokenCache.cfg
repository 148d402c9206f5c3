\* Two handshakes, and time for a token to be fetched, served and replaced.
SPECIFICATION Spec
CONSTANTS
  h1 = h1
  h2 = h2
  None = None
  Handshakes = {h1, h2}
  Lifetimes <- MCLifetimes
  Leeway = 3
  FetchTimeout = 2
  DurationLimit = 16
  MaxTime = 12
INVARIANTS
  ServedTokenIsLive
PROPERTIES
  HandshakeReturns
