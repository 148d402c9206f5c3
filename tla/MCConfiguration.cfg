\* Three setters, and Options handed over once or twice.  Durations of 7 bits,
\* a millisecond of 4 units; two optional settings, so that one may hide,
\* replace or contradict the other.
SPECIFICATION MCSpec
CONSTANTS
  ToLower <- MCToLower
  ToUpper <- MCToUpper
  TrimSpace <- MCTrimSpace
  None = None
  Pairs <- MCPairs
  Files <- MCFiles
  MaxCalls = 3
  MaxLayers = 2
  Null = Null
  Documents <- MCDocuments
  Texts <- MCTexts
  HostPairs <- MCHostPairs
  Durations <- MCDurations
  Counts <- MCCounts
  MaxSettings = 2
  Millisecond = 4
  Int64 = 64
  Int32 = 64
  MinBail = 8
  MaxBail = 40
  MaxBackoff = 12
  MinStats = 2
  MaxStats = 20
  DefaultDrain = 12
  DefaultRebalance = 24
  MaxDrain = 28
INVARIANTS
  LastWriteWins
  CredentialsAllUsed
  TlsNotDowngraded
  TypedSettersAccepted
  HostIsUnderstood
  DrainFitsRebalance
  NothingIgnored
  BridgeRefusesUnfetched
\* build() is the last call, and llingr_init runs once.
CHECK_DEADLOCK FALSE
