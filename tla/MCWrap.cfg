\* A duration beyond int64.
SPECIFICATION Spec
CONSTANTS
  ToLower <- MCToLower
  ToUpper <- MCToUpper
  TrimSpace <- MCTrimSpace
  Documents <- MCDocuments
  Millisecond = 4
  Int64 = 64
  Int32 = 64
  MinBail = 8
  MaxBail = 40
  MaxBackoff = 12
  MinStats = 2
  MaxStats = 20
  DefaultDrain = 12
  DefaultRebalance = 24
  MaxDrain = 28
INVARIANTS
  ValueKeepsMeaning
CHECK_DEADLOCK FALSE
