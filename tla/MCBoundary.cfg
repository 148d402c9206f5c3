\* The error buffer holds four bytes, so that characters straddle its end;
\* trait bits are of four.
SPECIFICATION NoticesSpec
CONSTANTS
  Null = Null
  ErrBufCap = 4
  Records <- MCRecords
  Texts <- MCTexts
  Packets <- MCPackets
  Flushes <- MCFlushes
  Lines <- MCLines
  Reasons <- Strings
  Snapshots <- MCSnapshots
  KnownFields <- MCKnownFields
  TopicName <- MCTopicName
  UInt64 = 16
INVARIANTS
  HandlerSeesRecord
  ArenaHoldsHeaders
  TextCutAtRune
  HostIsTold
\* A call that returned has finished its crossing.
CHECK_DEADLOCK FALSE
