SPECIFICATION FairSpec
CONSTANTS
  small = small
  medium = medium
  whole = whole
  stream1 = stream1
  stream2 = stream2
  huge = huge
  Callers <- MCCallers
  Bytes <- MCBytes
  IsStream <- MCIsStream
  MaxPayloadBytes = 3
  MaxSinglePayloadBytes = 3
  MaxHeldStreams = 1
  MaxQueueDepth = 3
INVARIANTS
  TypeOK
  LedgerConserved
  WithinBudget
  HeadIsBlocked
PROPERTIES
  NoOvertaking
  WaitersServed
