SPECIFICATION Spec
CONSTANTS
  Depth = 2
  Block = 2
  Interleave = 1
  SeqHalf = 16
  Seq0 = 30
  MaxPub = 4
  PubKinds = {"plain", "sse"}
  WaitKinds = {"plain", "sse"}
  Recoveries = {"found"}
  PollMax = 2
  Consumers = {c1}
  c1 = c1
  Fields <- MCFields
  SseFields <- MCSseFields
INVARIANT TypeOK
INVARIANT ReceivedIntact
INVARIANT QueryTellsWhere
INVARIANT FoundIsLowerBound
INVARIANT NeverAhead
PROPERTY SeqNeverMovesBack
PROPERTY ImplementsFragStream
