SPECIFICATION Spec
CONSTANTS
  Depth = 4
  Block = 4
  Interleave = 2
  SeqHalf = 16
  Seq0 = 30
  MaxPub = 9
  PubKinds = {"avx"}
  WaitKinds = {"avx", "sse"}
  Recoveries = {"found"}
  PollMax = 2
  Consumers = {c1}
  c1 = c1
  Fields <- MCFewFields
  SseFields <- MCSseFields
INVARIANT AvxMetaIsFound
PROPERTY ImplementsFragStream
