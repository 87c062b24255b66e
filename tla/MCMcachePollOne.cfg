SPECIFICATION FairSpec
CONSTANTS
  Depth = 2
  Block = 2
  Interleave = 1
  SeqHalf = 16
  Seq0 = 30
  MaxPub = 3
  PubKinds = {"plain", "sse"}
  WaitKinds = {"plain", "sse"}
  Recoveries = {"found"}
  PollMax = 1
  Consumers = {c1}
  c1 = c1
  Fields <- MCFewFields
  SseFields <- MCSseFields
PROPERTY CatchUp
