SPECIFICATION FairSpec
CONSTANTS
  Depth = 2
  Block = 2
  Interleave = 1
  SeqHalf = 16
  Seq0 = 30
  PubKinds = {"plain"}
  WaitKinds = {"plain"}
  Recoveries = {"found"}
  PollMax = 2
  Fields <- MCFields
  SseFields = {}
  MaxPub = 4
  RxCnt = 1
  Configs <- MCConfigs
  Unstable = {0}
  Watchers = {}
  DataSlots = 3
INVARIANT KeptForReceivers
PROPERTY ImplementsReliableStream
PROPERTY AllDelivered
