SPECIFICATION Spec
CONSTANTS
  Depth = 2
  Block = 2
  Interleave = 1
  SeqHalf = 16
  Seq0 = 30
  PubKinds = {"plain", "sse"}
  WaitKinds = {"plain", "sse"}
  Recoveries = {"found", "seq0"}
  PollMax = 2
  Fields <- MCFields
  SseFields = {}
  MaxPub = 4
  RxCnt = 0
  Configs <- MCConfigs
  Unstable = {}
  Watchers = {1}
  DataSlots = 3
INVARIANT PayloadIntact
