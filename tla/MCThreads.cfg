SPECIFICATION MCSpec
CONSTANTS
  Depth = 2
  Block = 2
  Interleave = 1
  SeqHalf = 16
  Seq0 = 30
  MaxPub = 3
  PubKinds = {"plain", "sse"}
  WaitKinds = {"plain", "sse"}
  Recoveries = {"found", "seq0"}
  PollMax = 2
  Consumers = {c1}
  c1 = c1
  Fields <- MCFewFields
  SseFields <- MCSseFields
  Threads = {t1, t2, t3}
  t1 = t1
  t2 = t2
  t3 = t3
  Wrap = 2
  OnceBlocks = {"outer", "inner"}
  ThreadBlocks = {"mine"}
  Nested <- MCNested
  Roots = {"outer", "inner", "mine"}
  Styles = {0, 1}
  Spare = t0
INVARIANT NoLostUpdate
INVARIANT AtMostOnce
INVARIANT TokensConserved
PROPERTY NobodyPassesEarly
PROPERTY NonBlockingReturns
PROPERTY SomebodyGetsIn
PROPERTY EveryoneGetsThrough
PROPERTY CatchUp
