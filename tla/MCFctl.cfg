SPECIFICATION FairSpec
CONSTANTS
  RxCnt = 2
  SeqHalf = 16
  Tx0 = 30
  MaxSend = 3
  Late = {1}
  Unstable = {0}
  Configs <- MCAll
  Lags <- MCLags
INVARIANT ReliableNotOverrun
INVARIANT CreditsAreReal
INVARIANT QueryIsLowerBound
PROPERTY RefillAttributed
PROPERTY ResumesIfFlowing
