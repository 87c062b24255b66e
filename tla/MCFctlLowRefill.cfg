SPECIFICATION FairSpec
CONSTANTS
  RxCnt = 2
  SeqHalf = 16
  Tx0 = 30
  MaxSend = 3
  Late = {}
  Unstable = {}
  Configs <- MCLowRefill
  Lags <- MCFewLags
PROPERTY Resumes
