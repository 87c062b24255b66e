SPECIFICATION FairSpec
CONSTANTS
  RxCnt = 2
  SeqHalf = 16
  Tx0 = 30
  MaxSend = 3
  Late = {}
  Unstable = {}
  Configs <- MCHighResume
  Lags <- MCFewLags
PROPERTY Resumes
