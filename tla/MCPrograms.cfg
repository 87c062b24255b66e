SPECIFICATION Spec
CONSTANTS
  c1 = c1
  c2 = c2
  NoCache = NoCache
  h = h
  h2 = h2
  Hidden = h
  p1 = p1
  p2 = p2
  RngW <- MCRngW
  BufWords <- MCBufWords
  BlockWords <- MCBlockWords
  Ns <- MCNs
  MaxKeys <- MCMaxKeys
  MaxWords <- MCMaxWords
  Bytes <- MCBytes
  BufSize <- MCBufSize
  MaxBuffer <- MCMaxBuffer
  MemSize <- MCMemSize
  LongBytes <- MCLongBytes
  Builds <- MCBuilds
  SizeW <- MCSizeW
  AllocSizes <- MCAllocSizes
  MaxBlocks <- MCMaxBlocks
  Caches <- MCCaches
  Sizes1 <- MCSizes1
  Sizes2 <- MCSizes2
  MaxSize <- MCMaxSize
  BitAnd <- MCAnd
  Regions <- MCRegions
  Seqs <- MCSeqs
  FseqSizes <- MCFseqSizes
  FseqOps <- MCFseqOps
  RxMaxMax <- MCRxMaxMax
  LongMax <- MCLongMax
  CfgOps <- MCCfgOps
  Places <- MCPlaces
  Codes <- MCCodes
  MaxLines <- MCMaxLines
  MaxRecord <- MCMaxRecord
  MaxWire <- MCMaxWire
  PubLen <- MCPubLen
  RawPubLen <- MCRawPubLen
  ClientCalls <- MCClientCalls
INVARIANT RollIsFair
INVARIANT LibKeepsItsWord
INVARIANT JobsUseTheirOwn
INVARIANT ExitCodeTells
INVARIANT HandshakeInBounds
PROPERTY StreamInOrder
