SPECIFICATION MCSpec
CONSTANTS
  Depth = 2
  MapCntArg = 4
  UlongBits = 8
  Tags <- MCTags
  Removable <- MCTags
  Values <- MCValues
  MaxInts = 2
  Garbage <- MCGarbage
  RootMax = 82
  SubMax = 22
  Keys <- MCKeys
  Inputs <- MCInputs
  MaxPairs = 3
  WordBits = 8
  AddrBits = 6
  Aligns <- MCAligns
  Sizes <- MCSizes
  MaxRegions = 3
INVARIANT FirstByteTells
