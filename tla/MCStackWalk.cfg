SPECIFICATION FairSpec
CONSTANTS
  UnwindInfos <- MCUnwindInfos
  PCOffsets = {0, 1, 3, 4, 5}
  ThreadStates <- MCThreadStates
  Tops <- MCTops
  LoadAddress = 100
  LinkRegister = 90
  Pac <- MCPac
  MaxFrames = 6
INVARIANTS
  LookupFindsFunction
  SearchKeepsTarget
  WalkIsExact
  ThrowsOnlyOnCycle
PROPERTIES
  WalkEnds
