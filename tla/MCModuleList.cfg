SPECIFICATION FairSpec
CONSTANTS
  AddrLimit = 40
  PageSize = 4
  MaxString = 4
  Maps <- MCMaps
  Nested <- MCNested
  ZeroBytes <- MCZeroBytes
  MaxGrowth = 1
  Images = {"main", "lib", "plugin"}
  Main = "main"
  Dyld = "dyld"
  LoadAddress <- MCLoadAddress
  Commands <- MCCommands
  Paths <- MCPaths
  InitiallyLoaded = {"main", "lib"}
  MaxUpdates = 2
  CallStackAddresses = {8, 12, 29}
  StackPointers = {22, 24, 37}
  SurroundingsRange = 2
  MaxMarks = 2
  PayloadOffset = 1000
INVARIANTS
  TypeOK
  StringReadExact
  MappedAddressesFound
  FalseHitsOnlyBehind
  ListCompleteOrEmpty
  SegmentsWhereMapped
  ExecutingExact
  NeededMemoryRecorded
  PayloadSound
PROPERTIES
  CollectionEnds
