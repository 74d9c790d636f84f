SPECIFICATION FairSpec
CONSTANTS
  d1 = d1
  d2 = d2
  w = w
  b = b
  n = n
  NoThread = NoThread
  Threads = {d1, w, n}
  Dumpers = {d1}
  InitialThreads = {d1, w}
  AppSuspended = {}
  Crashes <- SelfCrash
  FailingAllocations = {"capture"}
  MaxAllocFailures = 1
  SharedZone = FALSE
  Precedes <- AnyOrder
INVARIANTS
  TypeOK
  SuspendBalance
  RightsBalance
  ConsistentStacks
  IdsNameTheirThreads
  NoThreadMissing
PROPERTIES
  CallReturns
