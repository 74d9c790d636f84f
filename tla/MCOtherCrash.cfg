SPECIFICATION Spec
CONSTANTS
  d1 = d1
  d2 = d2
  w = w
  b = b
  n = n
  NoThread = NoThread
  Threads = {d1, w}
  Dumpers = {d1}
  InitialThreads = {d1, w}
  AppSuspended = {}
  Crashes <- OtherCrash
  FailingAllocations = {}
  MaxAllocFailures = 0
  SharedZone = FALSE
  Precedes <- AnyOrder
INVARIANTS
  ConsistentStacks
