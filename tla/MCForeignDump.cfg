SPECIFICATION Spec
CONSTANTS
  d1 = d1
  d2 = d2
  w = w
  b = b
  n = n
  NoThread = NoThread
  Threads = {w, n}
  Dumpers = {d1, d2}
  InitialThreads = {w}
  AppSuspended = {}
  Crashes <- WorkerCrash
  FailingAllocations = {"capture"}
  MaxAllocFailures = 1
  SharedZone = FALSE
  Precedes <- AnyOrder
INVARIANTS
  ConsistentStacks
