SPECIFICATION FairSpec
CONSTANTS
  d1 = d1
  d2 = d2
  w = w
  b = b
  n = n
  NoThread = NoThread
  Threads = {d1, d2, b}
  Dumpers = {d1, d2}
  InitialThreads = {d1, d2, b}
  AppSuspended = {b}
  Crashes <- NoCrash
  FailingAllocations = {}
  MaxAllocFailures = 0
  SharedZone = FALSE
  Precedes <- DumpersInOrder
CHECK_DEADLOCK FALSE
INVARIANTS
  SuspendBalance
  ConsistentStacks
PROPERTIES
  SomeCallReturns
