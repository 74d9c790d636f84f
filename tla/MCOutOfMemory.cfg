SPECIFICATION Spec
CONSTANTS
  d1 = d1
  d2 = d2
  w = w
  b = b
  n = n
  NoThread = NoThread
  Threads = {d1, w, n}
  Dumpers = {d1}
  InitialThreads = {d1, w}
  AppSuspended = {}
  Crashes <- SelfCrash
  FailingAllocations = {"reserve1", "push", "modules", "reserve2", "capture", "new"}
  MaxAllocFailures = 2
  SharedZone = TRUE
  Precedes <- AnyOrder
CHECK_DEADLOCK FALSE
INVARIANTS
  IdsNameTheirThreads
