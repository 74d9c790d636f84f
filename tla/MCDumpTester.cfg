SPECIFICATION Spec
CONSTANTS
  Operations <- MCOperations
  MaxNested = 2
CHECK_DEADLOCK FALSE
INVARIANTS
  SuccessMeansCore
  CoreOfWaitingWorker
PROPERTIES
  ProcessesEnd
