SPECIFICATION FairSpec
CONSTANTS
  AddrLimit = 9
  Requests <- MCRequests
INVARIANTS
  TypeOK
  Separated
PROPERTIES
  InsertTerminates
  ImplementsCoveredBytes
