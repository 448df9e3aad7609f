CONSTANTS
  Clients = {c1, c2}
  None = None
  Absent = Absent
  TTL = 2
  Skew = 1
  ApiErrors = TRUE
SPECIFICATION FairSpec
INVARIANTS
  TypeOK
  AcceptedWriteIsJustified
PROPERTIES
  ImplementsLeaseLock
  WaiterIsServed
CHECK_DEADLOCK FALSE
