SPECIFICATION FairSpec
CONSTANTS
  None = None
  Requests = {r1, r2}
  MaxRetries = 2
INVARIANTS
  TypeOK
  AcceptedRequestIsKept
  RunWaitsForItsChild
PROPERTIES
  ImplementsSerialQueue
  EverySignalIsHandled
  IdleRunExits
CHECK_DEADLOCK FALSE
