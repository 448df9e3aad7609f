CONSTANTS
  Jobs = {j1, j2}
  None = None
  Faults = {"apiCrash", "startError", "ambiguousStart", "longWait", "runTimeout", "queueLost", "deleteDenied", "vpgError", "unassignedErr", "describeError", "terminateError", "handlerError", "dbError"}
SPECIFICATION Spec
SYMMETRY Symmetry
INVARIANTS
  TypeOK
  TimeoutSweepIsSafe
  DeleteDoneMeansGone
PROPERTY
  SupervisorSparesWork
