CONSTANTS
  Jobs = {j1, j2}
  None = None
  Faults = {"apiCrash", "startError", "ambiguousStart", "longWait", "runTimeout", "queueLost", "deleteDenied", "vpgError", "describeError", "terminateError", "handlerError"}
SPECIFICATION Spec
SYMMETRY Symmetry
INVARIANT TransitionalHasOwner
