CONSTANTS
  None = None
  Rotations = {r1}
  Pools = {p1}
  Clients = {r1,p1}
  Fresh = {p1}
  MaxKey = 2
  MaxStarts = 4
  maxTotalKeysBeforeRotation = 3
  maxPendingDeletionKeysAllowed = 2
  Faults = {"dbError", "crash", "timeout", "leaseLost", "trackError", "poolError", "ontapError", "ontapLost", "gcpError"}
SPECIFICATION Spec
INVARIANTS
  TypeOK
  PasswordKeyIsLive
  ActiveKeysLive
  AtMostOnePrimary
  DeletesUnusedKeys
CHECK_DEADLOCK FALSE
