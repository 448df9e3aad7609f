CONSTANTS
  None = None
  Rotations = {r1}
  Pools = {p1, p2}
  Clients = {r1,p1,p2}
  Fresh = {p1, p2}
  MaxKey = 3
  MaxStarts = 4
  maxTotalKeysBeforeRotation = 3
  maxPendingDeletionKeysAllowed = 2
  Faults = {}
SPECIFICATION Spec
INVARIANTS
  ReadyPoolKeysLive
CHECK_DEADLOCK FALSE
