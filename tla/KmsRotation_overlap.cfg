CONSTANTS
  None = None
  Rotations = {r1, r2}
  Pools = {p1}
  Clients = {r1,r2,p1}
  Fresh = {}
  MaxKey = 2
  MaxStarts = 3
  maxTotalKeysBeforeRotation = 3
  maxPendingDeletionKeysAllowed = 2
  Faults = {"crash", "timeout"}
SYMMETRY Symmetry
SPECIFICATION Spec
INVARIANTS
  RotationRepairsRow
  DeletesUnusedKeys
CHECK_DEADLOCK FALSE
