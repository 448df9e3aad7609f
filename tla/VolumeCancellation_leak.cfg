CONSTANTS
  ManualQos = FALSE
  MaxDeletes = 1
  UndoFails = {}
  Faults = {}
SPECIFICATION Spec
INVARIANTS
  DeletedLeavesNoVolume
CHECK_DEADLOCK FALSE
