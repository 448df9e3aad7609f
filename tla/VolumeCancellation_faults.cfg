CONSTANTS
  ManualQos = TRUE
  MaxDeletes = 2
  UndoFails = {"vpg", "row"}
  Faults = {"stepError", "lostAnswer", "markError", "poolDeleting", "noBucket", "jobError", "callError", "ackTimeout", "startError", "denied"}
SPECIFICATION Spec
INVARIANTS
  TypeOK
  RollbackIsComplete
  DoneMeansDeleted
  VpgReferenceIsValid
PROPERTIES
  CreateJobEnds
  DeleteJobEnds
CHECK_DEADLOCK FALSE
