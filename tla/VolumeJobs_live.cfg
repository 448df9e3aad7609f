CONSTANTS
  Jobs = {j1, j2}
  None = None
  Faults = {"apiCrash", "startError", "runTimeout"}
SPECIFICATION FairSpec
PROPERTIES
  NewJobIsPicked
  DeleteJobEnds
  DeletingEnds
