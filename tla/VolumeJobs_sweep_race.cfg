CONSTANTS
  Jobs = {j1, j2}
  None = None
  Faults = {"longWait"}
SPECIFICATION Spec
SYMMETRY Symmetry
INVARIANT SweptWorkNeverExecutes
