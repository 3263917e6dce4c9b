CONSTANTS
  h1 = h1
  h2 = h2
  NULL = NULL
  Handles <- TwoHandles
  MaxRefs = 1
  MaxIntake = 1
  AllocCanFail = TRUE
SPECIFICATION Spec
INVARIANT
  HandoverIsComplete
