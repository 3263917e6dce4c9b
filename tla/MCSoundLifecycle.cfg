CONSTANTS
  h1 = h1
  h2 = h2
  NULL = NULL
  Handles <- TwoHandles
  MaxRefs = 2
  MaxIntake = 1
  AllocCanFail = TRUE
SPECIFICATION FairSpec
INVARIANTS
  TypeOK
  NoUseAfterFree
  TasksOnce
  FenceIsFresh
PROPERTIES
  ReleasedIsFreed
  ReaperJoins
\* The audio device may fail for good, and a failed allocation ends the program.
CHECK_DEADLOCK FALSE
