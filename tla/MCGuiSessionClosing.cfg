\* One file, with the setup screen, the window and everything that can fail.
SPECIFICATION FairSpec
CONSTANTS
  Items = {i1}
  MaxBatches = 1
  Published = {"Preparing", "Failed"}
  ToolsAtStart = {TRUE, FALSE}
  MayClose = TRUE
  ProbeMayPanic = TRUE
  SchedulerMayFail = TRUE
INVARIANTS
  IInv
PROPERTIES
  CloseWaitsForCleanup
  CloseEnds
