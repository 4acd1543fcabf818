SPECIFICATION Spec
CONSTANTS
  Items = {i1}
  MaxBatches = 1
  Published = {"Succeeded"}
  ToolsAtStart = {TRUE}
  MayClose = TRUE
  ProbeMayPanic = FALSE
  SchedulerMayFail = FALSE
INVARIANTS
  CancelReachesBatch
