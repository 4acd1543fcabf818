\* Two batches over two files: relays, waiters and cancellations of the
\* first meet the second.
SPECIFICATION Spec
CONSTANTS
  Items = {i1, i2}
  MaxBatches = 2
  Published = {"Succeeded"}
  ToolsAtStart = {TRUE}
  MayClose = FALSE
  ProbeMayPanic = FALSE
  SchedulerMayFail = FALSE
SYMMETRY Symmetry
INVARIANTS
  NoItemStuck
PROPERTIES
  LockedDuringBatch
  ReportReachesItsItems
