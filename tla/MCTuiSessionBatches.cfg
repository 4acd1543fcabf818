\* Two files, two batches, files found while a batch runs: relays, waiters
\* and cancellations of the first batch meet the second.
SPECIFICATION Spec
CONSTANTS
  Files = {f1, f2}
  Capacity = 1
  ProbeJobs = 1
  MaxIds = 2
  MaxSearches = 1
  MaxBatches = 2
  Unread = 0
  Published = {"Succeeded"}
  Opened = {"Editor"}
  Plans = {"Ready"}
  MayQuit = FALSE
  ProbeMayPanic = FALSE
  SchedulerMayFail = FALSE
  TerminalMayFail = FALSE
SYMMETRY Symmetry
INVARIANTS
  ProbesAnswerTheirRows
  BatchKeepsItsRows
  CancelReachesBatch
PROPERTIES
  ResultsStay
