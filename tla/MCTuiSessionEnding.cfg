\* One file and one batch, with every failure: cancellation, quitting and
\* the tasks that are left.
SPECIFICATION FairSpec
CONSTANTS
  Files = {f1}
  Capacity = 1
  ProbeJobs = 1
  MaxIds = 1
  MaxSearches = 1
  MaxBatches = 1
  Unread = 1
  Published = {"Running", "Succeeded", "Failed"}
  Opened = {"Message", "Editor", "Confirm"}
  Plans = {"Ready", "Failed"}
  MayQuit = TRUE
  ProbeMayPanic = TRUE
  SchedulerMayFail = TRUE
  TerminalMayFail = TRUE
CHECK_DEADLOCK FALSE
INVARIANTS
  NoRowStuck
  QuitAbandonsNothing
PROPERTIES
  CancelSettles
