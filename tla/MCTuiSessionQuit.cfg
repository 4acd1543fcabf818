\* Three files are being probed when q is pressed, and the channel holds
\* two messages.
SPECIFICATION FairSpec
CONSTANTS
  Files = {f1, f2, f3}
  Capacity = 2
  ProbeJobs = 1
  MaxIds = 3
  MaxSearches = 1
  MaxBatches = 0
  Unread = 0
  Published = {}
  Opened = {}
  Plans = {"Ready"}
  MayQuit = TRUE
  ProbeMayPanic = FALSE
  SchedulerMayFail = FALSE
  TerminalMayFail = FALSE
CHECK_DEADLOCK FALSE
PROPERTIES
  QuitEnds
