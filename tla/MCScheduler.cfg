\* Three files and two permits: one file is always left waiting while two
\* workers race; two destinations, so that some pair of files collides.
\* Workers need not end unless they are stopped.
SPECIFICATION StopFairSpec
CONSTANTS
  N = 3
  MaxConcurrency = 2
  Destinations = {d1, d2}
  Policies = {"Continue", "FailFast"}
  DryRuns = {FALSE, TRUE}
  ProgressCap = 1
  CleanupMayFail = FALSE
INVARIANTS
  OneResultPerFile
  SnapshotAgrees
  BoundedWork
  DistinctDestinations
  ReasonsAreTrue
PROPERTIES
  NoStartAfterStop
  KeepsPromise
  BatchEnds
  StopEndsBatch
