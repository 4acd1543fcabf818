\* The tool of f1 never goes back in time, that of f2 may.
SPECIFICATION Spec
CONSTANTS
  Files = {f1, f2}
  Durations <- MCDurations
  Positions <- MCPositions
  Speeds <- MCSpeeds
  QueueCap = 2
  Horizon = 2
  Steady = {f1}
INVARIANTS
  FullWhenDone
PROPERTIES
  SharesNeverShrink
