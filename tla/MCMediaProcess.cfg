\* FFmpeg writing more than its pipe holds, refused records, kills and waits
\* that fail.
SPECIFICATION StopFairSpec
CONSTANTS
  Tool = "ffmpeg"
  PipeCap = 2
  MaxRecords = 3
  WaitMayFail = TRUE
  KillMayFail = TRUE
INVARIANTS
  OkIsComplete
  ReapedWhenReturned
PROPERTIES
  StopReturns
  RunEnds
