\* Two transactions, for one destination or for two, in a directory where
\* everything that can fail may fail and others remove what they like.
SPECIFICATION StopFairSpec
CONSTANTS
  w1 = w1
  w2 = w2
  p1 = p1
  p2 = p2
  Writers = {w1, w2}
  Paths = {p1, p2}
  Plans <- MCPlans
  OthersMayRemove = TRUE
  CleanupMayFail = TRUE
  BlockingMayFail = TRUE
INVARIANTS
  OnlyFinishedOutput
  ResultIsTrue
  NothingLeftBehind
PROPERTIES
  NeverReplaces
  KeepsPromise
  CancelEndsTransaction
