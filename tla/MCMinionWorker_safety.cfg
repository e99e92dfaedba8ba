SPECIFICATION Spec
CONSTANTS
  agg = agg
  c1 = c1
  c2 = c2
  NoJob = NoJob
  Jobs <- MCJobs
  ParentOf <- MCParentOf
  OnChildFail <- MCMixed
  Aggregator = agg
  Timed = {c1}
  Delayed = {}
  RemoveOnEnd = {}
  Quiet = {c2}
  MaxAttempts = 2
  MaxStalled = 2
  MaxOpen = 2
  MaxClaims = 3
  MaxBounces = 0
  MaxCommands = 1
CHECK_DEADLOCK FALSE
INVARIANT LastChildWakesParent
PROPERTIES OnlyTheLatestRunCounts EndedStaysEnded EndIsReported
