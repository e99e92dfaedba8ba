SPECIFICATION FairSpec
CONSTANTS
  agg = agg
  c1 = c1
  c2 = c2
  NoJob = NoJob
  Jobs <- MCJobs
  ParentOf <- MCParentOf
  OnChildFail <- MCMixed
  Aggregator = agg
  Timed = {c1}
  Delayed = {c2}
  RemoveOnEnd = {c2}
  Quiet = {c1}
  MaxAttempts = 2
  MaxStalled = 1
  MaxOpen = 2
  MaxClaims = 3
  MaxBounces = 1
  MaxCommands = 0
CHECK_DEADLOCK FALSE

PROPERTIES EveryClaimEnds ParentProceeds
