CONSTANTS
  x = x
  y = y
  z = z
  r1 = r1
  r2 = r2
  Targets = {"gbrain"}
  Pages = {1, 2}
  Revs = {r1, r2}
  NoRev = NoRev
  Workers = {w1}
  NoOwner = NoOwner
  MaxAttempts = 2
  RetryDelay <- MCRetryDelay
  LeaseTime = 0
  Horizon = 0
  Paths = {x, y}
  None = None
  HomeOf <- MCHomeOf
  FirstRev = r1
  Projected = {1, 2}
  SegmentSize = 2
  ClaimLimit = 5
  ImportOnCompile = TRUE
  FileWays = {"install", "remove"}
  MaxEpoch = 3
  MaxChanges = 4
  MaxBatches = 5
  MaxFaults = 0
SPECIFICATION Spec
INVARIANTS QuietMeansEvident
CHECK_DEADLOCK FALSE
