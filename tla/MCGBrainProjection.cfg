CONSTANTS
  x = x
  y = y
  z = z
  r1 = r1
  r2 = r2
  Targets = {"gbrain"}
  Pages = {1, 2}
  Revs = {r1, r2}
  NoRev = NoRev
  Workers = {w1}
  NoOwner = NoOwner
  MaxAttempts = 2
  RetryDelay <- MCRetryDelay
  LeaseTime = 0
  Horizon = 0
  Paths = {x, y, z}
  None = None
  HomeOf <- MCHomeOf
  FirstRev = r1
  Projected = {1, 2}
  SegmentSize = 1
  ClaimLimit = 5
  ImportOnCompile = FALSE
  FileWays = {"install", "remove", "undo", "move"}
  MaxEpoch = 2
  MaxChanges = 2
  MaxBatches = 6
  MaxFaults = 2
SPECIFICATION Spec
INVARIANTS EvidenceIsCurrent ProjectionIsKept
PROPERTIES MappingNeverGoesBack ProtectedRowsStay
