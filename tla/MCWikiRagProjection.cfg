SPECIFICATION FairSpec
CONSTANTS
  Targets = {"rag"}
  Pages = {p1}
  Revs = {r1, r2}
  NoRev = NoRev
  Workers = {w1, w2}
  NoOwner = NoOwner
  NoJob = NoJob
  MaxAttempts = 2
  RetryDelay <- MCRetryDelay
  LeaseTime = 0
  Horizon = 0
  ClaimLimit = 1
  MaxEpoch = 2
  MaxFaults = 1
INVARIANTS
  WatermarkIsCurrent
  VisibleHasRows
  NoLostProjection
  WithdrawnLeavesNoRows
PROPERTIES
  RetrievalSafe
  ActivePagesShown
