CONSTANTS
  Targets = {"rag"}
  Pages = {p1}
  Revs = {r1}
  NoRev = NoRev
  Workers = {w1, w2}
  NoOwner = NoOwner
  NoJob = NoJob
  MaxAttempts = 3
  RetryDelay <- MCRetryDelay
  LeaseTime = 1
  Horizon = 0
  ClaimLimit = 2
  MaxEpoch = 2
  MaxRetries = 1
SPECIFICATION FairSpec
INVARIANTS
  TypeOK
  OwnedIffRunning
  Fenced
PROPERTIES
  SettledIsFinal
  EverythingSettles
