SPECIFICATION FairSpec
CONSTANTS
  p1 = p1
  p2 = p2
  h1 = h1
  a = a
  b = b
  NoRow = NoRow
  Procs = {p1, p2}
  Pids = {p1, p2}
  Hosts = {h1}
  PidOf <- MCPidOf
  HostOf <- MCHostOf
  MaxStalls = 1
  MaxSignals = 1
  Paths = {a, b}
  First = {a}
  Threshold = 2
  SkipFailed = FALSE
  MaxCommits = 3
  MaxRewrites = 1
  MaxDead = 1
  MaxFaults = 1
  MaxReverts = 1
  Mixed = FALSE
  Paired <- MCPaired
  FullSaves = FALSE
INVARIANTS TypeOK OneSyncAtATime BookmarkIsHonest NoGhosts CheckpointIsHonest
PROPERTIES BookmarkNeverRegresses CatchesUp
