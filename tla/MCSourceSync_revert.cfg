SPECIFICATION Spec
CONSTANTS
  p1 = p1
  p2 = p2
  h1 = h1
  a = a
  b = b
  NoRow = NoRow
  Procs = {p1, p2}
  Pids = {p1, p2}
  Hosts = {h1}
  PidOf <- MCPidOf
  HostOf <- MCHostOf
  MaxStalls = 0
  MaxSignals = 0
  Paths = {a, b}
  First = {a}
  Threshold = 2
  SkipFailed = FALSE
  MaxCommits = 3
  MaxRewrites = 0
  MaxDead = 0
  MaxFaults = 0
  MaxReverts = 1
  Mixed = FALSE
  Paired <- MCPaired
  FullSaves = FALSE
INVARIANT ForwardIsHonest
