CONSTANTS
  Executors = {e1, e2}
  NoOwner = NoOwner
  Gone = Gone
  Edits = {x, bad}
  Unreadable = {bad}
  Missing = Missing
  Torn = Torn
  EditorWays = {"restore","handle"}
  FirstPages = {"file","legacy"}
  Monitored = TRUE
  MaxPrepares = 1
  MaxEdits = 2
  MaxCrashes = 1
  MaxLapses = 1
SPECIFICATION Spec
SYMMETRY ExecutorSymmetry
INVARIANT OneWriter
PROPERTY KeepsEveryFile
CHECK_DEADLOCK FALSE
