CONSTANTS
  Executors = {e1, e2}
  NoOwner = NoOwner
  Gone = Gone
  Edits = {x, bad}
  Unreadable = {bad}
  Missing = Missing
  Torn = Torn
  EditorWays = {"replace","remove"}
  FirstPages = {"file","none"}
  Monitored = TRUE
  MaxPrepares = 2
  MaxEdits = 2
  MaxCrashes = 1
  MaxLapses = 1
SPECIFICATION Spec
SYMMETRY ExecutorSymmetry
INVARIANTS PendingIsTheOpenIntent NothingForgotten BaselineIsKnown
CHECK_DEADLOCK FALSE
