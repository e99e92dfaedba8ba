CONSTANTS
  Executors = {e1, e2}
  NoOwner = NoOwner
  Gone = Gone
  Edits = {x, bad}
  Unreadable = {bad}
  Missing = Missing
  Torn = Torn
  EditorWays = {"replace"}
  FirstPages = {"none"}
  Monitored = FALSE
  MaxPrepares = 1
  MaxEdits = 1
  MaxCrashes = 1
  MaxLapses = 1
SPECIFICATION Spec
INVARIANT NoFileBaselineIsKnown
CHECK_DEADLOCK FALSE
