CONSTANTS
  Executors = {e1, e2}
  NoOwner = NoOwner
  Gone = Gone
  Edits = {x, bad}
  Unreadable = {bad}
  Missing = Missing
  Torn = Torn
  EditorWays = {}
  FirstPages = {"file"}
  Monitored = FALSE
  MaxPrepares = 1
  MaxEdits = 0
  MaxCrashes = 1
  MaxLapses = 1
SPECIFICATION FairSpec
PROPERTY NeverBlocked
CHECK_DEADLOCK FALSE
