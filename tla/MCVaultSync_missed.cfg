CONSTANTS
  Paths = {p1, p2}
  Home = p1
  NoPath = NoPath
  Ways = {"write", "move"}
  BootEdits = FALSE
  MaxEdits = 2
  MaxWrites = 0
  MaxCrashes = 2
  MaxLapses = 0
SPECIFICATION Spec
INVARIANTS
  RestartCatchesUp
CHECK_DEADLOCK FALSE
