CONSTANTS
  Paths = {p1, p2}
  Home = p1
  NoPath = NoPath
  Ways = {"remove", "restore"}
  BootEdits = FALSE
  MaxEdits = 2
  MaxWrites = 0
  MaxCrashes = 1
  MaxLapses = 0
SPECIFICATION Spec
PROPERTIES
  MovedPageIsRestored
CHECK_DEADLOCK FALSE
