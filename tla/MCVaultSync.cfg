CONSTANTS
  Paths = {p1, p2}
  Home = p1
  NoPath = NoPath
  Ways = {"write", "remove", "restore", "move"}
  BootEdits = FALSE
  MaxEdits = 2
  MaxWrites = 1
  MaxCrashes = 1
  MaxLapses = 1
SPECIFICATION FairSpec
INVARIANTS
  PendingDeleteIsOfThePage OwnWritesNeverDelete QuietMeansInSync
PROPERTIES
  EveryOccurrenceSettles
  DeleteIsDecided DeleteWaitsForCandidates
CHECK_DEADLOCK FALSE
