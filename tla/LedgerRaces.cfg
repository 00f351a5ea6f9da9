SPECIFICATION RacesSpec
CONSTANTS
  Images = {i1, i2}
  Slots = {}
  Docs = {doc}
  Builds = {b1}
  Requests = {r1, r2}
  None = None
  KeepWindows = {0}
  Limit = 1
  MaxTime = 1
  Overlap = TRUE
PROPERTIES SweepSparesReferenced WaitingBuildIsKept UnwantedIsCollected
CHECK_DEADLOCK FALSE
