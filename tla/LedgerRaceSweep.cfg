SPECIFICATION Spec
CONSTANTS
  Images = {i1}
  Slots = {slot}
  Docs = {}
  Builds = {}
  Requests = {r1, r2}
  None = None
  KeepWindows = {1}
  Limit = 1
  MaxTime = 2
  Overlap = TRUE
SYMMETRY Symmetry
PROPERTIES FreshPutsKeepTheirObject
CHECK_DEADLOCK FALSE
