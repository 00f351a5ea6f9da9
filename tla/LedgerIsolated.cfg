SPECIFICATION Spec
CONSTANTS
  Images = {i1, i2}
  Slots = {slot}
  Docs = {doc}
  Builds = {b1}
  Requests = {r1, r2}
  None = None
  KeepWindows = {0}
  Limit = 1
  MaxTime = 1
  Overlap = FALSE
SYMMETRY Symmetry
INVARIANTS TypeOK StoredRowsHaveObjects ReferencedKeysAreClaimed
CHECK_DEADLOCK FALSE
