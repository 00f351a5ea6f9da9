SPECIFICATION Spec
CONSTANTS
  m1 = m1
  x1 = x1
  Writers = {w1, w2, w3}
  Manifests = {m1}
  Absent = Absent
  Blobs = {x1}
  Names <- OneBlob
  Stale = 3
  Refresh = 1
  MaxTime = 8
  Prompt = {"rename", "rmdir", "stamp", "break"}
SYMMETRY Symmetry
INVARIANTS VouchedLockIsHeld
CHECK_DEADLOCK FALSE
