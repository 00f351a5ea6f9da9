SPECIFICATION QuietSpec
CONSTANTS
  d = d
  d1 = d1
  d2 = d2
  a = a
  a1 = a1
  a2 = a2
  Docs = {d, d1, d2}
  Areas = {a, a1, a2}
  Builds = {b1, b2, b3}
  Reviewers = {r1, r2}
  None = None
  Pushes <- Reports
  Versions = {TRUE, FALSE}
  MaxTime = 1
  MaxMoves = 3
  MaxDecisions = 3
  Concurrent = FALSE
  Repush = FALSE
  Sweeps = FALSE
  Crashes = FALSE
SYMMETRY Symmetry
INVARIANTS OneConcernPerAcceptance AcceptedDefectStaysOnRecord
PROPERTIES NoUnseenOverwrite
CHECK_DEADLOCK FALSE
