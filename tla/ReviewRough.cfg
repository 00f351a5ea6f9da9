SPECIFICATION Spec
CONSTANTS
  d = d
  e = e
  a1 = a1
  a2 = a2
  Docs = {d, e}
  Areas = {a1, a2}
  Builds = {b1, b2}
  Reviewers = {r1, r2}
  None = None
  Pushes <- Fleeting
  Versions = {TRUE}
  MaxTime = 1
  MaxMoves = 1
  MaxDecisions = 2
  Concurrent = TRUE
  Repush = TRUE
  Sweeps = TRUE
  Crashes = TRUE
SYMMETRY Symmetry
INVARIANTS TypeOK ApprovalsAreExplained ConcernsFollowDecisions
PROPERTIES PromotionsAreSigned
CHECK_DEADLOCK FALSE
