SPECIFICATION Spec
CONSTANTS
  s1 = s1
  s2 = s2
  i1 = i1
  Jobs = {j1, j2}
  Slots = {s1, s2}
  Versions = {1, 2}
  Commits = {1, 2}
  Older <- History
  Images = {i1}
  Offers <- Runs
  Latest = Latest
  None = None
  Attempts = 2
  MaxListed = 1
  Prunes = TRUE
SYMMETRY Symmetry
INVARIANTS TypeOK NamedBlobsAreHeld PublishedStands
PROPERTIES NothingGoesBack OthersSurvive
CHECK_DEADLOCK FALSE
