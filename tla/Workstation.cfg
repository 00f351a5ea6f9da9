SPECIFICATION SideBySide
CONSTANTS
  f = f
  g = g
  Writers = {p, q}
  Paths = {main, worktree}
  Primary = main
  Files = {f, g}
  Parses = {f}
  Versions = {1, 2}
  Absent = Absent
  Trees <- TwoTrees
  Starts <- NoneOrUpdated
  NoIndex = NoIndex
  Anything = Anything
  Nobody = Nobody
  MaxTasks = 3
  MaxFaults = 1
  Renders = {p, q, s}
  Viewports = {v, w}
  Limit = 2
  NoList = NoList
  MaxRenders = 6
  Users = {p, q, h}
  Renderers = {h}
  Launches = {launch}
  MaxLeases = 4
  MaxDeaths = 1
  Tests = {p, q}
  Room = 1
  MaxStops = 3
SYMMETRY Symmetry
INVARIANTS TypesOK
INVARIANTS NamedSegmentsAreStored NothingIsLeftBehind
INVARIANTS OnePainterPerPage SlotsAreRenders NoLostWakeup PagesAreBounded
INVARIANTS LeasedIsNotClosed NothingIsLeftOpen OneOfAKey
INVARIANTS ListsWhatStands
PROPERTIES IndexesAreRegisters SpentWhereGiven
CHECK_DEADLOCK FALSE
