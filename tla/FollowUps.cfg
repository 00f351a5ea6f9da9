SPECIFICATION FairSpec
CONSTANTS
  Commands = {c1,c2,c3}
  Children = {d1}
  Roles = {"index", "ask", "select"}
  Nobody = Nobody
  Free = Free
  MaxChanges = 2
  MaxFaults = 2
  Prompt = TRUE
INVARIANTS TypeOK OneAtWork
PROPERTIES FoldedBeforeRead AnswersAreCurrent EveryCommandEnds
CHECK_DEADLOCK FALSE
