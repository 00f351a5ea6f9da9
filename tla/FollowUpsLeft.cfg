SPECIFICATION Spec
CONSTANTS
  Commands = {c1,c2,c3}
  Children = {d1, d2}
  Roles = {"index", "ask", "select"}
  Nobody = Nobody
  Free = Free
  MaxChanges = 2
  MaxFaults = 1
  Prompt = TRUE
PROPERTIES LeftoversAreMade
CHECK_DEADLOCK FALSE
