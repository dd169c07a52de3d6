SPECIFICATION AloneSpec
CONSTANTS
  c1 = c1 c2 = c2
  t1 = t1 t2 = t2 t3 = t3
  e1 = e1 e2 = e2
  p1 = p1 p2 = p2 p3 = p3 p4 = p4
  r1 = r1
  None = None
  Courts = {c1, c2}
  Turns = {t1, t2, t3}
  Entries = {e1}
  Players = {p1, p2, p3}
  Groups <- MCGroups
  Requests = {r1}
  Kinds = {"assign", "register", "complete", "cancel", "unassign", "replace", "clear"}
  MaxTurns = 3
  MaxRequests = 6
  MaxCrashes = 0
SYMMETRY RowSymmetry
PROPERTIES
  HandlersImplementBoard
CHECK_DEADLOCK FALSE
