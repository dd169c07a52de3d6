SPECIFICATION FairSpec
CONSTANTS
  c1 = c1 c2 = c2
  t1 = t1 t2 = t2 t3 = t3
  e1 = e1 e2 = e2
  p1 = p1 p2 = p2 p3 = p3 p4 = p4
  r1 = r1 r2 = r2
  None = None
  Courts = {c1}
  Turns = {t1, t2}
  Entries = {e1}
  Players = {p1, p2, p3}
  Groups <- MCPair
  Requests = {r1, r2}
  Kinds = {"assign", "register", "complete", "cancel", "unassign", "replace", "clear"}
  MaxTurns = 2
  MaxRequests = 3
  MaxCrashes = 1
INVARIANTS
  GameOnlyOnceStarted
PROPERTIES
  CourtsRecover
CHECK_DEADLOCK FALSE
