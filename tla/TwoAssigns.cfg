SPECIFICATION Spec
CONSTANTS
  c1 = c1 c2 = c2
  t1 = t1 t2 = t2 t3 = t3
  e1 = e1 e2 = e2
  p1 = p1 p2 = p2 p3 = p3 p4 = p4
  r1 = r1 r2 = r2
  None = None
  Courts = {c1}
  Turns = {t1, t2}
  Entries = {e1}
  Players = {p1, p2, p3, p4}
  Groups <- MCPairs
  Requests = {r1, r2}
  Kinds = {"assign"}
  MaxTurns = 2
  MaxRequests = 2
  MaxCrashes = 0
INVARIANT OnePlayingPerCourt
CHECK_DEADLOCK FALSE
