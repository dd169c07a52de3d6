SPECIFICATION Spec
CONSTANTS
  c1 = c1 c2 = c2
  t1 = t1 t2 = t2 t3 = t3
  e1 = e1 e2 = e2
  p1 = p1 p2 = p2 p3 = p3 p4 = p4
  Courts = {c1, c2}
  Turns = {t1, t2, t3}
  Entries = {e1}
  Players = {p1, p2, p3}
  Groups <- MCGroups
  Penalised = {}
  Resters = {}
  Learners = {}
  Serviced = {}
  MaxTurns = 2
  None = None
SYMMETRY RowSymmetry
INVARIANTS
  GameMatchesTurn OnePlayingPerCourt EntryMatchesTurn WithinMaxTurns
PROPERTIES
  FinishedStaysFinished
