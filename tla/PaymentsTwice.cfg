SPECIFICATION Spec
CONSTANTS
  a1 = a1 a2 = a2
  k1 = k1
  r1 = r1 r2 = r2
  None = None
  Apps = {a1, a2}
  Coaches = {k1}
  CoachOf <- MCOneCoach
  DefaultCard <- MCGoodCards
  Requests = {r1, r2}
  Kinds = {"bill"}
  MaxRequests = 0
  MaxFaults = 0
INVARIANT ChargedOnce
